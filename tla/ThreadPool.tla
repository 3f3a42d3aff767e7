----------------------------- MODULE ThreadPool -----------------------------
(***************************************************************************)
(* MplThreadPool (src/src/gc/thread_pool.{h,cc}): the worker threads that  *)
(* mark, remark and sweep, and the one client thread that drives them.     *)
(*                                                                         *)
(* One step is one critical section under taskMutex, from the lock (or the *)
(* wake-up) to the unlock (or the wait).  The one place where the mutex    *)
(* stays held from step to step is the call of notify_func, which touches  *)
(* state of the collector that other threads read without the mutex.       *)
(* The threads blocked on a condition variable are those whose program     *)
(* counter says so; a notified thread must still get the mutex back.       *)
(***************************************************************************)
EXTENDS Naturals, Integers, Sequences, FiniteSets

CONSTANTS
  Workers,     \* the pool's threads
  Tasks,       \* every task that will ever be submitted
  NoTask,      \* nullptr
  MaxSpurious  \* bound: how many wake-ups come with no notify

ASSUME PoolAssumption ==
  /\ IsFiniteSet(Workers) /\ Workers # {}
  /\ NoTask \notin Tasks
  /\ MaxSpurious \in Nat

VARIABLES
  running,      \* atomic<bool> running
  exited,       \* atomic<bool> exit
  taskQueue,    \* the queue of submitted tasks
  maxActive,    \* maxActiveThreadNum
  currActive,   \* currActiveThreadNum
  currWaiting,  \* currWaittingThreadNum
  armed,        \* notify_func is set
  signalled,    \* what notify_func sets in the collector
  pc,           \* where each worker is in WorkerFunc
  holds,        \* the task a worker is executing
  client,       \* where the client thread is
  helping,      \* the task the client is executing
  taskState,    \* what became of each task (history)
  spurious      \* wake-ups without a notify that are still allowed

vars == <<running, exited, taskQueue, maxActive, currActive, currWaiting, armed,
          signalled, pc, holds, client, helping, taskState, spurious>>

\* The pool as its threads share it, the task history aside.
queueVars == <<taskQueue, taskState>>
flags == <<running, exited, maxActive>>

TaskOrNone == Tasks \cup {NoTask}

WorkerPCs == {"unborn", "top", "sleeping", "sleepWake", "waiting", "waitWake",
              "calling", "exec", "left"}
ClientPCs == {"spawning", "counting", "client", "stop", "stopWaiting", "stopCheck",
              "help", "helpExec", "awaitDone", "doneWaiting", "finishStop",
              "finishWaiting", "finishCheck", "drain", "drainExec", "joining", "deleted"}

TypeOK ==
  /\ running \in BOOLEAN /\ exited \in BOOLEAN
  /\ armed \in BOOLEAN /\ signalled \in BOOLEAN
  /\ taskQueue \in Seq(Tasks)
  /\ maxActive \in Nat /\ currActive \in Int /\ currWaiting \in Nat
  /\ pc \in [Workers -> WorkerPCs]
  /\ holds \in [Workers -> TaskOrNone]
  /\ client \in ClientPCs
  /\ helping \in TaskOrNone
  /\ taskState \in [Tasks -> {"new", "queued", "running", "done", "dropped"}]
  /\ spurious \in 0..MaxSpurious

Init ==
  /\ running = FALSE /\ exited = FALSE
  /\ taskQueue = <<>>
  /\ maxActive = 0 /\ currActive = 0 /\ currWaiting = 0
  /\ armed = FALSE /\ signalled = FALSE
  /\ pc = [w \in Workers |-> "unborn"]
  /\ holds = [w \in Workers |-> NoTask]
  /\ client = "spawning"
  /\ helping = NoTask
  /\ taskState = [t \in Tasks |-> "new"]
  /\ spurious = MaxSpurious

-----------------------------------------------------------------------------
(* The mutex and the condition variables.                                  *)

\* taskMutex is held between steps only by a worker inside notify_func.
MutexFree == \A w \in Workers : pc[w] # "calling"

At(where) == {w \in Workers : pc[w] = where}

\* pc once every worker blocked at `from` is woken (notify_all).
WakeAll(from, to) == [w \in Workers |-> IF pc[w] = from THEN to ELSE pc[w]]

\* The client's side of notify_all on allThreadStopped and allWorkDoneCondVar.
WakeStopper(c) ==
  CASE c = "stopWaiting" -> "stopCheck"
    [] c = "finishWaiting" -> "finishCheck"
    [] OTHER -> c

\* Mutant: the last worker to run out of tasks does not tell WaitFinish.
WakeFinisherForgotten(c) == c

WakeFinisher(c) == IF c = "doneWaiting" THEN "awaitDone" ELSE c

-----------------------------------------------------------------------------
(* WorkerFunc.                                                             *)

\* Too many active threads, or a stopped pool; `active` counts the worker itself.
MaySleep(active) == (active > maxActive \/ ~running) /\ ~exited

\* The worker goes to sleep on threadSleepingCondVar; the last one tells Stop().
Sleep(w, active) ==
  /\ MaySleep(active)
  /\ currActive' = active - 1
  /\ client' = IF active - 1 = 0 THEN WakeStopper(client) ELSE client
  /\ pc' = [pc EXCEPT ![w] = "sleeping"]
  /\ UNCHANGED <<currWaiting, holds, queueVars>>

\* Mutant: one thread short.
LastToWaitOffByOne(waiting) == waiting + 1 >= maxActive - 1

\* With this worker, every active thread waits for a task.
LastToWait(waiting) == waiting + 1 = maxActive

\* The worker waits on taskEmptyCondVar.  The last one to do so first calls
\* notify_func, if there is one, and tells WaitFinish that all work is done.
\* (hasNewTask is always FALSE: the queue was empty and the mutex is held.)
WaitForTask(w, active, waiting) ==
  /\ taskQueue = <<>> /\ running /\ ~exited
  /\ currActive' = active
  /\ currWaiting' = waiting + 1
  /\ UNCHANGED <<holds, queueVars>>
  /\ \/ /\ LastToWait(waiting) /\ armed
        /\ pc' = [pc EXCEPT ![w] = "calling"]
        /\ UNCHANGED client
     \/ /\ LastToWait(waiting) /\ ~armed
        /\ pc' = [pc EXCEPT ![w] = "waiting"]
        /\ client' = WakeFinisher(client)
     \/ /\ ~LastToWait(waiting)
        /\ pc' = [pc EXCEPT ![w] = "waiting"]
        /\ UNCHANGED client

TakeTask(w, active, waiting) ==
  /\ taskQueue # <<>> /\ running /\ ~exited
  /\ currActive' = active
  /\ currWaiting' = waiting
  /\ taskQueue' = Tail(taskQueue)
  /\ holds' = [holds EXCEPT ![w] = Head(taskQueue)]
  /\ taskState' = [taskState EXCEPT ![Head(taskQueue)] = "running"]
  /\ pc' = [pc EXCEPT ![w] = "exec"]
  /\ UNCHANGED client

\* Stopped or exited meanwhile: back to the head of the loop, with no task.
TakeNothing(w, active, waiting) ==
  /\ ~running \/ exited
  /\ currActive' = active
  /\ currWaiting' = waiting
  /\ pc' = [pc EXCEPT ![w] = "top"]
  /\ UNCHANGED <<holds, queueVars, client>>

\* From the empty-queue loop to the unlock.
LookForTask(w, active, waiting) ==
  \/ WaitForTask(w, active, waiting)
  \/ TakeTask(w, active, waiting)
  \/ TakeNothing(w, active, waiting)

workerUnchanged == <<flags, armed, signalled, helping, spurious>>

\* while (!pool->IsExited()) { lock; ...  (A worker that gets the mutex only after
\* Exit() finds nothing to do and is back at the head of the loop: no step.)
EnterLoop(w) ==
  /\ pc[w] = "top" /\ ~exited /\ MutexFree
  /\ \/ Sleep(w, currActive)
     \/ /\ ~MaySleep(currActive)
        /\ \/ WaitForTask(w, currActive, currWaiting)
           \/ TakeTask(w, currActive, currWaiting)
  /\ UNCHANGED workerUnchanged

\* Mutant: a thread that wakes up does not count itself active again.
WakeFromSleepUncounted(w) ==
  /\ pc[w] = "sleepWake" /\ MutexFree
  /\ \/ Sleep(w, currActive)
     \/ ~MaySleep(currActive) /\ LookForTask(w, currActive, currWaiting)
  /\ UNCHANGED workerUnchanged

\* Notified on threadSleepingCondVar, the mutex back.
WakeFromSleep(w) ==
  /\ pc[w] = "sleepWake" /\ MutexFree
  /\ \/ Sleep(w, currActive + 1)
     \/ ~MaySleep(currActive + 1) /\ LookForTask(w, currActive + 1, currWaiting)
  /\ UNCHANGED workerUnchanged

\* Mutants: a thread that stops waiting is still counted, or is counted off twice.
WakeFromWaitStillCounted(w) ==
  /\ pc[w] = "waitWake" /\ MutexFree
  /\ LookForTask(w, currActive, currWaiting)
  /\ UNCHANGED workerUnchanged
WakeFromWaitTwice(w) ==
  /\ pc[w] = "waitWake" /\ MutexFree
  /\ LookForTask(w, currActive, currWaiting - 2)
  /\ UNCHANGED workerUnchanged

\* Notified on taskEmptyCondVar, the mutex back.
WakeFromWait(w) ==
  /\ pc[w] = "waitWake" /\ MutexFree
  /\ LookForTask(w, currActive, currWaiting - 1)
  /\ UNCHANGED workerUnchanged

\* func(0), then allWorkDoneCondVar.notify_all() and the wait.
CallNotifyFunc(w) ==
  /\ pc[w] = "calling"
  /\ signalled' = TRUE
  /\ client' = WakeFinisher(client)
  /\ pc' = [pc EXCEPT ![w] = "waiting"]
  /\ UNCHANGED <<flags, queueVars, currActive, currWaiting, armed, holds, helping, spurious>>

\* task->Execute returns.
EndTask(w) ==
  /\ pc[w] = "exec"
  /\ taskState' = [taskState EXCEPT ![holds[w]] = "done"]
  /\ holds' = [holds EXCEPT ![w] = NoTask]
  /\ pc' = [pc EXCEPT ![w] = "top"]
  /\ UNCHANGED <<flags, taskQueue, currActive, currWaiting, armed, signalled, client,
                 helping, spurious>>

\* The thread function ends.
Leave(w) ==
  /\ pc[w] = "top" /\ exited /\ MutexFree
  /\ pc' = [pc EXCEPT ![w] = "left"]
  /\ currActive' = currActive - 1
  /\ client' = IF currActive - 1 = 0 THEN WakeStopper(client) ELSE client
  /\ UNCHANGED <<flags, queueVars, currWaiting, armed, signalled, holds, helping, spurious>>

\* The standard lets a condition variable wake a thread with no notify.
SpuriousWorkerWake(w) ==
  /\ spurious > 0
  /\ \/ pc[w] = "sleeping" /\ pc' = [pc EXCEPT ![w] = "sleepWake"]
     \/ pc[w] = "waiting" /\ pc' = [pc EXCEPT ![w] = "waitWake"]
  /\ spurious' = spurious - 1
  /\ UNCHANGED <<flags, queueVars, currActive, currWaiting, armed, signalled, holds,
                 client, helping>>

-----------------------------------------------------------------------------
(* The operations of the pool, called by the client thread; AddTask also by *)
(* a task that is being executed.                                           *)

\* The constructor creates a thread, and only then counts it: the new thread may
\* already have found the pool stopped and gone to sleep.
SpawnThread(w) ==
  /\ client = "spawning" /\ pc[w] = "unborn"
  /\ pc' = [pc EXCEPT ![w] = "top"]
  /\ client' = "counting"
  /\ UNCHANGED <<flags, queueVars, currActive, currWaiting, armed, signalled, holds,
                 helping, spurious>>

CountThread ==
  /\ client = "counting"
  /\ maxActive' = maxActive + 1
  /\ currActive' = currActive + 1
  /\ client' = IF At("unborn") = {} THEN "stop" ELSE "spawning"
  /\ UNCHANGED <<running, exited, queueVars, currWaiting, armed, signalled, pc, holds,
                 helping, spurious>>

\* SetMaxActiveThreadNum: the pool should be stopped then (thread_pool.h:67).
SetMaxActiveThreadNum(n) ==
  /\ client = "client" /\ ~running
  /\ maxActive' = n
  /\ UNCHANGED <<running, exited, queueVars, currActive, currWaiting, armed, signalled,
                 pc, holds, client, helping, spurious>>

SetNotifyFunc(f) ==
  /\ client = "client"
  /\ armed' = f
  /\ signalled' = (signalled /\ ~f)
  /\ UNCHANGED <<flags, queueVars, currActive, currWaiting, pc, holds, client, helping,
                 spurious>>

\* Mutant: no notify when a single thread waits.
NotifyOneIfMany ==
  IF running /\ currWaiting > 1 /\ At("waiting") # {}
  THEN \E w \in At("waiting") : pc' = [pc EXCEPT ![w] = "waitWake"]
  ELSE UNCHANGED pc

\* notify_one on taskEmptyCondVar reaches one blocked worker, if there is one.
NotifyOneWaiting ==
  IF running /\ currWaiting > 0 /\ At("waiting") # {}
  THEN \E w \in At("waiting") : pc' = [pc EXCEPT ![w] = "waitWake"]
  ELSE UNCHANGED pc

PushTask(t) ==
  /\ taskState[t] = "new" /\ MutexFree
  /\ taskQueue' = Append(taskQueue, t)
  /\ taskState' = [taskState EXCEPT ![t] = "queued"]
  /\ NotifyOneWaiting
  /\ UNCHANGED <<flags, currActive, currWaiting, armed, signalled, holds, client,
                 helping, spurious>>

\* The collector submits tasks while notify_func is not set, or the pool is stopped.
AddTask(t) == client = "client" /\ PushTask(t)
AddTaskFromWorker(w, t) == pc[w] = "exec" /\ PushTask(t)
AddTaskFromClient(t) == client \in {"helpExec", "drainExec"} /\ PushTask(t)

Start ==
  /\ client = "client" /\ MutexFree
  /\ running' = TRUE
  /\ pc' = WakeAll("sleeping", "sleepWake")
  /\ UNCHANGED <<exited, maxActive, queueVars, currActive, currWaiting, armed, signalled,
                 holds, client, helping, spurious>>

\* WaitFinish(true): the client first executes tasks itself.  Its callers take
\* notify_func away before.
WaitFinish ==
  /\ client = "client" /\ ~armed
  /\ client' = "help"
  /\ UNCHANGED <<flags, queueVars, currActive, currWaiting, armed, signalled, pc, holds,
                 helping, spurious>>

\* The client takes the next task from the queue, to execute it itself.
TakeAsClient(where) ==
  /\ taskQueue # <<>>
  /\ taskQueue' = Tail(taskQueue)
  /\ helping' = Head(taskQueue)
  /\ taskState' = [taskState EXCEPT ![Head(taskQueue)] = "running"]
  /\ client' = where

Help ==
  /\ client = "help" /\ MutexFree
  /\ IF taskQueue # <<>> /\ running /\ ~exited
       THEN TakeAsClient("helpExec")
       ELSE client' = "awaitDone" /\ UNCHANGED <<queueVars, helping>>
  /\ UNCHANGED <<flags, currActive, currWaiting, armed, signalled, pc, holds, spurious>>

\* task->Execute(0) returns, in WaitFinish or in DrainTaskQueue.
EndOwnTask ==
  /\ client \in {"helpExec", "drainExec"}
  /\ taskState' = [taskState EXCEPT ![helping] = "done"]
  /\ helping' = NoTask
  /\ client' = IF client = "helpExec" THEN "help" ELSE "drain"
  /\ UNCHANGED <<flags, taskQueue, currActive, currWaiting, armed, signalled, pc, holds,
                 spurious>>

\* Wait on allWorkDoneCondVar until every active worker waits for a task.
AwaitDone ==
  /\ client = "awaitDone" /\ MutexFree
  /\ client' = IF currWaiting # maxActive /\ running /\ ~exited
               THEN "doneWaiting" ELSE "finishStop"
  /\ UNCHANGED <<flags, queueVars, currActive, currWaiting, armed, signalled, pc, holds,
                 helping, spurious>>

\* Mutant: does not wait for the workers to go to sleep.
StopNoWait ==
  /\ client \in {"stop", "finishStop"} /\ MutexFree
  /\ running' = FALSE
  /\ pc' = WakeAll("waiting", "waitWake")
  /\ client' = IF client = "stop" THEN "client" ELSE "drain"
  /\ UNCHANGED <<exited, maxActive, queueVars, currActive, currWaiting, armed, signalled,
                 holds, helping, spurious>>

\* Stop(), called by the constructor ("stop") and by WaitFinish ("finishStop").
Stop ==
  /\ client \in {"stop", "finishStop"} /\ MutexFree
  /\ running' = FALSE
  /\ pc' = WakeAll("waiting", "waitWake")
  /\ client' = IF client = "stop"
               THEN IF currActive # 0 THEN "stopWaiting" ELSE "client"
               ELSE IF currActive # 0 THEN "finishWaiting" ELSE "drain"
  /\ UNCHANGED <<exited, maxActive, queueVars, currActive, currWaiting, armed, signalled,
                 holds, helping, spurious>>

\* Woken on allThreadStopped.
StopAgain ==
  /\ client \in {"stopCheck", "finishCheck"} /\ MutexFree
  /\ client' = IF client = "stopCheck"
               THEN IF currActive # 0 THEN "stopWaiting" ELSE "client"
               ELSE IF currActive # 0 THEN "finishWaiting" ELSE "drain"
  /\ UNCHANGED <<flags, queueVars, currActive, currWaiting, armed, signalled, pc, holds,
                 helping, spurious>>

SpuriousClientWake ==
  /\ spurious > 0
  /\ client \in {"stopWaiting", "finishWaiting", "doneWaiting"}
  /\ client' = WakeFinisher(WakeStopper(client))
  /\ spurious' = spurious - 1
  /\ UNCHANGED <<flags, queueVars, currActive, currWaiting, armed, signalled, pc, holds,
                 helping>>

\* Mutant: WaitFinish returns after Stop(), whatever is left in the queue.
DrainNothing ==
  /\ client = "drain" /\ MutexFree
  /\ client' = "client"
  /\ UNCHANGED <<flags, queueVars, currActive, currWaiting, armed, signalled, pc, holds,
                 helping, spurious>>

\* DrainTaskQueue, the end of WaitFinish.
Drain ==
  /\ client = "drain" /\ MutexFree
  /\ IF taskQueue # <<>>
       THEN TakeAsClient("drainExec")
       ELSE client' = "client" /\ UNCHANGED <<queueVars, helping>>
  /\ UNCHANGED <<flags, currActive, currWaiting, armed, signalled, pc, holds, spurious>>

\* Mutant: the sleeping threads are not told.
ExitWaitingOnly ==
  /\ client = "client" /\ MutexFree
  /\ exited' = TRUE
  /\ pc' = WakeAll("waiting", "waitWake")
  /\ client' = "joining"
  /\ UNCHANGED <<running, maxActive, queueVars, currActive, currWaiting, armed, signalled,
                 holds, helping, spurious>>

\* ~MplThreadPool: Exit(), then join every thread, then ClearAllTask().
Exit ==
  /\ client = "client" /\ MutexFree
  /\ exited' = TRUE
  /\ pc' = [w \in Workers |-> CASE pc[w] = "waiting" -> "waitWake"
                               [] pc[w] = "sleeping" -> "sleepWake"
                               [] OTHER -> pc[w]]
  /\ client' = "joining"
  /\ UNCHANGED <<running, maxActive, queueVars, currActive, currWaiting, armed, signalled,
                 holds, helping, spurious>>

JoinAndClear ==
  /\ client = "joining"
  /\ At("left") = Workers
  /\ client' = "deleted"
  /\ taskQueue' = <<>>
  /\ taskState' = [t \in Tasks |->
                     IF taskState[t] = "queued" THEN "dropped" ELSE taskState[t]]
  /\ UNCHANGED <<flags, currActive, currWaiting, armed, signalled, pc, holds, helping,
                 spurious>>

-----------------------------------------------------------------------------
WorkerStep(w) ==
  \/ EnterLoop(w) \/ WakeFromSleep(w) \/ WakeFromWait(w)
  \/ CallNotifyFunc(w) \/ EndTask(w) \/ Leave(w)

\* What the client does inside an operation it has called.
ClientStep ==
  \/ \E w \in Workers : SpawnThread(w)
  \/ CountThread \/ Help \/ EndOwnTask \/ AwaitDone \/ Stop \/ StopAgain \/ Drain
  \/ JoinAndClear

ClientCall ==
  \/ \E n \in 1..Cardinality(Workers) : SetMaxActiveThreadNum(n)
  \/ \E f \in BOOLEAN : SetNotifyFunc(f)
  \/ \E t \in Tasks : AddTask(t) \/ AddTaskFromClient(t)
  \/ Start \/ WaitFinish \/ Exit

Next ==
  \/ \E w \in Workers : WorkerStep(w) \/ SpuriousWorkerWake(w)
                        \/ \E t \in Tasks : AddTaskFromWorker(w, t)
  \/ ClientStep \/ ClientCall \/ SpuriousClientWake
  \/ client = "deleted" /\ UNCHANGED vars

\* Every thread keeps running: a worker inside WorkerFunc or a task, and the client
\* inside an operation.  Nothing obliges the client to call one.
Fairness ==
  /\ \A w \in Workers : WF_vars(WorkerStep(w))
  /\ WF_vars(ClientStep)

Spec == Init /\ [][Next]_vars /\ Fairness

-----------------------------------------------------------------------------
(* Properties.                                                             *)

\* Once WaitFinish has stopped the pool, no worker is anywhere near a task until
\* the next Start: the collector may touch the heap alone.
StoppedIsQuiet ==
  ~running /\ client \in {"client", "drain", "drainExec"} =>
    \A w \in Workers : pc[w] \in {"sleeping", "sleepWake"} /\ holds[w] = NoTask

\* The two counters are the numbers of threads they are named for.
Active == {w \in Workers : pc[w] \notin {"unborn", "sleeping", "sleepWake", "left"}}
Waiting == At("waiting") \cup At("waitWake") \cup At("calling")

CountersExact ==
  /\ currActive = Cardinality(Active) - (IF client = "counting" THEN 1 ELSE 0)
  /\ currWaiting = Cardinality(Waiting)

\* IsStopped() read with no mutex: nothing is being executed by a worker, so the
\* collector may skip WaitFinish (collector_ms.cc:461).
IsStopped == currWaiting = maxActive
IsStoppedMeansIdle ==
  client = "client" /\ IsStopped =>
    \A w \in Workers : holds[w] = NoTask

\* No wake-up is lost: a submitted task of a running pool is never left with every
\* thread blocked.
NoLostWakeup ==
  running /\ ~exited /\ taskQueue # <<>> =>
    \/ \E w \in Workers : pc[w] \in {"top", "sleepWake", "waitWake", "exec"}
    \/ client \in {"help", "helpExec"}

\* notify_func runs when no task is queued or executed, by anyone.
NotifyOnlyWhenIdle ==
  (\E w \in Workers : pc[w] = "calling") =>
    \A t \in Tasks : taskState[t] \notin {"queued", "running"}

\* WaitFinish returns, and so does the destructor.
WaitFinishReturns == client = "help" ~> client = "client"
DeleteReturns == client = "joining" ~> client = "deleted"

\* What the client is doing, as TaskPool sees it.
abstractClient ==
  CASE client \in {"help", "helpExec", "awaitDone", "doneWaiting", "finishStop",
                   "finishWaiting", "finishCheck", "drain", "drainExec"} -> "finishing"
    [] client = "deleted" -> "deleted"
    [] OTHER -> "calling"

\* The pool does what TaskPool says.
Abstract == INSTANCE TaskPool WITH taskState <- taskState, client <- abstractClient
ImplementsTaskPool == Abstract!Spec
=============================================================================
