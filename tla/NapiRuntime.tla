---------------------------- MODULE NapiRuntime ----------------------------
(***************************************************************************)
(* napi_runtime__ (src/src/napi/env/napi_runtime.cc): the worker thread    *)
(* and the asynchronous works it executes, a thread-safe function, and     *)
(* napi_detach_runtime, which stops the one and closes the others.         *)
(*                                                                         *)
(* The JS thread runs one task of the host after the other; everything it  *)
(* hands to a native module (complete_, call_js_cb_, thread_finalize_cb_)  *)
(* is a callback between two steps, in which the module may call any       *)
(* operation.  The mutexes are held for one step each, since nothing but   *)
(* the posting of a task is called under them.                             *)
(*                                                                         *)
(* External: the host runs the tasks it is given on the JS thread, in      *)
(* order, never inside the call that posts them, and drops what is left of *)
(* them when the runtime is detached: they may refer to what is deleted.   *)
(* Modules, as the code asks them to, delete a work only before it is      *)
(* queued or in its complete callback, let nobody use a function they      *)
(* delete, and never make a blocking call on the JS thread, nor on the     *)
(* worker, which napi_detach_runtime joins.  LateWorker says whether they  *)
(* queue the first work of all in a callback of napi_detach_runtime: that  *)
(* creates a worker when ~napi_runtime__ has already looked for one.       *)
(***************************************************************************)
EXTENDS Naturals, Sequences, SequencesExt

CONSTANTS
  Works,      \* the works the module may create, each once
  Items,      \* what is passed to the function, each once
  Threads,    \* the native threads that hold the function
  JS, Worker, \* the JS thread and the worker thread, as callers of the function
  NoWork, NoItem,
  MaxQueue,   \* max_queue_size_, 0 for no limit
  InitCounts, \* what init_thread_count may be
  MaxCount,   \* bound: the threads that are counted
  LateWorker  \* whether a callback of napi_detach_runtime may queue the first work of all

ASSUME NapiRuntimeAssumption ==
  /\ {JS, Worker} \cap Threads = {} /\ JS # Worker
  /\ NoWork \notin Works /\ NoItem \notin Items
  /\ MaxQueue \in Nat /\ MaxCount \in Nat /\ InitCounts \subseteq 0..MaxCount
  /\ LateWorker \in BOOLEAN

Callers == Threads \cup {JS, Worker}

VARIABLES
  phase,      \* "attached"; napi_detach_runtime: "stopping", "closing", "joining", "detached"
  host,       \* the tasks that the foreground handler was given
  js,         \* where the JS thread is: "idle" outside of the tasks
  current,    \* the work whose complete callback runs
  worker,     \* where the worker thread is: "none" before it is created
  job,        \* the task it executes
  tasks, stopped,     \* queue_ and stopped_ of the worker thread
  state,      \* state_ of each work, or "new" or "deleted"
  function,   \* the ThreadSafeFunction: "none", "open" or "deleted"
  runner,     \* whether runner of the shared state is not null
  object,     \* the ThreadSafeJSRunner: "none", "live" or "deleted"
  count,      \* thread_count_
  queue,      \* queue of the shared state
  batch,      \* what DoWork or Finalize has moved out of it
  finalizing, \* whether it is Finalize that did
  blocked,    \* the item whose promise each caller waits for
  answered,   \* the items whose promise is set
  ran, granted, told, delivered  \* history: works executed and cancelled, what complete
                                 \* was told, items passed to call_js_cb_

asyncWork == <<worker, job, tasks, stopped, state, ran, granted>>
tsfn == <<function, runner, object, count, queue, blocked>>
serving == <<current, batch, finalizing, told, delivered, answered>>
vars == <<phase, host, js, asyncWork, tsfn, serving>>

Complete(w) == [run |-> "Complete", work |-> w]
DoWork == [run |-> "DoWork", work |-> NoWork]
Finalize == [run |-> "Finalize", work |-> NoWork]
HostTasks == {Complete(w) : w \in Works} \cup {DoWork, Finalize}

TypeOK ==
  /\ phase \in {"attached", "stopping", "closing", "joining", "detached"}
  /\ host \in Seq(HostTasks)
  /\ js \in {"idle", "complete", "drain", "call", "finalize"}
  /\ current \in Works \cup {NoWork} /\ job \in Works \cup {NoWork}
  /\ worker \in {"none", "look", "wait", "take", "execute", "post", "gone"}
  /\ tasks \in Seq(Works) /\ stopped \in BOOLEAN
  /\ state \in [Works -> {"new", "kCreated", "kQueued", "kRunning", "kCompleted",
                          "kCancelled", "deleted"}]
  /\ function \in {"none", "open", "deleted"} /\ object \in {"none", "live", "deleted"}
  /\ runner \in BOOLEAN /\ finalizing \in BOOLEAN /\ count \in 0..MaxCount
  /\ queue \in Seq(Items) /\ batch \in Seq(Items) /\ delivered \in Seq(Items)
  /\ blocked \in [Callers -> Items \cup {NoItem}]
  /\ answered \subseteq Items /\ ran \subseteq Works /\ granted \subseteq Works
  /\ told \in [Works -> {"nothing", "napi_ok", "napi_cancelled"}]

Init ==
  /\ phase = "attached" /\ host = <<>> /\ js = "idle" /\ current = NoWork
  /\ worker = "none" /\ job = NoWork /\ tasks = <<>> /\ stopped = FALSE
  /\ state = [w \in Works |-> "new"]
  /\ function = "none" /\ runner = FALSE /\ object = "none" /\ count = 0
  /\ queue = <<>> /\ batch = <<>> /\ finalizing = FALSE
  /\ blocked = [c \in Callers |-> NoItem] /\ answered = {}
  /\ ran = {} /\ granted = {} /\ delivered = <<>>
  /\ told = [w \in Works |-> "nothing"]

\* The JS thread is in the code of a module, which may call what follows: outside of the
\* tasks of the host, or in a callback of one, or of napi_detach_runtime.
InModule ==
  \/ js = "idle" /\ phase = "attached"
  \/ js \in {"complete", "call", "finalize"}

WorkExists(w) == state[w] \notin {"new", "deleted"}
SetState(w, s) == state' = [state EXCEPT ![w] = s]

-----------------------------------------------------------------------------
(* Asynchronous works, on the JS thread.                                   *)

CreateWork(w) ==
  /\ InModule /\ state[w] = "new"
  /\ SetState(w, "kCreated")
  /\ UNCHANGED <<phase, host, js, worker, job, tasks, stopped, ran, granted, tsfn, serving>>

DeleteWork(w) ==
  /\ InModule /\ state[w] = "kCreated"
  /\ SetState(w, "deleted")
  /\ UNCHANGED <<phase, host, js, worker, job, tasks, stopped, ran, granted, tsfn, serving>>

\* Mutant: the worker is notified when the queue was not empty.
NotifyIfNotEmpty ==
  IF worker = "none" \/ (worker = "wait" /\ tasks # <<>>) THEN "look" ELSE worker

\* PostTask notifies the worker only if the queue was empty; PostWorkerTask creates it.
NotifyWorker ==
  IF worker = "none" \/ (worker = "wait" /\ tasks = <<>>) THEN "look" ELSE worker

QueueWork(w) ==
  /\ InModule /\ state[w] = "kCreated"
  /\ phase = "closing" /\ worker = "none" => LateWorker
  /\ SetState(w, "kQueued")
  /\ tasks' = Append(tasks, w)
  /\ worker' = NotifyWorker
  /\ UNCHANGED <<phase, host, js, job, stopped, ran, granted, tsfn, serving>>

\* Mutant: a work that is being executed is cancelled too.
CancellableWhileRunning == {"kQueued", "kRunning"}

Cancellable == {"kQueued"}

\* In any other state the operation fails and changes nothing.
CancelWork(w) ==
  /\ InModule /\ state[w] \in Cancellable
  /\ SetState(w, "kCancelled")
  /\ granted' = granted \cup {w}
  /\ UNCHANGED <<phase, host, js, worker, job, tasks, stopped, ran, tsfn, serving>>

-----------------------------------------------------------------------------
(* The worker thread.                                                      *)

\* What is still queued when the thread is stopped is left in the queue.
LookForTask ==
  /\ worker = "look"
  /\ \/ stopped /\ worker' = "gone" /\ UNCHANGED <<job, tasks>>
     \/ ~stopped /\ tasks = <<>> /\ worker' = "wait" /\ UNCHANGED <<job, tasks>>
     \/ /\ ~stopped /\ tasks # <<>> /\ worker' = "take"
        /\ job' = Head(tasks) /\ tasks' = Tail(tasks)
  /\ UNCHANGED <<phase, host, js, stopped, state, ran, granted, tsfn, serving>>

\* The task tries to move its work from kQueued to kRunning; a cancelled one it skips.  (A
\* late worker may have a work that was deleted: it is taken to skip that one, too.)
StartWork ==
  /\ worker = "take"
  /\ \/ /\ state[job] = "kQueued"
        /\ SetState(job, "kRunning")
        /\ ran' = ran \cup {job}
        /\ worker' = "execute"
     \/ /\ state[job] # "kQueued"
        /\ worker' = "post"
        /\ UNCHANGED <<state, ran>>
  /\ UNCHANGED <<phase, host, js, job, tasks, stopped, granted, tsfn, serving>>

EndWork ==
  /\ worker = "execute"
  /\ SetState(job, IF WorkExists(job) THEN "kCompleted" ELSE "deleted")
  /\ worker' = "post"
  /\ UNCHANGED <<phase, host, js, job, tasks, stopped, ran, granted, tsfn, serving>>

PostJSTask ==
  /\ worker = "post"
  /\ host' = Append(host, Complete(job))
  /\ worker' = "look" /\ job' = NoWork
  /\ UNCHANGED <<phase, js, tasks, stopped, state, ran, granted, tsfn, serving>>

-----------------------------------------------------------------------------
(* The thread-safe function, on any thread.                                *)

CreateFunction ==
  /\ InModule /\ function = "none"
  /\ function' = "open" /\ runner' = TRUE /\ object' = "live"
  /\ count' \in InitCounts
  /\ UNCHANGED <<phase, host, js, asyncWork, queue, blocked, serving>>

\* c is in code that may call the function.
MayCall(c) ==
  /\ function = "open" /\ blocked[c] = NoItem
  /\ c = JS => InModule
  /\ c = Worker => worker = "execute"

\* Mutant: a task is posted for a full queue instead of an empty one.
TaskForSecondCall == IF Len(queue) = 1 THEN Append(host, DoWork) ELSE host

TaskForCall == IF queue = <<>> THEN Append(host, DoWork) ELSE host

\* A call that finds no runner returns napi_closing; one that finds the queue full, if it
\* may not block, napi_queue_full.  A blocking call ignores the limit.
Call(c, i, blocking) ==
  /\ MayCall(c) /\ runner
  /\ i \notin ToSet(queue) \cup ToSet(batch) \cup ToSet(delivered)
  /\ IF blocking THEN c \in Threads ELSE MaxQueue > 0 => Len(queue) < MaxQueue
  /\ queue' = Append(queue, i)
  /\ host' = TaskForCall
  /\ blocked' = [blocked EXCEPT ![c] = IF blocking THEN i ELSE NoItem]
  /\ UNCHANGED <<phase, js, asyncWork, function, runner, object, count, serving>>

ReturnFromCall(c) ==
  /\ blocked[c] \in answered
  /\ blocked' = [blocked EXCEPT ![c] = NoItem]
  /\ UNCHANGED <<phase, host, js, asyncWork, function, runner, object, count, queue, serving>>

Acquire(c) ==
  /\ MayCall(c) /\ runner /\ count < MaxCount
  /\ count' = count + 1
  /\ UNCHANGED <<phase, host, js, asyncWork, function, runner, object, queue, blocked, serving>>

\* Mutant: the runner stays, and the next one who releases or deletes posts it again.
KeepRunner == runner

\* The function gives its runner up when it posts its Finalize.
NoRunner == FALSE

\* Mutant: thread_count_ wraps around.
AnyCount == TRUE

\* With no thread counted nothing happens, even if the mode is napi_tsfn_abort.
Counted == count > 0

Release(c, abort) ==
  /\ MayCall(c) /\ runner /\ Counted
  /\ count' = count - 1
  /\ \/ /\ count' = 0 \/ abort
        /\ host' = Append(host, Finalize)
        /\ runner' = NoRunner
     \/ ~(count' = 0 \/ abort) /\ UNCHANGED <<host, runner>>
  /\ UNCHANGED <<phase, js, asyncWork, function, object, queue, blocked, serving>>

Delete(c) ==
  /\ MayCall(c)
  /\ function' = "deleted"
  /\ host' = IF runner THEN Append(host, Finalize) ELSE host
  /\ runner' = NoRunner
  /\ UNCHANGED <<phase, js, asyncWork, object, count, queue, blocked, serving>>

-----------------------------------------------------------------------------
(* The JS thread: what a task does.                                        *)

Status(s) == IF s = "kCompleted" THEN "napi_ok" ELSE "napi_cancelled"

\* Complete: the status is loaded, complete_ begins.
BeginComplete(w, s) ==
  /\ js' = "complete" /\ current' = w
  /\ told' = [told EXCEPT ![w] = Status(s)]
  /\ UNCHANGED <<batch, finalizing, delivered, answered>>

\* complete_ has deleted its work.
EndComplete ==
  /\ js = "complete"
  /\ SetState(current, "deleted")
  /\ js' = "idle" /\ current' = NoWork
  /\ UNCHANGED <<phase, host, worker, job, tasks, stopped, ran, granted, tsfn,
                 batch, finalizing, told, delivered, answered>>

\* DoWork and Finalize take the whole queue; Finalize takes the runner away first.
TakeQueue(last) ==
  /\ js' = "drain" /\ finalizing' = last
  /\ batch' = queue /\ queue' = <<>>
  /\ runner' = (runner /\ ~last)
  /\ UNCHANGED <<current, told, delivered, answered, function, object, count, blocked>>

RunCompletion ==
  /\ Head(host).run = "Complete"
  /\ BeginComplete(Head(host).work, state[Head(host).work])
  /\ UNCHANGED tsfn

RunTask ==
  /\ phase = "attached" /\ js = "idle" /\ host # <<>>
  /\ host' = Tail(host)
  /\ \/ RunCompletion
     \/ Head(host) = DoWork /\ TakeQueue(FALSE)
     \/ Head(host) = Finalize /\ TakeQueue(TRUE)
  /\ UNCHANGED <<phase, asyncWork>>

BeginTask ==
  /\ js = "drain" /\ batch # <<>>
  /\ js' = "call"
  /\ delivered' = Append(delivered, Head(batch))
  /\ UNCHANGED <<phase, host, asyncWork, tsfn, current, batch, finalizing, told, answered>>

EndTask ==
  /\ js = "call"
  /\ js' = "drain" /\ batch' = Tail(batch)
  /\ answered' = answered \cup {Head(batch)}
  /\ UNCHANGED <<phase, host, asyncWork, tsfn, current, finalizing, told, delivered>>

\* Mutant: Finalize drops the calls that it finds.
DropWhenFinalizing ==
  /\ js = "drain" /\ (batch = <<>> \/ finalizing)
  /\ js' = IF finalizing THEN "finalize" ELSE "idle"
  /\ UNCHANGED <<phase, host, asyncWork, tsfn, serving>>

EndDrain ==
  /\ js = "drain" /\ batch = <<>>
  /\ js' = IF finalizing THEN "finalize" ELSE "idle"
  /\ UNCHANGED <<phase, host, asyncWork, tsfn, serving>>

\* thread_finalize_cb_ returns and the runner deletes itself.
EndFinalize ==
  /\ js = "finalize"
  /\ js' = "idle" /\ object' = "deleted" /\ finalizing' = FALSE
  /\ UNCHANGED <<phase, host, asyncWork, function, runner, count, queue, blocked,
                 current, batch, told, delivered, answered>>

-----------------------------------------------------------------------------
(* napi_detach_runtime.                                                    *)

WorkerJoined == worker \in {"none", "gone"}

\* The worker is told to end, if there is one.
StopWorker ==
  /\ stopped' = (worker # "none")
  /\ worker' = IF worker = "wait" THEN "look" ELSE worker

Detach ==
  /\ phase = "attached" /\ js = "idle"
  /\ phase' = "stopping"
  /\ StopWorker
  /\ UNCHANGED <<host, js, job, tasks, state, ran, granted, tsfn, serving>>

JoinWorker ==
  /\ phase = "stopping" /\ WorkerJoined
  /\ phase' = "closing"
  /\ UNCHANGED <<host, js, asyncWork, tsfn, serving>>

\* Work::onClose: what the worker has not begun is cancelled.  (The state is looked at and
\* set in one step, which is exact if there is no worker any more.)
CloseWork(w) ==
  LET last == IF state[w] \in {"kCreated", "kQueued"} THEN "kCancelled" ELSE state[w] IN
  /\ phase = "closing" /\ js = "idle" /\ WorkExists(w)
  /\ SetState(w, last)
  /\ BeginComplete(w, last)
  /\ UNCHANGED <<phase, host, worker, job, tasks, stopped, ran, granted, tsfn>>

CloseRunner ==
  /\ phase = "closing" /\ js = "idle" /\ object = "live"
  /\ TakeQueue(TRUE)
  /\ UNCHANGED <<phase, host, asyncWork>>

\* Everything has been closed.  ~WorkerThread stops the worker again, and for the first time
\* one that was created meanwhile.
EndClosing ==
  /\ phase = "closing" /\ js = "idle" /\ object # "live" /\ \A w \in Works : ~WorkExists(w)
  /\ phase' = "joining"
  /\ StopWorker
  /\ UNCHANGED <<host, js, job, tasks, state, ran, granted, tsfn, serving>>

\* The tasks that are left are never run.
EndDetach ==
  /\ phase = "joining" /\ WorkerJoined
  /\ phase' = "detached" /\ host' = <<>>
  /\ UNCHANGED <<js, asyncWork, tsfn, serving>>

-----------------------------------------------------------------------------
WorkerStep == LookForTask \/ StartWork \/ EndWork \/ PostJSTask

\* The callbacks return, and the loops they are called from go on.
JSStep ==
  \/ RunTask \/ EndComplete \/ BeginTask \/ EndTask \/ EndDrain \/ EndFinalize
  \/ JoinWorker \/ (\E w \in Works : CloseWork(w)) \/ CloseRunner \/ EndClosing \/ EndDetach

ModuleStep ==
  \/ \E w \in Works : CreateWork(w) \/ DeleteWork(w) \/ QueueWork(w) \/ CancelWork(w)
  \/ CreateFunction
  \/ \E c \in Callers :
       \/ \E i \in Items, blocking \in BOOLEAN : Call(c, i, blocking)
       \/ Acquire(c) \/ Delete(c) \/ \E abort \in BOOLEAN : Release(c, abort)
  \/ Detach

\* The runtime is gone, and nobody waits for it.
Ended ==
  /\ phase = "detached" /\ WorkerJoined /\ \A c \in Callers : blocked[c] = NoItem
  /\ UNCHANGED vars

Next ==
  \/ WorkerStep \/ JSStep \/ ModuleStep \/ Ended
  \/ \E c \in Callers : ReturnFromCall(c)

\* The threads are scheduled, the host runs its tasks, and what a module is called for,
\* execute_ too, returns; nothing forces a module to call anything.
Fairness ==
  /\ WF_vars(WorkerStep) /\ WF_vars(JSStep)
  /\ \A c \in Threads : WF_vars(ReturnFromCall(c))

Spec == Init /\ [][Next]_vars /\ Fairness

-----------------------------------------------------------------------------
(* Properties.                                                             *)

\* As long as the host may run tasks, each refers to a work or a runner that exists, and
\* no two tasks would delete the same one (they hold plain pointers).  What the worker
\* executes and what it has queued exists too, until it is joined.
TasksAreLive ==
  /\ phase \in {"attached", "stopping"} =>
       /\ \A i \in DOMAIN host : host[i].run = "Complete" => WorkExists(host[i].work)
       /\ (\E i \in DOMAIN host : host[i].run # "Complete") => object = "live"
       /\ \A i, j \in DOMAIN host :
            i # j /\ host[i].run # "DoWork" => host[i] # host[j]
       /\ \A i \in DOMAIN tasks : WorkExists(tasks[i])
  /\ worker \in {"take", "execute", "post"} => WorkExists(job)

\* A module is told napi_ok exactly for the works that were executed, and a work whose
\* cancellation succeeded never is.
StatusIsTrue ==
  /\ \A w \in Works : told[w] # "nothing" => (told[w] = "napi_ok" <=> w \in ran)
  /\ granted \cap ran = {}

\* Work::onClose takes no lock since the worker thread is stopped.
ClosedAlone ==
  [][\A w \in Works : CloseWork(w) => ~(worker \in {"take", "execute", "post"} /\ job = w)]_vars

\* Every work that was queued is completed: by the worker, or by napi_detach_runtime, which
\* drops the tasks of the worker and of the host.
WorkCompletes ==
  \A w \in Works : state[w] = "kQueued" ~> told[w] # "nothing"

\* A blocking call returns, whoever closes, aborts, deletes or detaches meanwhile.
CallsReturn ==
  \A c \in Threads : blocked[c] # NoItem ~> blocked[c] = NoItem

MailboxStatus ==
  CASE object = "none" -> "none"
    [] runner -> "open"
    [] object = "deleted" -> "finalized"
    [] OTHER -> "closed"

\* What has been accepted and not been passed to call_js_cb_.
Undelivered == (IF js = "call" THEN Tail(batch) ELSE batch) \o queue

MailboxOf == INSTANCE Mailbox WITH
  box <- Undelivered, status <- MailboxStatus

\* What is accepted is delivered once and in order, and the finalizer comes after it.
ImplementsMailbox == MailboxOf!Spec
=============================================================================
