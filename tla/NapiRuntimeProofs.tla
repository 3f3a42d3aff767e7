------------------------- MODULE NapiRuntimeProofs -------------------------
(***************************************************************************)
(* No task of the host or of the worker refers to what was deleted, a      *)
(* module is told the truth about its works, and the thread-safe function  *)
(* is a mailbox, for any works, items, threads and limits.  What is said   *)
(* of works once napi_detach_runtime closes them assumes no late worker.   *)
(***************************************************************************)
EXTENDS NapiRuntime, SequenceTheorems, TLAPS

\* The host and the worker go on, until napi_detach_runtime has joined the one and ignores
\* the tasks of the other.
Going == phase \in {"attached", "stopping"}
Busy == worker \in {"take", "execute", "post"}
Over == {"kCompleted", "kCancelled"}

\* napi_detach_runtime has not begun to close, or no module makes it too late for a worker.
NoLateWorker == Going \/ LateWorker = FALSE

\* Where the JS thread is tells what it has in its hands, and so does the worker.
JSThread ==
  /\ phase \in {"stopping", "joining", "detached"} => js = "idle"
  /\ js = "complete" => current \in Works
  /\ js \in {"drain", "call", "finalize"} => object = "live"
  /\ js \in {"idle", "complete", "finalize"} => batch = <<>>
  /\ js = "call" => batch # <<>> /\ Head(batch) \in ToSet(delivered)
  /\ finalizing => js \in {"drain", "call", "finalize"} /\ queue = <<>>
  /\ js = "finalize" => finalizing
  /\ answered \subseteq ToSet(delivered)

HasJob == Busy => job \in Works

\* The runner is there until somebody posts its Finalize, or runs it.
RunnerIsLive ==
  /\ runner => object = "live" /\ ~finalizing
  /\ object = "none" <=> function = "none"

\* The state of a work tells how far the worker is with it.
JobIs ==
  /\ worker = "take" => state[job] \in {"kQueued", "kCancelled"}
  /\ worker = "post" => state[job] \in Over
  /\ worker = "execute" => state[job] = "kRunning"
  /\ \A w \in Works : state[w] = "kRunning" => worker = "execute" /\ job = w
  /\ ~Going => WorkerJoined

\* What is completed is not executed any more.
CurrentIsOver == js = "complete" => state[current] \in Over

\* The Finalize of the runner is posted once, and nothing for the function after it.
RunnerTasks ==
  /\ \A i \in DOMAIN host : host[i].run # "Complete" => object = "live" /\ ~finalizing
  /\ \A i \in DOMAIN host : host[i] = Finalize =>
       ~runner /\ \A j \in DOMAIN host : j > i => host[j].run = "Complete"

\* A work is in one place: the queue of the worker, its hands, the queue of the host, the
\* hands of the JS thread.
WorkTasks ==
  /\ \A i \in DOMAIN host : host[i].run = "Complete" =>
       /\ state[host[i].work] \in Over
       /\ \A j \in DOMAIN host : host[j] = host[i] => j = i
  /\ \A i \in DOMAIN tasks :
       /\ state[tasks[i]] \in {"kQueued", "kCancelled"}
       /\ \A j \in DOMAIN tasks : tasks[j] = tasks[i] => j = i
       /\ \A j \in DOMAIN host : host[j] # Complete(tasks[i])
  /\ Busy => /\ \A i \in DOMAIN tasks : tasks[i] # job
             /\ \A i \in DOMAIN host : host[i] # Complete(job)
  /\ js = "complete" => /\ \A i \in DOMAIN tasks : tasks[i] # current
                        /\ \A i \in DOMAIN host : host[i] # Complete(current)
                        /\ Busy => job # current

\* What happened to a work, as far as its state tells.
History ==
  /\ StatusIsTrue
  /\ \A w \in Works :
       /\ state[w] \in {"new", "kCreated", "kQueued"} =>
            w \notin ran \cup granted /\ told[w] = "nothing"
       /\ state[w] = "kRunning" => w \in ran \ granted /\ told[w] = "nothing"
       /\ state[w] = "kCompleted" => w \in ran \ granted
       /\ state[w] = "kCancelled" => w \notin ran

RuntimeInv ==
  /\ TypeOK /\ JSThread /\ HasJob /\ RunnerIsLive
  /\ NoLateWorker => JobIs /\ CurrentIsOver /\ History
  /\ Going => RunnerTasks /\ WorkTasks

-----------------------------------------------------------------------------
(* Sequences, and the tasks of the host.                                   *)

LEMMA Appended ==
  ASSUME NEW S, NEW s \in Seq(S), NEW e \in S
  PROVE  /\ Append(s, e) \in Seq(S) /\ Append(s, e) # <<>>
         /\ DOMAIN Append(s, e) = DOMAIN s \cup {Len(s) + 1}
         /\ \A i \in DOMAIN s : i \in Nat /\ i < Len(s) + 1 /\ Append(s, e)[i] = s[i]
         /\ Append(s, e)[Len(s) + 1] = e
         /\ ToSet(Append(s, e)) = ToSet(s) \cup {e}
<1>1. /\ Append(s, e) \in Seq(S) /\ DOMAIN s = 1..Len(s) /\ Len(s) \in Nat
      /\ Len(Append(s, e)) = Len(s) + 1 /\ Append(s, e)[Len(s) + 1] = e
      /\ \A i \in 1..Len(s) : Append(s, e)[i] = s[i]
      /\ DOMAIN Append(s, e) = 1..Len(s) + 1
  OBVIOUS
<1>2. DOMAIN Append(s, e) = DOMAIN s \cup {Len(s) + 1} /\ Append(s, e) # <<>>
  BY <1>1
<1>3. ToSet(Append(s, e)) = ToSet(s) \cup {e}
  BY <1>1, <1>2 DEF ToSet
<1>4. QED
  BY <1>1, <1>2, <1>3

LEMMA Shortened ==
  ASSUME NEW S, NEW s \in Seq(S), s # <<>>
  PROVE  /\ 1 \in DOMAIN s /\ Head(s) = s[1] /\ Head(s) \in S /\ Head(s) \in ToSet(s)
         /\ Tail(s) \in Seq(S)
         /\ \A i \in DOMAIN Tail(s) : i \in Nat /\ i + 1 \in DOMAIN s /\ i + 1 > 1
                                    /\ Tail(s)[i] = s[i + 1]
         /\ ToSet(Tail(s)) \subseteq ToSet(s)
<1>1. /\ Head(s) = s[1] /\ Head(s) \in S /\ Tail(s) \in Seq(S)
      /\ Len(Tail(s)) = Len(s) - 1 /\ Len(s) \in Nat \ {0}
      /\ \A i \in 1..Len(Tail(s)) : Tail(s)[i] = s[i + 1]
      /\ DOMAIN s = 1..Len(s) /\ DOMAIN Tail(s) = 1..Len(Tail(s))
  BY HeadTailProperties, EmptySeq
<1>2. \A i \in DOMAIN Tail(s) : i \in Nat /\ i + 1 \in DOMAIN s /\ i + 1 > 1
                               /\ Tail(s)[i] = s[i + 1]
  BY <1>1
<1>3. 1 \in DOMAIN s
  BY <1>1
<1>4. QED
  BY <1>1, <1>2, <1>3 DEF ToSet

LEMMA HostTask ==
  /\ \A w \in Works : Complete(w) \in HostTasks /\ Complete(w).run = "Complete"
                      /\ Complete(w).work = w /\ Complete(w) # Finalize
  /\ DoWork \in HostTasks /\ DoWork.run # "Complete" /\ DoWork # Finalize
  /\ Finalize \in HostTasks /\ Finalize.run # "Complete"
  /\ \A x \in HostTasks : x.run = "Complete" => x.work \in Works /\ x = Complete(x.work)
  /\ \A x \in HostTasks : x = DoWork \/ x = Finalize \/ x.run = "Complete"
  BY DEF HostTasks, Complete, DoWork, Finalize

-----------------------------------------------------------------------------
(* Types.                                                                  *)

LEMMA TypeKept ==
  ASSUME TypeOK, JSThread, HasJob, [Next]_vars
  PROVE  TypeOK'
<1>0. CASE UNCHANGED vars
  BY <1>0 DEF vars, asyncWork, tsfn, serving, TypeOK
<1>1. ASSUME NEW w \in Works, CreateWork(w) \/ DeleteWork(w) \/ QueueWork(w) \/ CancelWork(w)
      PROVE  TypeOK'
  <2>1. \A s \in {"kCreated", "deleted", "kQueued", "kCancelled"} : SetState(w, s) =>
          state' \in [Works -> {"new", "kCreated", "kQueued", "kRunning", "kCompleted",
                               "kCancelled", "deleted"}]
    BY DEF TypeOK, SetState
  <2>2. Append(tasks, w) \in Seq(Works)
    BY Appended DEF TypeOK
  <2>3. NotifyWorker \in {"none", "look", "wait", "take", "execute", "post", "gone"}
    BY DEF TypeOK, NotifyWorker
  <2>4. CASE CreateWork(w) \/ DeleteWork(w)
    BY <2>1, <2>4 DEF TypeOK, CreateWork, DeleteWork, tsfn, serving
  <2>5. CASE QueueWork(w)
    BY <2>1, <2>2, <2>3, <2>5 DEF TypeOK, QueueWork, tsfn, serving
  <2>6. CASE CancelWork(w)
    BY <2>1, <2>6 DEF TypeOK, CancelWork, tsfn, serving
  <2>7. QED
    BY <1>1, <2>4, <2>5, <2>6
<1>2. CASE LookForTask
  <2>1. tasks # <<>> => Head(tasks) \in Works /\ Tail(tasks) \in Seq(Works)
    BY Shortened DEF TypeOK
  <2>2. /\ worker' \in {"gone", "wait", "take"}
        /\ job' \in Works \cup {NoWork} /\ tasks' \in Seq(Works)
        /\ UNCHANGED <<phase, host, js, stopped, state, ran, granted, tsfn, serving>>
    BY <1>2, <2>1 DEF TypeOK, LookForTask
  <2>3. QED
    BY <2>2 DEF TypeOK, tsfn, serving
<1>3. CASE StartWork \/ EndWork
  <2>1. Busy
    BY <1>3 DEF StartWork, EndWork, Busy
  <2>2. job \in Works
    BY <2>1 DEF HasJob
  <2>3. CASE StartWork
    BY <2>2, <2>3 DEF TypeOK, StartWork, SetState, tsfn, serving
  <2>4. CASE EndWork
    BY <2>2, <2>4 DEF TypeOK, EndWork, SetState, tsfn, serving
  <2>5. QED
    BY <1>3, <2>3, <2>4
<1>4. CASE PostJSTask
  <2>1. Append(host, Complete(job)) \in Seq(HostTasks)
    BY <1>4, Appended, HostTask DEF PostJSTask, HasJob, Busy, TypeOK
  <2>2. QED
    BY <1>4, <2>1 DEF TypeOK, PostJSTask, tsfn, serving
<1>5. CASE CreateFunction
  BY <1>5, NapiRuntimeAssumption DEF TypeOK, CreateFunction, asyncWork, serving
<1>6. ASSUME NEW c \in Callers, NEW i \in Items, NEW blocking \in BOOLEAN, Call(c, i, blocking)
      PROVE  TypeOK'
  <2>1. Append(host, DoWork) \in Seq(HostTasks) /\ Append(queue, i) \in Seq(Items)
    BY Appended, HostTask DEF TypeOK
  <2>2. host' \in Seq(HostTasks)
    BY <1>6, <2>1 DEF Call, TaskForCall, TypeOK
  <2>3. QED
    BY <1>6, <2>1, <2>2 DEF TypeOK, Call, asyncWork, serving
<1>7. ASSUME NEW c \in Callers,
             \/ ReturnFromCall(c) \/ Acquire(c) \/ Delete(c)
             \/ \E abort \in BOOLEAN : Release(c, abort)
      PROVE  TypeOK'
  <2>1. Append(host, Finalize) \in Seq(HostTasks)
    BY Appended, HostTask DEF TypeOK
  <2>2. CASE ReturnFromCall(c)
    BY <2>2 DEF TypeOK, ReturnFromCall, asyncWork, serving
  <2>3. CASE Acquire(c)
    BY <2>3, NapiRuntimeAssumption DEF TypeOK, Acquire, asyncWork, serving
  <2>4. CASE Delete(c)
    <3>1. host' \in Seq(HostTasks)
      BY <2>1, <2>4 DEF TypeOK, Delete
    <3>2. /\ runner' \in BOOLEAN /\ function' = "deleted"
          /\ UNCHANGED <<phase, js, asyncWork, object, count, queue, blocked, serving>>
      BY <2>4 DEF Delete, NoRunner
    <3>3. QED
      BY <3>1, <3>2 DEF TypeOK, asyncWork, serving
  <2>5. ASSUME NEW abort \in BOOLEAN, Release(c, abort) PROVE TypeOK'
    <3>1. count' \in 0..MaxCount
      BY <2>5, NapiRuntimeAssumption DEF TypeOK, Release, Counted
    <3>2. host' \in Seq(HostTasks) /\ runner' \in BOOLEAN
      BY <2>1, <2>5 DEF TypeOK, Release, NoRunner
    <3>3. QED
      BY <2>5, <3>1, <3>2 DEF TypeOK, Release, asyncWork, serving
  <2>6. QED
    BY <1>7, <2>2, <2>3, <2>4, <2>5
<1>8. CASE RunTask
  <2>1. Head(host) \in HostTasks /\ Tail(host) \in Seq(HostTasks)
    BY <1>8, Shortened DEF RunTask, TypeOK
  <2>2. Head(host).run = "Complete" => Head(host).work \in Works
    BY <2>1, HostTask
  <2>3. CASE RunCompletion
    BY <1>8, <2>1, <2>2, <2>3
       DEF TypeOK, RunTask, RunCompletion, BeginComplete, Status, asyncWork, tsfn
  <2>4. CASE \E last \in BOOLEAN : TakeQueue(last)
    BY <1>8, <2>1, <2>4 DEF TypeOK, RunTask, TakeQueue, asyncWork
  <2>5. QED
    BY <1>8, <2>3, <2>4 DEF RunTask
<1>9. CASE EndComplete
  <2>1. state' \in [Works -> {"new", "kCreated", "kQueued", "kRunning", "kCompleted",
                             "kCancelled", "deleted"}]
    BY <1>9 DEF TypeOK, EndComplete, SetState
  <2>2. /\ js' = "idle" /\ current' = NoWork
        /\ UNCHANGED <<phase, host, worker, job, tasks, stopped, ran, granted, tsfn,
                      batch, finalizing, told, delivered, answered>>
    BY <1>9 DEF EndComplete
  <2>3. QED
    BY <2>1, <2>2 DEF TypeOK, tsfn
<1>10. CASE BeginTask
  <2>1. Append(delivered, Head(batch)) \in Seq(Items)
    BY <1>10, Appended, Shortened DEF BeginTask, TypeOK
  <2>2. QED
    BY <1>10, <2>1 DEF TypeOK, BeginTask, asyncWork, tsfn
<1>11. CASE EndTask
  <2>1. Head(batch) \in Items /\ Tail(batch) \in Seq(Items)
    BY <1>11, Shortened DEF EndTask, TypeOK, JSThread
  <2>2. QED
    BY <1>11, <2>1 DEF TypeOK, EndTask, asyncWork, tsfn
<1>12. CASE EndDrain \/ EndFinalize
  <2>1. CASE EndDrain
    BY <2>1 DEF TypeOK, EndDrain, asyncWork, tsfn, serving
  <2>2. CASE EndFinalize
    <3>1. /\ js' = "idle" /\ object' = "deleted" /\ finalizing' = FALSE
          /\ UNCHANGED <<phase, host, worker, job, tasks, stopped, state, ran, granted,
                        function, runner, count, queue, blocked, current, batch, told,
                        delivered, answered>>
      BY <2>2 DEF EndFinalize, asyncWork
    <3>2. runner' \in BOOLEAN /\ finalizing' \in BOOLEAN /\ stopped' \in BOOLEAN
      BY <3>1, Zenon DEF TypeOK
    <3>3. QED
      BY <3>1, <3>2 DEF TypeOK
  <2>3. QED
    BY <1>12, <2>1, <2>2
<1>13. CASE Detach \/ JoinWorker \/ EndClosing \/ EndDetach
  <2>1. CASE Detach
    <3>1. stopped' \in BOOLEAN
      BY <2>1 DEF Detach, StopWorker
    <3>2. QED
      BY <2>1, <3>1 DEF TypeOK, Detach, StopWorker, tsfn, serving
  <2>2. CASE JoinWorker
    BY <2>2 DEF TypeOK, JoinWorker, asyncWork, tsfn, serving
  <2>3. CASE EndDetach
    BY <2>3 DEF TypeOK, EndDetach, asyncWork, tsfn, serving
  <2>4. CASE EndClosing
    <3>1. stopped' \in BOOLEAN
      BY <2>4 DEF EndClosing, StopWorker
    <3>2. QED
      BY <2>4, <3>1 DEF TypeOK, EndClosing, StopWorker, tsfn, serving
  <2>5. QED
    BY <1>13, <2>1, <2>2, <2>3, <2>4
<1>14. ASSUME NEW w \in Works, CloseWork(w) PROVE TypeOK'
  BY <1>14 DEF TypeOK, CloseWork, SetState, BeginComplete, Status, tsfn
<1>15. CASE CloseRunner
  BY <1>15 DEF TypeOK, CloseRunner, TakeQueue, asyncWork
<1>16. QED
  BY <1>0, <1>1, <1>2, <1>3, <1>4, <1>5, <1>6, <1>7, <1>8, <1>9, <1>10, <1>11, <1>12, <1>13,
     <1>14, <1>15
     DEF Next, WorkerStep, JSStep, ModuleStep, Ended

-----------------------------------------------------------------------------
(* What the threads have in their hands.                                   *)

\* Which states a work leaves by a step of the worker or by a call of a module.
LEMMA StateMoves ==
  ASSUME TypeOK, HasJob, JobIs, NEW w \in Works,
         \/ \E v \in Works : CreateWork(v) \/ DeleteWork(v) \/ QueueWork(v) \/ CancelWork(v)
         \/ WorkerStep
  PROVE  /\ state[w] \in Over => state'[w] = state[w]
         /\ state[w] = "kQueued" => state'[w] \in {"kQueued", "kCancelled", "kRunning"}
         /\ state'[w] = "kRunning" /\ state[w] # "kRunning" =>
              StartWork /\ w = job /\ state[w] = "kQueued"
<1>1. ASSUME NEW v \in Works, CreateWork(v) \/ DeleteWork(v) \/ QueueWork(v) \/ CancelWork(v)
      PROVE  /\ \A u \in Works \ {v} : state'[u] = state[u]
             /\ state[v] \notin Over /\ state'[v] # "kRunning"
             /\ state[v] = "kQueued" => state'[v] = "kCancelled"
  BY <1>1 DEF CreateWork, DeleteWork, QueueWork, CancelWork, Cancellable, SetState, TypeOK, Over
<1>2. CASE LookForTask \/ PostJSTask
  BY <1>2 DEF LookForTask, PostJSTask
<1>3. CASE StartWork
  <2>1. \/ state[job] = "kQueued" /\ state' = [state EXCEPT ![job] = "kRunning"]
        \/ state' = state
    BY <1>3 DEF StartWork, SetState
  <2>2. QED
    BY <1>3, <2>1 DEF TypeOK, Over
<1>4. CASE EndWork
  <2>1. job \in Works /\ state[job] = "kRunning" /\ state' = [state EXCEPT ![job] = "kCompleted"]
    BY <1>4 DEF EndWork, SetState, WorkExists, HasJob, JobIs, Busy
  <2>2. QED
    BY <2>1 DEF TypeOK, Over
<1>5. QED
  BY <1>1, <1>2, <1>3, <1>4 DEF WorkerStep

LEMMA JSThreadKept ==
  ASSUME RuntimeInv, [Next]_vars
  PROVE  JSThread'
<1>a. TypeOK /\ JSThread /\ RunnerIsLive /\ (Going => RunnerTasks)
  BY DEF RuntimeInv
<1>0. CASE UNCHANGED vars
  BY <1>a, <1>0 DEF vars, asyncWork, tsfn, serving, JSThread
<1>1. ASSUME \/ \E w \in Works : CreateWork(w) \/ DeleteWork(w) \/ QueueWork(w) \/ CancelWork(w)
             \/ WorkerStep
      PROVE  JSThread'
  <2>1. UNCHANGED <<phase, js, tsfn, serving>>
    BY <1>1 DEF CreateWork, DeleteWork, QueueWork, CancelWork, WorkerStep, LookForTask,
                StartWork, EndWork, PostJSTask
  <2>2. QED
    BY <1>a, <2>1 DEF JSThread, tsfn, serving
<1>2. CASE CreateFunction
  BY <1>a, <1>2 DEF CreateFunction, JSThread, asyncWork, serving
<1>3. ASSUME NEW c \in Callers, NEW i \in Items, NEW blocking \in BOOLEAN, Call(c, i, blocking)
      PROVE  JSThread'
  <2>1. /\ runner /\ UNCHANGED <<phase, js, asyncWork, object, serving>>
    BY <1>3 DEF Call
  <2>2. ~finalizing
    BY <1>a, <2>1 DEF RunnerIsLive
  <2>3. QED
    BY <1>a, <2>1, <2>2 DEF JSThread, asyncWork, serving
<1>4. ASSUME NEW c \in Callers,
             \/ ReturnFromCall(c) \/ Acquire(c) \/ Delete(c)
             \/ \E abort \in BOOLEAN : Release(c, abort)
      PROVE  JSThread'
  <2>1. UNCHANGED <<phase, js, asyncWork, object, queue, serving>>
    BY <1>4 DEF ReturnFromCall, Acquire, Delete, Release
  <2>2. QED
    BY <1>a, <2>1 DEF JSThread, asyncWork, serving
<1>5. ASSUME js = "idle", NEW w \in Works, NEW s, BeginComplete(w, s),
             phase' \in {"attached", "closing"}, UNCHANGED tsfn
      PROVE  JSThread'
  <2>1. js' = "complete" /\ current' = w /\ UNCHANGED <<batch, finalizing, delivered, answered>>
    BY <1>5 DEF BeginComplete
  <2>2. ~finalizing
    BY <1>a, <1>5 DEF JSThread
  <2>3. QED
    BY <1>a, <1>5, <2>1, <2>2 DEF JSThread, tsfn
<1>6. ASSUME js = "idle", object = "live", NEW last \in BOOLEAN, TakeQueue(last),
             phase' \in {"attached", "closing"}
      PROVE  JSThread'
  <2>1. /\ js' = "drain" /\ queue' = <<>>
        /\ UNCHANGED <<object, delivered, answered>>
    BY <1>6 DEF TakeQueue
  <2>2. QED
    BY <1>a, <1>6, <2>1 DEF JSThread
<1>7. CASE RunTask
  <2>1. /\ js = "idle" /\ phase = "attached" /\ Going /\ host # <<>> /\ host \in Seq(HostTasks)
        /\ phase' = "attached" /\ UNCHANGED <<phase, asyncWork>>
    BY <1>7, <1>a DEF RunTask, Going, TypeOK
  <2>2. Head(host) \in HostTasks /\ 1 \in DOMAIN host /\ Head(host) = host[1]
    BY <2>1, Shortened
  <2>3. CASE RunCompletion
    <3>1. Head(host).work \in Works
      BY <2>2, <2>3, HostTask DEF RunCompletion
    <3>2. QED
      BY <1>5, <2>1, <2>3, <3>1 DEF RunCompletion
  <2>4. ASSUME NEW last \in BOOLEAN, TakeQueue(last), Head(host) \in {DoWork, Finalize}
        PROVE  JSThread'
    <3>1. object = "live"
      BY <1>a, <2>1, <2>2, <2>4, HostTask DEF RunnerTasks
    <3>2. QED
      BY <1>6, <2>1, <2>4, <3>1
  <2>5. QED
    BY <1>7, <2>3, <2>4 DEF RunTask
<1>8. CASE EndComplete
  <2>1. /\ js = "complete" /\ js' = "idle"
        /\ UNCHANGED <<tsfn, batch, finalizing, delivered, answered>>
    BY <1>8 DEF EndComplete
  <2>2. QED
    BY <1>a, <2>1 DEF JSThread, tsfn
<1>9. CASE BeginTask
  <2>1. ToSet(Append(delivered, Head(batch))) = ToSet(delivered) \cup {Head(batch)}
    BY <1>9, <1>a, Appended, Shortened DEF BeginTask, TypeOK
  <2>2. /\ js = "drain" /\ batch # <<>> /\ js' = "call"
        /\ delivered' = Append(delivered, Head(batch))
        /\ UNCHANGED <<phase, tsfn, batch, finalizing, answered>>
    BY <1>9 DEF BeginTask
  <2>3. QED
    BY <1>a, <2>1, <2>2 DEF JSThread, tsfn
<1>10. CASE EndTask
  <2>1. /\ js = "call" /\ js' = "drain" /\ answered' = answered \cup {Head(batch)}
        /\ UNCHANGED <<phase, tsfn, finalizing, delivered>>
    BY <1>10 DEF EndTask
  <2>2. QED
    BY <1>a, <2>1 DEF JSThread, tsfn
<1>11. CASE EndDrain
  <2>1. /\ js = "drain" /\ batch = <<>> /\ js' = IF finalizing THEN "finalize" ELSE "idle"
        /\ UNCHANGED <<phase, tsfn, serving>>
    BY <1>11 DEF EndDrain
  <2>2. QED
    BY <1>a, <2>1 DEF JSThread, tsfn, serving
<1>12. CASE EndFinalize
  <2>1. /\ js = "finalize" /\ js' = "idle" /\ finalizing' = FALSE
        /\ UNCHANGED <<batch, delivered, answered>>
    BY <1>12 DEF EndFinalize
  <2>2. QED
    BY <1>a, <2>1 DEF JSThread
<1>13. CASE Detach \/ JoinWorker \/ EndClosing \/ EndDetach
  <2>1. js' = "idle" /\ js = "idle" /\ UNCHANGED <<tsfn, serving>>
    BY <1>13, <1>a DEF Detach, JoinWorker, EndClosing, EndDetach, JSThread
  <2>2. QED
    BY <1>a, <2>1 DEF JSThread, tsfn, serving
<1>14. ASSUME NEW w \in Works, CloseWork(w) PROVE JSThread'
  BY <1>5, <1>14 DEF CloseWork
<1>15. CASE CloseRunner
  BY <1>6, <1>15 DEF CloseRunner
<1>16. QED
  BY <1>0, <1>1, <1>2, <1>3, <1>4, <1>7, <1>8, <1>9, <1>10, <1>11, <1>12, <1>13,
     <1>14, <1>15
     DEF Next, JSStep, ModuleStep, Ended

LEMMA RunnerKept ==
  ASSUME RuntimeInv, [Next]_vars
  PROVE  RunnerIsLive'
<1>a. TypeOK /\ JSThread /\ RunnerIsLive
  BY DEF RuntimeInv
<1>0. CASE UNCHANGED <<runner, object, finalizing, function>>
  BY <1>0, <1>a DEF RunnerIsLive
<1>1. CASE UNCHANGED vars
  BY <1>1, <1>0 DEF vars, tsfn, serving
<1>2. ASSUME \/ \E w \in Works : CreateWork(w) \/ DeleteWork(w) \/ QueueWork(w) \/ CancelWork(w)
             \/ WorkerStep
      PROVE  RunnerIsLive'
  BY <1>2, <1>0 DEF CreateWork, DeleteWork, QueueWork, CancelWork, WorkerStep, LookForTask,
                    StartWork, EndWork, PostJSTask, tsfn, serving
<1>3. CASE CreateFunction
  <2>1. /\ function = "none" /\ function' = "open" /\ object' = "live" /\ UNCHANGED <<js, serving>>
    BY <1>3 DEF CreateFunction
  <2>2. ~finalizing
    BY <1>a, <2>1 DEF RunnerIsLive, JSThread
  <2>3. QED
    BY <2>1, <2>2 DEF RunnerIsLive, serving
<1>4. ASSUME NEW c \in Callers,
             \/ \E i \in Items, blocking \in BOOLEAN : Call(c, i, blocking)
             \/ ReturnFromCall(c) \/ Acquire(c)
      PROVE  RunnerIsLive'
  BY <1>4, <1>0 DEF Call, ReturnFromCall, Acquire, serving
<1>5. ASSUME NEW c \in Callers, Delete(c) PROVE RunnerIsLive'
  BY <1>5, <1>a DEF Delete, MayCall, NoRunner, serving, RunnerIsLive
<1>6. ASSUME NEW c \in Callers, NEW abort \in BOOLEAN, Release(c, abort) PROVE RunnerIsLive'
  BY <1>6, <1>a DEF Release, NoRunner, serving, RunnerIsLive
<1>7. ASSUME NEW last \in BOOLEAN, TakeQueue(last) PROVE RunnerIsLive'
  BY <1>7, <1>a DEF TakeQueue, RunnerIsLive
<1>8. CASE RunTask
  BY <1>0, <1>7, <1>8 DEF RunTask, RunCompletion, BeginComplete, tsfn
<1>9. CASE EndComplete \/ BeginTask \/ EndTask \/ EndDrain
  BY <1>9, <1>0 DEF EndComplete, BeginTask, EndTask, EndDrain, tsfn, serving
<1>10. CASE EndFinalize
  <2>1. /\ js = "finalize" /\ object' = "deleted" /\ finalizing' = FALSE
        /\ UNCHANGED <<function, runner>>
    BY <1>10 DEF EndFinalize
  <2>2. object = "live" /\ finalizing
    BY <1>a, <2>1 DEF JSThread
  <2>3. QED
    BY <1>a, <2>1, <2>2 DEF RunnerIsLive
<1>11. CASE Detach \/ JoinWorker \/ EndClosing \/ EndDetach
  BY <1>11, <1>0 DEF Detach, JoinWorker, EndClosing, EndDetach, tsfn, serving
<1>12. ASSUME NEW w \in Works, CloseWork(w) PROVE RunnerIsLive'
  BY <1>12, <1>0 DEF CloseWork, BeginComplete, tsfn
<1>13. CASE CloseRunner
  BY <1>7, <1>13 DEF CloseRunner
<1>14. QED
  BY <1>1, <1>2, <1>3, <1>4, <1>5, <1>6, <1>8, <1>9, <1>10, <1>11, <1>12, <1>13
     DEF Next, JSStep, ModuleStep, Ended

\* napi_detach_runtime does not turn back.
LEMMA WasGoing ==
  ASSUME [Next]_vars, Going'
  PROVE  Going
  BY DEF Going, Next, WorkerStep, JSStep, ModuleStep, Ended, LookForTask, StartWork, EndWork,
         PostJSTask, RunTask, EndComplete, BeginTask, EndTask, EndDrain, EndFinalize, JoinWorker,
         CloseWork, CloseRunner, EndClosing, EndDetach, CreateWork, DeleteWork, QueueWork,
         CancelWork, CreateFunction, Call, Acquire, Delete, Release, Detach, ReturnFromCall, vars

LEMMA HasJobKept ==
  ASSUME RuntimeInv, [Next]_vars
  PROVE  HasJob'
<1>a. HasJob /\ tasks \in Seq(Works)
  BY DEF RuntimeInv, TypeOK
<1>0. CASE job' = job /\ (Busy' => Busy)
  BY <1>a, <1>0 DEF HasJob
<1>1. ASSUME NEW w \in Works, CreateWork(w) \/ DeleteWork(w) \/ QueueWork(w) \/ CancelWork(w)
      PROVE  HasJob'
  BY <1>0, <1>1 DEF CreateWork, DeleteWork, QueueWork, CancelWork, NotifyWorker, Busy
<1>2. CASE LookForTask
  <2>1. tasks # <<>> => Head(tasks) \in Works
    BY <1>a, Shortened
  <2>2. QED
    BY <1>2, <2>1 DEF LookForTask, HasJob, Busy
<1>3. CASE StartWork \/ EndWork \/ PostJSTask
  BY <1>3, <1>a DEF StartWork, EndWork, PostJSTask, HasJob, Busy
<1>4. CASE Detach \/ EndClosing
  BY <1>0, <1>4 DEF Detach, EndClosing, StopWorker, Busy
<1>5. ASSUME \/ \E w \in Works : CloseWork(w)
             \/ CreateFunction \/ RunTask \/ EndComplete \/ BeginTask \/ EndTask \/ EndDrain
             \/ EndFinalize \/ JoinWorker \/ CloseRunner \/ EndDetach \/ UNCHANGED vars
      PROVE  HasJob'
  BY <1>0, <1>5 DEF CloseWork, CreateFunction, RunTask, EndComplete, BeginTask, EndTask, EndDrain,
                    EndFinalize, JoinWorker, CloseRunner, EndDetach, vars, asyncWork, Busy
<1>6. ASSUME NEW c \in Callers,
             \/ \E i \in Items, blocking \in BOOLEAN : Call(c, i, blocking)
             \/ ReturnFromCall(c) \/ Acquire(c) \/ Delete(c)
             \/ \E abort \in BOOLEAN : Release(c, abort)
      PROVE  HasJob'
  BY <1>0, <1>6 DEF Call, ReturnFromCall, Acquire, Delete, Release, asyncWork, Busy
<1>7. QED
  BY <1>1, <1>2, <1>3, <1>4, <1>5, <1>6 DEF Next, WorkerStep, JSStep, ModuleStep, Ended

LEMMA JobKept ==
  ASSUME RuntimeInv, [Next]_vars, NoLateWorker'
  PROVE  JobIs'
<1>n. NoLateWorker
  BY WasGoing DEF NoLateWorker
<1>a. /\ TypeOK /\ JSThread /\ HasJob /\ JobIs /\ CurrentIsOver /\ (Going => WorkTasks)
      /\ Busy \/ worker = "look" => Going
  BY <1>n DEF RuntimeInv, JobIs, WorkerJoined, Busy, Going, TypeOK
<1>b. state \in [Works -> {"new", "kCreated", "kQueued", "kRunning", "kCompleted",
                          "kCancelled", "deleted"}]
  BY <1>a DEF TypeOK
<1>0. CASE UNCHANGED <<phase, worker, job, state>>
  BY <1>0, <1>a DEF JobIs, WorkerJoined, Going
<1>1. ASSUME NEW w \in Works, CreateWork(w) \/ DeleteWork(w) \/ QueueWork(w) \/ CancelWork(w)
      PROVE  JobIs'
  <2>1. /\ UNCHANGED <<phase, job>> /\ worker' \in {worker, NotifyWorker}
        /\ worker' = "look" /\ worker' # worker => Going
    <3>1. CASE QueueWork(w)
      BY <3>1, <1>a, <1>n DEF QueueWork, NotifyWorker, InModule, JSThread, JobIs, WorkerJoined,
                              Going, NoLateWorker, TypeOK
    <3>2. QED
      BY <1>1, <3>1 DEF CreateWork, DeleteWork, CancelWork
  <2>2. worker' \in {worker, "look"}
    BY <2>1 DEF NotifyWorker
  <2>3. \A u \in Works :
          /\ state[u] \in Over => state'[u] = state[u]
          /\ state[u] = "kQueued" => state'[u] \in {"kQueued", "kCancelled"}
          /\ state'[u] = "kRunning" <=> state[u] = "kRunning"
    BY <1>1, <1>b DEF CreateWork, DeleteWork, QueueWork, CancelWork, Cancellable, SetState, Over
  <2>4. ASSUME worker' = worker PROVE JobIs'
    BY <1>a, <2>1, <2>3, <2>4 DEF JobIs, HasJob, Busy, WorkerJoined, Over, Going
  <2>5. ASSUME worker' = "look", worker' # worker PROVE JobIs'
    <3>1. worker \in {"none", "wait"}
      BY <2>1, <2>5 DEF NotifyWorker
    <3>2. QED
      BY <1>a, <2>1, <2>3, <2>5, <3>1 DEF JobIs, Busy, Going
  <2>6. QED
    BY <2>2, <2>4, <2>5
<1>2. CASE LookForTask
  <2>1. worker = "look" /\ WorkTasks /\ UNCHANGED <<phase, state>> /\ Going
    BY <1>2, <1>a DEF LookForTask
  <2>2. CASE worker' = "take" /\ tasks # <<>> /\ job' = Head(tasks)
    <3>1. 1 \in DOMAIN tasks /\ Head(tasks) = tasks[1] /\ Head(tasks) \in Works
      BY <1>a, <2>2, Shortened DEF TypeOK
    <3>2. job' \in Works /\ state[job'] \in {"kQueued", "kCancelled"}
      BY <2>1, <2>2, <3>1 DEF WorkTasks
    <3>3. QED
      BY <1>a, <2>1, <2>2, <3>2 DEF JobIs, Busy, Going
  <2>3. CASE worker' \in {"gone", "wait"} /\ UNCHANGED job
    BY <1>a, <2>1, <2>3 DEF JobIs, Busy, Going
  <2>4. QED
    BY <1>2, <2>2, <2>3 DEF LookForTask
<1>3. CASE StartWork
  <2>1. /\ worker = "take" /\ job \in Works /\ Going /\ UNCHANGED <<phase, job>>
        /\ state[job] \in {"kQueued", "kCancelled"}
    BY <1>3, <1>a DEF StartWork, HasJob, JobIs, Busy
  <2>2. CASE /\ state[job] = "kQueued" /\ state' = [state EXCEPT ![job] = "kRunning"]
             /\ worker' = "execute"
    BY <1>a, <1>b, <2>1, <2>2 DEF JobIs, Busy, Going
  <2>3. CASE state[job] # "kQueued" /\ state' = state /\ worker' = "post"
    BY <1>a, <2>1, <2>3 DEF JobIs, Busy, Going, Over
  <2>4. QED
    BY <1>3, <2>2, <2>3 DEF StartWork, SetState
<1>4. CASE EndWork
  <2>1. /\ worker = "execute" /\ worker' = "post" /\ job \in Works /\ Going
        /\ state' = [state EXCEPT ![job] = "kCompleted"] /\ UNCHANGED <<phase, job>>
    BY <1>4, <1>a DEF EndWork, SetState, WorkExists, HasJob, JobIs, Busy
  <2>2. QED
    BY <1>a, <1>b, <2>1 DEF JobIs, Busy, Going, Over
<1>5. CASE PostJSTask
  <2>1. worker = "post" /\ worker' = "look" /\ UNCHANGED <<phase, state>> /\ Going
    BY <1>5, <1>a DEF PostJSTask, Busy
  <2>2. QED
    BY <1>a, <2>1 DEF JobIs, Busy, Going
<1>6. ASSUME NEW c \in Callers,
             \/ \E i \in Items, blocking \in BOOLEAN : Call(c, i, blocking)
             \/ ReturnFromCall(c) \/ Acquire(c) \/ Delete(c)
             \/ \E abort \in BOOLEAN : Release(c, abort)
      PROVE  JobIs'
  BY <1>6, <1>0 DEF Call, ReturnFromCall, Acquire, Delete, Release, asyncWork
<1>7. CASE \/ CreateFunction \/ RunTask \/ BeginTask \/ EndTask
           \/ EndDrain \/ EndFinalize \/ CloseRunner
  BY <1>7, <1>0 DEF CreateFunction, RunTask, BeginTask, EndTask, EndDrain, EndFinalize,
                    CloseRunner, asyncWork
<1>8. CASE EndComplete
  <2>1. /\ js = "complete" /\ state' = [state EXCEPT ![current] = "deleted"]
        /\ UNCHANGED <<phase, worker, job>>
    BY <1>8 DEF EndComplete, SetState
  <2>2. current \in Works /\ state[current] # "kRunning" /\ (Busy => job # current)
    BY <1>a, <2>1 DEF JSThread, CurrentIsOver, Over, WorkTasks
  <2>3. QED
    BY <1>a, <1>b, <2>1, <2>2 DEF JobIs, HasJob, Busy, WorkerJoined, Going
<1>9. CASE Detach
  <2>1. /\ phase' = "stopping" /\ UNCHANGED <<job, state>>
        /\ worker' = IF worker = "wait" THEN "look" ELSE worker
    BY <1>9 DEF Detach, StopWorker
  <2>2. QED
    BY <1>a, <2>1 DEF JobIs, Busy, Going
<1>10. CASE JoinWorker \/ EndClosing \/ EndDetach
  <2>1. WorkerJoined /\ UNCHANGED <<job, state>>
    BY <1>10, <1>a DEF JoinWorker, EndClosing, EndDetach, asyncWork, JobIs, Going
  <2>2. worker' = worker
    BY <1>10, <2>1 DEF JoinWorker, EndClosing, EndDetach, StopWorker, WorkerJoined, asyncWork
  <2>3. QED
    BY <1>a, <2>1, <2>2 DEF JobIs, Busy, WorkerJoined
<1>11. ASSUME NEW w \in Works, CloseWork(w) PROVE JobIs'
  <2>1. WorkerJoined /\ UNCHANGED <<phase, worker, job>>
    BY <1>11, <1>a DEF CloseWork, JobIs, Going
  <2>2. \A u \in Works : state[u] # "kRunning"
    BY <1>a, <2>1 DEF JobIs, WorkerJoined
  <2>3. \A u \in Works : state'[u] # "kRunning"
    BY <1>11, <1>b, <2>2 DEF CloseWork, SetState
  <2>4. QED
    BY <2>1, <2>3 DEF JobIs, Busy, WorkerJoined, Going
<1>12. CASE UNCHANGED vars
  BY <1>12, <1>0 DEF vars, asyncWork
<1>13. QED
  BY <1>1, <1>2, <1>3, <1>4, <1>5, <1>6, <1>7, <1>8, <1>9, <1>10, <1>11, <1>12
     DEF Next, WorkerStep, JSStep, ModuleStep, Ended

LEMMA CurrentKept ==
  ASSUME RuntimeInv, [Next]_vars, NoLateWorker'
  PROVE  CurrentIsOver'
<1>n. NoLateWorker
  BY WasGoing DEF NoLateWorker
<1>a. /\ TypeOK /\ JSThread /\ HasJob /\ JobIs /\ CurrentIsOver /\ (Going => WorkTasks)
      /\ host \in Seq(HostTasks)
      /\ state \in [Works -> {"new", "kCreated", "kQueued", "kRunning", "kCompleted",
                              "kCancelled", "deleted"}]
  BY <1>n DEF RuntimeInv, TypeOK
<1>0. CASE UNCHANGED <<js, current, state>> \/ js' # "complete"
  BY <1>0, <1>a DEF CurrentIsOver
<1>1. ASSUME \/ \E w \in Works : CreateWork(w) \/ DeleteWork(w) \/ QueueWork(w) \/ CancelWork(w)
             \/ WorkerStep
      PROVE  CurrentIsOver'
  <2>1. UNCHANGED <<js, current>>
    BY <1>1 DEF CreateWork, DeleteWork, QueueWork, CancelWork, WorkerStep, LookForTask,
                StartWork, EndWork, PostJSTask, serving
  <2>2. \A w \in Works : state[w] \in Over => state'[w] = state[w]
    BY <1>1, <1>a, StateMoves
  <2>3. QED
    BY <1>a, <2>1, <2>2 DEF JSThread, CurrentIsOver
<1>2. CASE RunTask
  <2>1. /\ Going /\ host # <<>> /\ UNCHANGED asyncWork
    BY <1>2 DEF RunTask, Going
  <2>2. Head(host) \in HostTasks /\ 1 \in DOMAIN host /\ Head(host) = host[1]
    BY <1>a, <2>1, Shortened
  <2>3. CASE RunCompletion
    <3>1. current' = Head(host).work /\ state[Head(host).work] \in Over
      BY <1>a, <2>1, <2>2, <2>3, HostTask DEF RunCompletion, BeginComplete, WorkTasks
    <3>2. QED
      BY <2>1, <3>1 DEF asyncWork, CurrentIsOver
  <2>4. CASE \E last \in BOOLEAN : TakeQueue(last)
    BY <1>0, <2>4 DEF TakeQueue
  <2>5. QED
    BY <1>2, <2>3, <2>4 DEF RunTask
<1>3. ASSUME NEW w \in Works, CloseWork(w) PROVE CurrentIsOver'
  <2>1. state[w] \notin {"new", "deleted", "kRunning"}
    BY <1>3, <1>a DEF CloseWork, WorkExists, JobIs, WorkerJoined, Going
  <2>2. state'[w] \in Over /\ current' = w
    BY <1>3, <1>a, <2>1 DEF CloseWork, BeginComplete, SetState, Over
  <2>3. QED
    BY <2>2 DEF CurrentIsOver
<1>4. CASE EndComplete \/ BeginTask \/ EndTask \/ EndDrain \/ EndFinalize \/ CloseRunner
  BY <1>0, <1>4 DEF EndComplete, BeginTask, EndTask, EndDrain, EndFinalize, CloseRunner, TakeQueue
<1>5. CASE CreateFunction \/ Detach \/ JoinWorker \/ EndClosing \/ EndDetach \/ UNCHANGED vars
  BY <1>0, <1>5 DEF CreateFunction, Detach, JoinWorker, EndClosing, EndDetach, vars, asyncWork,
                    serving
<1>6. ASSUME NEW c \in Callers,
             \/ \E i \in Items, blocking \in BOOLEAN : Call(c, i, blocking)
             \/ ReturnFromCall(c) \/ Acquire(c) \/ Delete(c)
             \/ \E abort \in BOOLEAN : Release(c, abort)
      PROVE  CurrentIsOver'
  BY <1>0, <1>6 DEF Call, ReturnFromCall, Acquire, Delete, Release, asyncWork, serving
<1>7. QED
  BY <1>1, <1>2, <1>3, <1>4, <1>5, <1>6 DEF Next, JSStep, ModuleStep, Ended

-----------------------------------------------------------------------------
(* The tasks of the host.                                                  *)

LEMMA RunnerTasksKept ==
  ASSUME RuntimeInv, [Next]_vars, Going'
  PROVE  RunnerTasks'
<1>1. Going
  BY WasGoing
<1>a. /\ TypeOK /\ JSThread /\ RunnerIsLive /\ RunnerTasks /\ host \in Seq(HostTasks)
      /\ runner \in BOOLEAN /\ finalizing \in BOOLEAN
  BY <1>1 DEF RuntimeInv, TypeOK
<1>0. ASSUME object = "live" => object' = "live", finalizing' => finalizing, runner' => runner,
             host' = host
      PROVE  RunnerTasks'
  BY <1>a, <1>0 DEF RunnerTasks
<1>2. ASSUME NEW w \in Works, host' = Append(host, Complete(w)),
             UNCHANGED <<object, finalizing, runner>>
      PROVE  RunnerTasks'
  <2>1. /\ DOMAIN host' = DOMAIN host \cup {Len(host) + 1}
        /\ \A i \in DOMAIN host : i \in Nat /\ i < Len(host) + 1 /\ host'[i] = host[i]
        /\ host'[Len(host) + 1] = Complete(w)
    BY <1>a, <1>2, Appended, HostTask
  <2>2. QED
    BY <1>a, <1>2, <2>1, HostTask DEF RunnerTasks
<1>3. ASSUME runner, host' = Append(host, DoWork), UNCHANGED <<object, finalizing, runner>>
      PROVE  RunnerTasks'
  <2>1. /\ DOMAIN host' = DOMAIN host \cup {Len(host) + 1}
        /\ \A i \in DOMAIN host : i \in Nat /\ i < Len(host) + 1 /\ host'[i] = host[i]
        /\ host'[Len(host) + 1] = DoWork
    BY <1>a, <1>3, Appended, HostTask
  <2>2. QED
    BY <1>a, <1>3, <2>1, HostTask DEF RunnerTasks, RunnerIsLive
<1>4. ASSUME runner, host' = Append(host, Finalize), runner' = FALSE,
             UNCHANGED <<object, finalizing>>
      PROVE  RunnerTasks'
  <2>1. /\ DOMAIN host' = DOMAIN host \cup {Len(host) + 1} /\ Len(host) + 1 \in Nat
        /\ \A i \in DOMAIN host : i \in Nat /\ i < Len(host) + 1 /\ host'[i] = host[i]
        /\ host'[Len(host) + 1] = Finalize
    BY <1>a, <1>4, Appended, HostTask
  <2>2. \A i \in DOMAIN host : host[i] # Finalize
    BY <1>a, <1>4 DEF RunnerTasks
  <2>3. object' = "live" /\ ~finalizing' /\ ~runner'
    BY <1>a, <1>4 DEF RunnerIsLive
  <2>4. \A i \in DOMAIN host' : host'[i] = Finalize => i = Len(host) + 1
    BY <2>1, <2>2
  <2>5. \A j \in DOMAIN host' : ~(j > Len(host) + 1)
    BY <2>1
  <2>6. QED
    BY <2>3, <2>4, <2>5 DEF RunnerTasks
<1>5. ASSUME NEW w \in Works, CreateWork(w) \/ DeleteWork(w) \/ QueueWork(w) \/ CancelWork(w)
      PROVE  RunnerTasks'
  BY <1>5, <1>0 DEF CreateWork, DeleteWork, QueueWork, CancelWork, tsfn, serving
<1>6. CASE LookForTask \/ StartWork \/ EndWork
  BY <1>6, <1>0 DEF LookForTask, StartWork, EndWork, tsfn, serving
<1>7. CASE PostJSTask
  BY <1>7, <1>2 DEF RuntimeInv, PostJSTask, HasJob, Busy, tsfn, serving
<1>8. CASE CreateFunction
  <2>1. \A i \in DOMAIN host : host[i].run = "Complete"
    BY <1>8, <1>a DEF CreateFunction, RunnerIsLive, RunnerTasks
  <2>2. host' = host
    BY <1>8 DEF CreateFunction
  <2>3. QED
    BY <2>1, <2>2, HostTask DEF RunnerTasks
<1>9. ASSUME NEW c \in Callers, NEW i \in Items, NEW blocking \in BOOLEAN, Call(c, i, blocking)
      PROVE  RunnerTasks'
  BY <1>9, <1>0, <1>3 DEF Call, TaskForCall, serving
<1>10. ASSUME NEW c \in Callers, ReturnFromCall(c) \/ Acquire(c) PROVE RunnerTasks'
  BY <1>10, <1>0 DEF ReturnFromCall, Acquire, serving
<1>11. ASSUME NEW c \in Callers, Delete(c) PROVE RunnerTasks'
  BY <1>11, <1>0, <1>4 DEF Delete, NoRunner, serving
<1>12. ASSUME NEW c \in Callers, NEW abort \in BOOLEAN, Release(c, abort) PROVE RunnerTasks'
  BY <1>12, <1>0, <1>4 DEF Release, NoRunner, serving
<1>13. CASE RunTask
  <2>1. host' = Tail(host) /\ js = "idle" /\ ~finalizing
    BY <1>13, <1>a DEF RunTask, JSThread
  <2>2. /\ Head(host) = host[1] /\ 1 \in DOMAIN host
        /\ \A i \in DOMAIN host' : i \in Nat /\ i + 1 \in DOMAIN host /\ i + 1 > 1
                                 /\ host'[i] = host[i + 1]
    BY <1>a, <1>13, <2>1, Shortened DEF RunTask
  <2>3. object' = object /\ (runner' => runner)
    BY <1>13, <1>a DEF RunTask, RunCompletion, TakeQueue, tsfn
  <2>4. \A i, j \in DOMAIN host' : j > i => j + 1 > i + 1
    BY <2>2
  <2>5. CASE ~finalizing'
    BY <1>a, <2>2, <2>3, <2>4, <2>5 DEF RunnerTasks
  <2>6. CASE finalizing'
    <3>1. Head(host) = Finalize
      BY <1>13, <2>1, <2>6 DEF RunTask, RunCompletion, BeginComplete, TakeQueue
    <3>2. \A i \in DOMAIN host' : host'[i].run = "Complete"
      BY <1>a, <2>2, <3>1 DEF RunnerTasks
    <3>3. QED
      BY <3>2, HostTask DEF RunnerTasks
  <2>7. QED
    BY <2>5, <2>6
<1>14. CASE EndComplete \/ BeginTask \/ EndTask \/ EndDrain
  BY <1>14, <1>0 DEF EndComplete, BeginTask, EndTask, EndDrain, tsfn, serving
<1>15. CASE EndFinalize
  <2>1. finalizing /\ host' = host
    BY <1>15, <1>a DEF EndFinalize, JSThread
  <2>2. \A i \in DOMAIN host : host[i].run = "Complete"
    BY <1>a, <2>1 DEF RunnerTasks
  <2>3. QED
    BY <2>1, <2>2, HostTask DEF RunnerTasks
<1>16. CASE Detach
  BY <1>16, <1>0 DEF Detach, tsfn, serving
<1>17. CASE JoinWorker \/ EndClosing \/ EndDetach \/ CloseRunner \/ \E w \in Works : CloseWork(w)
  BY <1>17, <1>1 DEF JoinWorker, EndClosing, EndDetach, CloseRunner, CloseWork, Going
<1>18. CASE UNCHANGED vars
  BY <1>18, <1>0 DEF vars, tsfn, serving
<1>19. QED
  BY <1>5, <1>6, <1>7, <1>8, <1>9, <1>10, <1>11, <1>12, <1>13, <1>14, <1>15, <1>16, <1>17, <1>18
     DEF Next, WorkerStep, JSStep, ModuleStep, Ended

LEMMA WorkTasksKept ==
  ASSUME RuntimeInv, [Next]_vars, Going'
  PROVE  WorkTasks'
<1>1. Going
  BY WasGoing
<1>a. /\ TypeOK /\ JSThread /\ HasJob /\ JobIs /\ CurrentIsOver /\ WorkTasks
      /\ host \in Seq(HostTasks) /\ tasks \in Seq(Works)
  BY <1>1 DEF RuntimeInv, NoLateWorker, TypeOK
<1>b. state \in [Works -> {"new", "kCreated", "kQueued", "kRunning", "kCompleted",
                          "kCancelled", "deleted"}]
  BY <1>a DEF TypeOK
<1>c. /\ \A i \in DOMAIN tasks : tasks[i] \in Works
      /\ \A i \in DOMAIN host : host[i] \in HostTasks
  BY <1>a
<1>d. ASSUME NEW i \in DOMAIN host, host[i].run = "Complete"
      PROVE  host[i].work \in Works /\ host[i] = Complete(host[i].work)
  BY <1>c, <1>d, HostTask
<1>0. ASSUME UNCHANGED <<host, tasks>>, Busy' => Busy /\ job' = job,
             js' = "complete" => js = "complete" /\ current' = current,
             \A w \in Works : state[w] \in Over => state'[w] \in Over,
             \A i \in DOMAIN tasks : state'[tasks[i]] \in {"kQueued", "kCancelled"}
      PROVE  WorkTasks'
  BY <1>a, <1>d, <1>0 DEF WorkTasks
<1>2. ASSUME host' \in {host, Append(host, DoWork), Append(host, Finalize)},
             UNCHANGED <<asyncWork, js, current>>
      PROVE  WorkTasks'
  <2>1. CASE host' = host
    BY <1>0, <1>2, <1>a, <2>1 DEF asyncWork, Busy, WorkTasks
  <2>2. ASSUME NEW x \in {DoWork, Finalize}, host' = Append(host, x) PROVE WorkTasks'
    <3>1. /\ DOMAIN host' = DOMAIN host \cup {Len(host) + 1}
          /\ \A i \in DOMAIN host : host'[i] = host[i]
          /\ host'[Len(host) + 1] = x
      BY <1>a, <2>2, Appended, HostTask
    <3>2. x.run # "Complete" /\ \A w \in Works : x # Complete(w)
      BY HostTask
    <3>3. UNCHANGED <<tasks, state, job, worker>>
      BY <1>2 DEF asyncWork
    <3>4. \A i \in DOMAIN host' :
            host'[i].run = "Complete" => i \in DOMAIN host /\ host'[i] = host[i]
      BY <3>1, <3>2
    <3>5. \A i \in DOMAIN host' : \A w \in Works : host'[i] = Complete(w) =>
            i \in DOMAIN host /\ host[i] = Complete(w)
      BY <3>1, <3>2
    <3>6. Busy' <=> Busy
      BY <3>3 DEF Busy
    <3>7. (Busy => job \in Works) /\ (js = "complete" => current \in Works)
      BY <1>a DEF HasJob, JSThread
    <3>8. \A i \in DOMAIN host' : host'[i].run = "Complete" =>
            /\ state[host'[i].work] \in Over
            /\ \A j \in DOMAIN host' : host'[j] = host'[i] => j = i
      BY <1>a, <3>4 DEF WorkTasks
    <3>9. /\ \A i \in DOMAIN tasks : \A j \in DOMAIN host' : host'[j] # Complete(tasks[i])
          /\ Busy => \A j \in DOMAIN host' : host'[j] # Complete(job)
          /\ js = "complete" => \A j \in DOMAIN host' : host'[j] # Complete(current)
      BY <1>a, <1>c, <3>5, <3>7 DEF WorkTasks
    <3>10. QED
      BY <1>a, <1>2, <3>3, <3>6, <3>8, <3>9 DEF WorkTasks
  <2>3. QED
    BY <1>2, <2>1, <2>2
<1>3. ASSUME NEW w \in Works, CreateWork(w) \/ DeleteWork(w) \/ CancelWork(w) PROVE WorkTasks'
  <2>1. UNCHANGED <<host, tasks, worker, job, js, current>>
    BY <1>3 DEF CreateWork, DeleteWork, CancelWork, serving
  <2>2. \A u \in Works :
          /\ state[u] \in Over => state'[u] = state[u]
          /\ state[u] = "kQueued" => state'[u] \in {"kQueued", "kCancelled"}
    BY <1>3, <1>b DEF CreateWork, DeleteWork, CancelWork, Cancellable, SetState, Over
  <2>3. \A i \in DOMAIN tasks : state'[tasks[i]] \in {"kQueued", "kCancelled"}
    BY <1>a, <1>c, <2>2 DEF WorkTasks, Over
  <2>4. QED
    BY <1>0, <2>1, <2>2, <2>3 DEF Busy
<1>4. ASSUME NEW w \in Works, QueueWork(w) PROVE WorkTasks'
  <2>1. /\ state[w] = "kCreated" /\ tasks' = Append(tasks, w)
        /\ state' = [state EXCEPT ![w] = "kQueued"] /\ UNCHANGED <<host, job, js, current>>
    BY <1>4 DEF QueueWork, SetState, serving
  <2>2. Busy' <=> Busy
    BY <1>4 DEF QueueWork, NotifyWorker, Busy
  <2>3. /\ DOMAIN tasks' = DOMAIN tasks \cup {Len(tasks) + 1}
        /\ \A i \in DOMAIN tasks : tasks'[i] = tasks[i]
        /\ tasks'[Len(tasks) + 1] = w
    BY <1>a, <2>1, Appended
  <2>4. \A u \in Works \ {w} : state'[u] = state[u]
    BY <1>b, <2>1
  <2>5. /\ \A i \in DOMAIN tasks : tasks[i] # w
        /\ \A i \in DOMAIN host : host[i].run = "Complete" => host[i].work # w
        /\ Busy => job # w /\ job \in Works
        /\ js = "complete" => current # w /\ current \in Works
    BY <1>a, <2>1 DEF WorkTasks, HasJob, JobIs, CurrentIsOver, Busy, JSThread, Over
  <2>6. \A i \in DOMAIN host : host[i] # Complete(w)
    BY <2>5, HostTask
  <2>7. \A i \in DOMAIN host : host[i].run = "Complete" => state'[host[i].work] \in Over
    BY <1>a, <1>d, <2>4, <2>5 DEF WorkTasks
  <2>8. \A i \in DOMAIN tasks' :
          /\ state'[tasks'[i]] \in {"kQueued", "kCancelled"}
          /\ \A j \in DOMAIN tasks' : tasks'[j] = tasks'[i] => j = i
          /\ \A j \in DOMAIN host : host[j] # Complete(tasks'[i])
          /\ (Busy => tasks'[i] # job) /\ (js = "complete" => tasks'[i] # current)
    <3>1. state'[w] = "kQueued"
      BY <1>b, <2>1
    <3>2. QED
      BY <1>a, <1>c, <2>3, <2>4, <2>5, <2>6, <3>1 DEF WorkTasks
  <2>9. QED
    BY <1>a, <2>1, <2>2, <2>7, <2>8 DEF WorkTasks
<1>5. CASE LookForTask
  <2>1. ~Busy /\ UNCHANGED <<host, state, js, current>>
    BY <1>5 DEF LookForTask, Busy, serving
  <2>2. CASE tasks # <<>> /\ worker' = "take" /\ job' = Head(tasks) /\ tasks' = Tail(tasks)
    <3>1. /\ 1 \in DOMAIN tasks /\ job' = tasks[1]
          /\ \A i \in DOMAIN tasks' : i \in Nat /\ i + 1 \in DOMAIN tasks /\ i + 1 > 1
                                    /\ tasks'[i] = tasks[i + 1]
      BY <1>a, <2>2, Shortened
    <3>2. \A i, j \in DOMAIN tasks' : tasks'[i] = tasks'[j] => i = j
      <4>1. ASSUME NEW i \in DOMAIN tasks', NEW j \in DOMAIN tasks', tasks'[i] = tasks'[j]
            PROVE  i + 1 = j + 1 /\ i \in Nat /\ j \in Nat
        BY <1>a, <3>1, <4>1 DEF WorkTasks
      <4>2. QED
        BY <4>1
    <3>3. \A i \in DOMAIN tasks' : tasks'[i] # job'
      BY <1>a, <3>1 DEF WorkTasks
    <3>4. \A i \in DOMAIN host : host[i] # Complete(job')
      BY <1>a, <3>1 DEF WorkTasks
    <3>5. js = "complete" => job' # current
      BY <1>a, <3>1 DEF WorkTasks
    <3>6. QED
      BY <1>a, <2>1, <3>1, <3>2, <3>3, <3>4, <3>5 DEF WorkTasks
  <2>3. CASE worker' \in {"gone", "wait"} /\ UNCHANGED <<job, tasks>>
    BY <1>a, <1>0, <2>1, <2>3 DEF Busy, WorkTasks
  <2>4. QED
    BY <1>5, <2>2, <2>3 DEF LookForTask
<1>6. CASE StartWork \/ EndWork
  <2>1. /\ Busy /\ job \in Works /\ UNCHANGED <<host, tasks, job, js, current>>
        /\ \A u \in Works \ {job} : state'[u] = state[u]
        /\ state[job] \in Over => state'[job] \in Over
    BY <1>6, <1>a, <1>b DEF StartWork, EndWork, SetState, WorkExists, Busy, HasJob, JobIs, Over,
                             serving
  <2>2. \A i \in DOMAIN tasks : state'[tasks[i]] \in {"kQueued", "kCancelled"}
    BY <1>a, <1>c, <2>1 DEF WorkTasks
  <2>3. QED
    BY <1>0, <2>1, <2>2
<1>7. CASE PostJSTask
  <2>1. /\ Busy /\ ~Busy' /\ job \in Works /\ host' = Append(host, Complete(job))
        /\ state[job] \in Over /\ UNCHANGED <<tasks, state, js, current>>
    BY <1>7, <1>a DEF PostJSTask, Busy, HasJob, JobIs, serving
  <2>2. /\ DOMAIN host' = DOMAIN host \cup {Len(host) + 1}
        /\ \A i \in DOMAIN host : host'[i] = host[i]
        /\ host'[Len(host) + 1] = Complete(job)
    BY <1>a, <2>1, Appended, HostTask
  <2>3. /\ \A i \in DOMAIN host : host[i] # Complete(job)
        /\ \A i \in DOMAIN tasks : tasks[i] # job
        /\ js = "complete" => job # current
    BY <1>a, <2>1 DEF WorkTasks
  <2>4. \A i \in DOMAIN host' : host'[i].run = "Complete" =>
          /\ state[host'[i].work] \in Over
          /\ \A j \in DOMAIN host' : host'[j] = host'[i] => j = i
    BY <1>a, <2>1, <2>2, <2>3, HostTask DEF WorkTasks
  <2>5. \A i \in DOMAIN tasks : \A j \in DOMAIN host' : host'[j] # Complete(tasks[i])
    BY <1>a, <1>c, <2>1, <2>2, <2>3, HostTask DEF WorkTasks
  <2>6. js = "complete" => \A j \in DOMAIN host' : host'[j] # Complete(current)
    BY <1>a, <2>1, <2>2, <2>3, HostTask DEF WorkTasks, JSThread
  <2>7. QED
    BY <1>a, <2>1, <2>4, <2>5, <2>6 DEF WorkTasks
<1>8. ASSUME NEW c \in Callers,
             \/ \E i \in Items, blocking \in BOOLEAN : Call(c, i, blocking)
             \/ ReturnFromCall(c) \/ Acquire(c) \/ Delete(c)
             \/ \E abort \in BOOLEAN : Release(c, abort)
      PROVE  WorkTasks'
  <2>1. UNCHANGED <<asyncWork, js, current>>
    BY <1>8 DEF Call, ReturnFromCall, Acquire, Delete, Release, serving
  <2>2. host' \in {host, Append(host, DoWork), Append(host, Finalize)}
    BY <1>8 DEF Call, TaskForCall, ReturnFromCall, Acquire, Delete, Release
  <2>3. QED
    BY <1>2, <2>1, <2>2
<1>9. CASE CreateFunction
  BY <1>2, <1>9 DEF CreateFunction, serving
<1>10. CASE RunTask
  <2>1. /\ js = "idle" /\ host # <<>> /\ host' = Tail(host) /\ UNCHANGED asyncWork
    BY <1>10 DEF RunTask
  <2>2. /\ 1 \in DOMAIN host /\ Head(host) = host[1]
        /\ \A i \in DOMAIN host' : i \in Nat /\ i + 1 \in DOMAIN host /\ i + 1 > 1
                                 /\ host'[i] = host[i + 1]
    BY <1>a, <2>1, Shortened
  <2>3. \A i \in DOMAIN host' : host'[i].run = "Complete" =>
          /\ state[host'[i].work] \in Over
          /\ \A j \in DOMAIN host' : host'[j] = host'[i] => j = i
    <3>1. ASSUME NEW i \in DOMAIN host', host'[i].run = "Complete",
                 NEW j \in DOMAIN host', host'[j] = host'[i]
          PROVE  j + 1 = i + 1 /\ i \in Nat /\ j \in Nat
      BY <1>a, <2>2, <3>1 DEF WorkTasks
    <3>2. QED
      BY <1>a, <2>2, <3>1 DEF WorkTasks
  <2>4. /\ \A i \in DOMAIN tasks : \A j \in DOMAIN host' : host'[j] # Complete(tasks[i])
        /\ Busy => \A j \in DOMAIN host' : host'[j] # Complete(job)
    BY <1>a, <2>2 DEF WorkTasks
  <2>5. js' = "complete" => /\ \A i \in DOMAIN tasks : tasks[i] # current'
                            /\ \A j \in DOMAIN host' : host'[j] # Complete(current')
                            /\ Busy => job # current'
    <3>1. SUFFICES ASSUME js' = "complete"
                   PROVE  /\ \A i \in DOMAIN tasks : tasks[i] # current'
                          /\ \A j \in DOMAIN host' : host'[j] # Complete(current')
                          /\ Busy => job # current'
      OBVIOUS
    <3>2. host[1].run = "Complete" /\ current' = host[1].work
      BY <1>10, <2>2, <3>1 DEF RunTask, RunCompletion, BeginComplete, TakeQueue
    <3>3. host[1] = Complete(current')
      BY <1>d, <2>2, <3>2
    <3>4. /\ \A i \in DOMAIN tasks : tasks[i] # current'
          /\ Busy => job # current'
      BY <1>a, <2>2, <3>3 DEF WorkTasks
    <3>5. \A j \in DOMAIN host' : host'[j] # Complete(current')
      BY <1>a, <2>2, <3>2, <3>3 DEF WorkTasks
    <3>6. QED
      BY <3>4, <3>5
  <2>6. UNCHANGED <<worker, job, tasks, state>>
    BY <2>1 DEF asyncWork
  <2>7. QED
    BY <1>a, <2>3, <2>4, <2>5, <2>6 DEF WorkTasks, Busy
<1>11. CASE EndComplete
  <2>1. /\ js = "complete" /\ js' = "idle" /\ state' = [state EXCEPT ![current] = "deleted"]
        /\ UNCHANGED <<host, worker, job, tasks>>
    BY <1>11 DEF EndComplete, SetState
  <2>2. current \in Works
    BY <1>a, <2>1 DEF JSThread
  <2>3. \A i \in DOMAIN host : host[i].run = "Complete" => host[i].work # current
    BY <1>a, <1>d, <2>1 DEF WorkTasks
  <2>4. \A i \in DOMAIN host : host[i].run = "Complete" => state'[host[i].work] \in Over
    BY <1>a, <1>b, <1>d, <2>1, <2>3 DEF WorkTasks
  <2>5. \A i \in DOMAIN tasks : state'[tasks[i]] \in {"kQueued", "kCancelled"}
    BY <1>a, <1>b, <1>c, <2>1 DEF WorkTasks
  <2>6. QED
    BY <1>a, <2>1, <2>4, <2>5 DEF WorkTasks, Busy
<1>12. CASE BeginTask \/ EndTask \/ EndDrain \/ EndFinalize
  <2>1. UNCHANGED <<host, asyncWork>> /\ js' # "complete"
    BY <1>12 DEF BeginTask, EndTask, EndDrain, EndFinalize
  <2>2. QED
    BY <1>0, <1>a, <2>1 DEF asyncWork, Busy, WorkTasks
<1>13. CASE Detach
  <2>1. UNCHANGED <<host, tasks, job, state, js, current>> /\ (Busy' <=> Busy)
    BY <1>13 DEF Detach, StopWorker, serving, Busy
  <2>2. QED
    BY <1>0, <1>a, <2>1 DEF WorkTasks
<1>14. CASE JoinWorker \/ EndClosing \/ EndDetach \/ CloseRunner \/ \E w \in Works : CloseWork(w)
  BY <1>14, <1>1 DEF JoinWorker, EndClosing, EndDetach, CloseRunner, CloseWork, Going
<1>15. CASE UNCHANGED vars
  BY <1>2, <1>15 DEF vars, serving
<1>16. QED
  BY <1>3, <1>4, <1>5, <1>6, <1>7, <1>8, <1>9, <1>10, <1>11, <1>12, <1>13, <1>14, <1>15
     DEF Next, WorkerStep, JSStep, ModuleStep, Ended

-----------------------------------------------------------------------------
(* The history of the works.                                               *)

LEMMA HistoryKept ==
  ASSUME RuntimeInv, [Next]_vars, NoLateWorker'
  PROVE  History'
<1>n. NoLateWorker
  BY WasGoing DEF NoLateWorker
<1>a. /\ TypeOK /\ JSThread /\ HasJob /\ JobIs /\ History /\ (Going => WorkTasks)
      /\ ran \subseteq Works /\ granted \subseteq Works
      /\ state \in [Works -> {"new", "kCreated", "kQueued", "kRunning", "kCompleted",
                              "kCancelled", "deleted"}]
      /\ told \in [Works -> {"nothing", "napi_ok", "napi_cancelled"}]
      /\ host \in Seq(HostTasks)
  BY <1>n DEF RuntimeInv, TypeOK
<1>0. CASE UNCHANGED <<state, ran, granted, told>>
  BY <1>0, <1>a DEF History, StatusIsTrue
<1>1. ASSUME NEW w \in Works, CreateWork(w) \/ DeleteWork(w) \/ QueueWork(w)
      PROVE  History'
  <2>1. /\ state[w] \in {"new", "kCreated"} /\ state'[w] \in {"kCreated", "deleted", "kQueued"}
        /\ \A u \in Works \ {w} : state'[u] = state[u]
    BY <1>1, <1>a DEF CreateWork, DeleteWork, QueueWork, SetState
  <2>2. UNCHANGED <<ran, granted, told>>
    BY <1>1 DEF CreateWork, DeleteWork, QueueWork, serving
  <2>3. QED
    BY <1>a, <2>1, <2>2 DEF History, StatusIsTrue
<1>2. ASSUME NEW w \in Works, CancelWork(w) PROVE History'
  <2>1. /\ state[w] = "kQueued" /\ state'[w] = "kCancelled" /\ granted' = granted \cup {w}
        /\ \A u \in Works \ {w} : state'[u] = state[u]
        /\ UNCHANGED <<ran, told>>
    BY <1>2, <1>a DEF CancelWork, Cancellable, SetState, serving
  <2>2. QED
    BY <1>a, <2>1 DEF History, StatusIsTrue
<1>3. CASE LookForTask \/ PostJSTask
  BY <1>3, <1>0 DEF LookForTask, PostJSTask, serving
<1>4. CASE StartWork
  <2>1. CASE state[job] = "kQueued"
    <3>1. /\ job \in Works /\ state'[job] = "kRunning" /\ ran' = ran \cup {job}
          /\ \A u \in Works \ {job} : state'[u] = state[u]
          /\ UNCHANGED <<granted, told>>
      BY <1>4, <1>a, <2>1 DEF StartWork, SetState, HasJob, Busy, serving
    <3>2. QED
      BY <1>a, <2>1, <3>1 DEF History, StatusIsTrue
  <2>2. CASE state[job] # "kQueued"
    BY <1>0, <1>4, <2>2 DEF StartWork, serving
  <2>3. QED
    BY <2>1, <2>2
<1>5. CASE EndWork
  <2>1. /\ job \in Works /\ state[job] = "kRunning" /\ state'[job] = "kCompleted"
        /\ \A u \in Works \ {job} : state'[u] = state[u]
        /\ UNCHANGED <<ran, granted, told>>
    BY <1>5, <1>a DEF EndWork, SetState, WorkExists, HasJob, JobIs, Busy, serving
  <2>2. QED
    BY <1>a, <2>1 DEF History, StatusIsTrue
<1>6. ASSUME NEW c \in Callers,
             \/ \E i \in Items, blocking \in BOOLEAN : Call(c, i, blocking)
             \/ ReturnFromCall(c) \/ Acquire(c) \/ Delete(c)
             \/ \E abort \in BOOLEAN : Release(c, abort)
      PROVE  History'
  BY <1>6, <1>0 DEF Call, ReturnFromCall, Acquire, Delete, Release, asyncWork, serving
<1>7. CASE CreateFunction \/ EndDrain \/ EndFinalize \/ BeginTask \/ EndTask \/ CloseRunner
  BY <1>7, <1>0 DEF CreateFunction, EndDrain, EndFinalize, BeginTask, EndTask, CloseRunner,
                    TakeQueue, asyncWork, serving
<1>8. ASSUME NEW w \in Works, NEW s \in Over, BeginComplete(w, s),
             state[w] \notin {"new", "kRunning", "deleted"},
             s = IF state[w] \in {"kCreated", "kQueued"} THEN "kCancelled" ELSE state[w],
             state' = [state EXCEPT ![w] = s], UNCHANGED <<ran, granted>>
      PROVE  History'
  <2>1. /\ state'[w] = s /\ \A u \in Works \ {w} : state'[u] = state[u]
    BY <1>a, <1>8
  <2>2. /\ told'[w] = IF s = "kCompleted" THEN "napi_ok" ELSE "napi_cancelled"
        /\ \A u \in Works \ {w} : told'[u] = told[u]
    BY <1>a, <1>8 DEF BeginComplete, Status
  <2>3. s = "kCompleted" <=> w \in ran
    BY <1>a, <1>8 DEF History, Over
  <2>4. s = "kCompleted" => w \notin granted
    BY <1>a, <1>8 DEF History, Over
  <2>5. QED
    BY <1>a, <1>8, <2>1, <2>2, <2>3, <2>4 DEF History, StatusIsTrue, Over
<1>9. CASE RunTask
  <2>1. /\ Going /\ host # <<>> /\ UNCHANGED asyncWork
    BY <1>9 DEF RunTask, Going
  <2>2. Head(host) \in HostTasks /\ 1 \in DOMAIN host /\ Head(host) = host[1]
    BY <1>a, <2>1, Shortened
  <2>3. CASE RunCompletion
    <3>1. Head(host).work \in Works /\ state[Head(host).work] \in Over
      BY <1>a, <2>1, <2>2, <2>3, HostTask DEF RunCompletion, WorkTasks
    <3>2. state' = [state EXCEPT ![Head(host).work] = state[Head(host).work]]
      BY <1>a, <2>1, <3>1 DEF asyncWork
    <3>3. QED
      BY <1>8, <2>1, <2>3, <3>1, <3>2 DEF RunCompletion, asyncWork, Over
  <2>4. CASE \E last \in BOOLEAN : TakeQueue(last)
    BY <1>0, <2>1, <2>4 DEF TakeQueue, asyncWork
  <2>5. QED
    BY <1>9, <2>3, <2>4 DEF RunTask
<1>10. CASE EndComplete
  <2>1. /\ js = "complete" /\ state' = [state EXCEPT ![current] = "deleted"]
        /\ UNCHANGED <<ran, granted, told>>
    BY <1>10 DEF EndComplete, SetState
  <2>2. state'[current] = "deleted" /\ \A u \in Works \ {current} : state'[u] = state[u]
    BY <1>a, <2>1 DEF JSThread
  <2>3. QED
    BY <1>a, <2>1, <2>2 DEF History, StatusIsTrue
<1>11. CASE Detach \/ JoinWorker \/ EndClosing \/ EndDetach
  BY <1>11, <1>0 DEF Detach, JoinWorker, EndClosing, EndDetach, asyncWork, serving
<1>12. ASSUME NEW w \in Works, CloseWork(w) PROVE History'
  <2>1. state[w] \notin {"new", "deleted", "kRunning"}
    BY <1>12, <1>a DEF CloseWork, WorkExists, JobIs, WorkerJoined, Going
  <2>2. PICK last : /\ last = IF state[w] \in {"kCreated", "kQueued"} THEN "kCancelled"
                              ELSE state[w]
                    /\ SetState(w, last) /\ BeginComplete(w, last) /\ UNCHANGED <<ran, granted>>
    BY <1>12 DEF CloseWork
  <2>3. last \in Over
    BY <1>a, <2>1, <2>2 DEF Over
  <2>4. QED
    BY <1>8, <2>1, <2>2, <2>3 DEF SetState
<1>13. CASE UNCHANGED vars
  BY <1>13, <1>0 DEF vars, asyncWork, serving
<1>14. QED
  BY <1>1, <1>2, <1>3, <1>4, <1>5, <1>6, <1>7, <1>9, <1>10, <1>11, <1>12, <1>13
     DEF Next, WorkerStep, JSStep, ModuleStep, Ended

-----------------------------------------------------------------------------
(* The invariant, and what follows from it.                                *)

LEMMA InitialRuntime ==
  ASSUME Init
  PROVE  RuntimeInv
<1>1. TypeOK
  <2>1. /\ host \in Seq(HostTasks) /\ tasks \in Seq(Works) /\ queue \in Seq(Items)
        /\ batch \in Seq(Items) /\ delivered \in Seq(Items)
    BY EmptySeq, Zenon DEF Init
  <2>2. stopped \in BOOLEAN /\ runner \in BOOLEAN /\ finalizing \in BOOLEAN
    BY Zenon DEF Init
  <2>3. /\ state \in [Works -> {"new", "kCreated", "kQueued", "kRunning", "kCompleted",
                               "kCancelled", "deleted"}]
        /\ blocked \in [Callers -> Items \cup {NoItem}]
        /\ told \in [Works -> {"nothing", "napi_ok", "napi_cancelled"}]
    BY DEF Init
  <2>4. count \in 0..MaxCount
    BY NapiRuntimeAssumption DEF Init
  <2>5. /\ phase = "attached" /\ js = "idle" /\ worker = "none"
        /\ current = NoWork /\ job = NoWork /\ function = "none" /\ object = "none"
        /\ answered = {} /\ ran = {} /\ granted = {}
    BY DEF Init
  <2>6. QED
    BY <2>1, <2>2, <2>3, <2>4, <2>5 DEF TypeOK
<1>2. JSThread /\ RunnerIsLive /\ CurrentIsOver
  BY Zenon DEF Init, JSThread, RunnerIsLive, CurrentIsOver
<1>3. HasJob /\ JobIs
  BY DEF Init, HasJob, JobIs, Busy, Going
<1>4. History
  BY DEF Init, History, StatusIsTrue
<1>5. RunnerTasks /\ WorkTasks
  BY DEF Init, RunnerTasks, WorkTasks, Busy
<1>6. QED
  BY <1>1, <1>2, <1>3, <1>4, <1>5 DEF RuntimeInv

LEMMA RuntimeKept ==
  ASSUME RuntimeInv, [Next]_vars
  PROVE  RuntimeInv'
<1>1. TypeOK'
  BY TypeKept DEF RuntimeInv
<1>2. /\ JSThread' /\ HasJob' /\ RunnerIsLive'
      /\ NoLateWorker' => JobIs' /\ CurrentIsOver' /\ History'
  BY JSThreadKept, HasJobKept, RunnerKept, JobKept, CurrentKept, HistoryKept
<1>3. Going' => RunnerTasks' /\ WorkTasks'
  BY RunnerTasksKept, WorkTasksKept
<1>4. QED
  BY <1>1, <1>2, <1>3 DEF RuntimeInv

LEMMA RuntimeAlways == Spec => []RuntimeInv
<1>1. Init => RuntimeInv
  BY InitialRuntime
<1>2. RuntimeInv /\ [Next]_vars => RuntimeInv'
  BY RuntimeKept
<1>3. QED
  BY <1>1, <1>2, PTL DEF Spec

\* Every variable of the runtime keeps its type; thread_count_ never falls below zero.
THEOREM RuntimeTyped == Spec => []TypeOK
<1>1. RuntimeInv => TypeOK
  BY DEF RuntimeInv
<1>2. QED
  BY <1>1, RuntimeAlways, PTL

\* The tasks of the host and of the worker hold plain pointers; none dangles while it may
\* still be run, and none is run twice.
THEOREM TasksNeverDangle ==
  ASSUME LateWorker = FALSE
  PROVE  Spec => []TasksAreLive
<1>1. ASSUME RuntimeInv PROVE TasksAreLive
  <2>1. /\ JobIs /\ (Going => RunnerTasks /\ WorkTasks)
        /\ host \in Seq(HostTasks) /\ tasks \in Seq(Works)
    BY <1>1 DEF RuntimeInv, NoLateWorker, TypeOK
  <2>2. Busy => WorkExists(job)
    BY <2>1 DEF JobIs, Busy, WorkExists, Over
  <2>3. ASSUME Going
        PROVE  /\ \A i \in DOMAIN host : host[i].run = "Complete" => WorkExists(host[i].work)
               /\ (\E i \in DOMAIN host : host[i].run # "Complete") => object = "live"
               /\ \A i \in DOMAIN tasks : WorkExists(tasks[i])
    BY <2>1, <2>3 DEF RunnerTasks, WorkTasks, WorkExists, Over
  <2>4. ASSUME Going, NEW i \in DOMAIN host, NEW j \in DOMAIN host,
               i # j, host[i].run # "DoWork", host[i] = host[j]
        PROVE  FALSE
    <3>1. host[i] \in HostTasks /\ i \in Nat /\ j \in Nat
      BY <2>1
    <3>2. CASE host[i].run = "Complete"
      BY <2>1, <2>4, <3>2 DEF WorkTasks
    <3>3. CASE host[i] = Finalize
      <4>1. host[j] = Finalize /\ Finalize.run # "Complete"
        BY <2>4, <3>3, HostTask
      <4>2. \A k, l \in DOMAIN host : host[k] = Finalize /\ l > k => host[l].run = "Complete"
        BY <2>1, <2>4 DEF RunnerTasks
      <4>3. ~(j > i) /\ ~(i > j)
        BY <2>4, <3>3, <4>1, <4>2
      <4>4. QED
        BY <2>4, <3>1, <4>3
    <3>4. host[i] # DoWork
      BY <2>4 DEF DoWork
    <3>5. QED
      BY <3>1, <3>2, <3>3, <3>4, HostTask
  <2>5. QED
    BY <2>2, <2>3, <2>4 DEF TasksAreLive, Going, Busy
<1>2. QED
  BY <1>1, RuntimeAlways, PTL

\* complete_ is told napi_ok exactly if execute_ was called, and napi_cancel_async_work
\* succeeds only if it never is.
THEOREM StatusIsNeverWrong ==
  ASSUME LateWorker = FALSE
  PROVE  Spec => []StatusIsTrue
<1>1. RuntimeInv => StatusIsTrue
  BY DEF RuntimeInv, NoLateWorker, History
<1>2. QED
  BY <1>1, RuntimeAlways, PTL

-----------------------------------------------------------------------------
(* Nobody waits in vain.                                                   *)

\* The worker has been woken when there is a task to take, or when it is to stop.
WorkerIsAwake ==
  /\ phase = "attached" => ~stopped
  /\ phase \in {"stopping", "joining"} => stopped \/ worker = "none"
  /\ stopped => worker \notin {"none", "wait"}
  /\ worker = "gone" => stopped
  /\ tasks # <<>> => worker \notin {"none", "wait"}

\* Who will complete a work that was queued.
InHands(w) ==
  \/ w \in ToSet(tasks)
  \/ worker \in {"take", "post"} /\ job = w
  \/ Complete(w) \in ToSet(host)
  \/ js = "complete" /\ current = w

WorksInHands ==
  /\ Going => \A w \in Works : state[w] \in {"kQueued"} \cup Over => InHands(w)
  /\ phase \in {"joining", "detached"} => \A w \in Works : ~WorkExists(w)

\* A queue that is not empty has a task of the host that takes it.
QueueIsAwaited ==
  /\ queue # <<>> => object = "live" /\ ~finalizing
  /\ queue # <<>> /\ Going => \E i \in DOMAIN host : host[i].run # "Complete"
  /\ phase \in {"joining", "detached"} => object # "live"

CallsInHands ==
  \A c \in Callers : blocked[c] # NoItem =>
    blocked[c] \in ToSet(queue) \cup ToSet(batch) \cup answered

LEMMA HeadOrTail ==
  ASSUME NEW S, NEW s \in Seq(S), s # <<>>, NEW x \in ToSet(s)
  PROVE  x = Head(s) \/ x \in ToSet(Tail(s))
<1>1. PICK i \in DOMAIN s : s[i] = x
  BY DEF ToSet
<1>2. /\ Head(s) = s[1] /\ DOMAIN s = 1..Len(s) /\ Len(s) \in Nat
      /\ DOMAIN Tail(s) = 1..Len(s) - 1
      /\ \A j \in 1..Len(s) - 1 : Tail(s)[j] = s[j + 1]
  BY HeadTailProperties, EmptySeq
<1>3. CASE i = 1
  BY <1>1, <1>2, <1>3
<1>4. CASE i # 1
  <2>1. i - 1 \in 1..Len(s) - 1 /\ (i - 1) + 1 = i
    BY <1>1, <1>2, <1>4
  <2>2. i - 1 \in DOMAIN Tail(s) /\ Tail(s)[i - 1] = x
    BY <1>1, <1>2, <2>1
  <2>3. QED
    BY <2>2 DEF ToSet
<1>5. QED
  BY <1>3, <1>4

LEMMA AwakeKept ==
  ASSUME RuntimeInv, WorkerIsAwake, [Next]_vars
  PROVE  WorkerIsAwake'
<1>a. /\ TypeOK /\ JSThread /\ tasks \in Seq(Works)
      /\ worker \in {"none", "look", "wait", "take", "execute", "post", "gone"}
      /\ phase \in {"attached", "stopping", "closing", "joining", "detached"}
  BY DEF RuntimeInv, TypeOK
<1>0. CASE UNCHANGED <<phase, worker, tasks, stopped>>
  BY <1>0 DEF WorkerIsAwake
<1>1. ASSUME NEW w \in Works, QueueWork(w) PROVE WorkerIsAwake'
  <2>1. /\ phase \in {"attached", "closing"}
        /\ tasks' = Append(tasks, w) /\ UNCHANGED <<phase, stopped>>
        /\ worker' = NotifyWorker
    BY <1>1, <1>a DEF QueueWork, InModule, JSThread
  <2>2. worker' \notin {"none", "wait"}
    BY <1>a, <2>1 DEF WorkerIsAwake, NotifyWorker
  <2>3. worker' = "gone" => worker = "gone"
    BY <2>1 DEF NotifyWorker
  <2>4. QED
    BY <2>1, <2>2, <2>3 DEF WorkerIsAwake
<1>2. CASE LookForTask
  <2>1. worker = "look" /\ UNCHANGED <<phase, stopped>>
    BY <1>2 DEF LookForTask
  <2>2. CASE stopped /\ worker' = "gone" /\ UNCHANGED tasks
    BY <2>1, <2>2 DEF WorkerIsAwake
  <2>3. CASE ~stopped /\ tasks = <<>> /\ worker' = "wait" /\ UNCHANGED tasks
    BY <2>1, <2>3 DEF WorkerIsAwake
  <2>4. CASE ~stopped /\ worker' = "take"
    BY <2>1, <2>4 DEF WorkerIsAwake
  <2>5. QED
    BY <1>2, <2>2, <2>3, <2>4 DEF LookForTask
<1>3. CASE StartWork \/ EndWork \/ PostJSTask
  <2>1. /\ worker \in {"take", "execute", "post"} /\ worker' \in {"execute", "post", "look"}
        /\ UNCHANGED <<phase, tasks, stopped>>
    BY <1>3 DEF StartWork, EndWork, PostJSTask
  <2>2. QED
    BY <2>1 DEF WorkerIsAwake
<1>4. CASE Detach \/ EndClosing
  <2>1. /\ phase' \in {"stopping", "joining"} /\ UNCHANGED tasks
        /\ stopped' = (worker # "none")
        /\ worker' = IF worker = "wait" THEN "look" ELSE worker
    BY <1>4 DEF Detach, EndClosing, StopWorker
  <2>2. CASE worker = "none"
    <3>1. ~stopped' /\ worker' = "none" /\ tasks = <<>>
      BY <2>1, <2>2, Zenon DEF WorkerIsAwake
    <3>2. QED
      BY <2>1, <3>1 DEF WorkerIsAwake
  <2>3. CASE worker # "none"
    <3>1. stopped' /\ worker' \notin {"none", "wait"}
      BY <2>1, <2>3, Zenon
    <3>2. QED
      BY <2>1, <3>1 DEF WorkerIsAwake
  <2>4. QED
    BY <2>2, <2>3
<1>5. CASE JoinWorker \/ EndDetach
  <2>1. UNCHANGED <<worker, tasks, stopped>> /\ phase' \in {"closing", "detached"}
    BY <1>5 DEF JoinWorker, EndDetach, asyncWork
  <2>2. QED
    BY <2>1 DEF WorkerIsAwake
<1>6. ASSUME \/ \E w \in Works : CreateWork(w) \/ DeleteWork(w) \/ CancelWork(w) \/ CloseWork(w)
             \/ CreateFunction \/ RunTask \/ EndComplete \/ BeginTask \/ EndTask
             \/ EndDrain \/ EndFinalize \/ CloseRunner \/ UNCHANGED vars
      PROVE  WorkerIsAwake'
  BY <1>0, <1>6 DEF CreateWork, DeleteWork, CancelWork, CloseWork, CreateFunction, RunTask,
                    EndComplete, BeginTask, EndTask, EndDrain, EndFinalize, CloseRunner, vars,
                    asyncWork
<1>7. ASSUME NEW c \in Callers,
             \/ \E i \in Items, blocking \in BOOLEAN : Call(c, i, blocking)
             \/ ReturnFromCall(c) \/ Acquire(c) \/ Delete(c)
             \/ \E abort \in BOOLEAN : Release(c, abort)
      PROVE  WorkerIsAwake'
  BY <1>0, <1>7 DEF Call, ReturnFromCall, Acquire, Delete, Release, asyncWork
<1>8. QED
  BY <1>1, <1>2, <1>3, <1>4, <1>5, <1>6, <1>7
     DEF Next, WorkerStep, JSStep, ModuleStep, Ended

\* A work that is not there when the runtime is detached is not created any more.
LEMMA NoWorkAfterwards ==
  ASSUME RuntimeInv, WorksInHands, [Next]_vars, phase' \in {"joining", "detached"}
  PROVE  \A w \in Works : ~WorkExists(w)'
<1>a. /\ JSThread /\ HasJob
      /\ phase \in {"attached", "stopping", "closing", "joining", "detached"}
      /\ state \in [Works -> {"new", "kCreated", "kQueued", "kRunning", "kCompleted",
                              "kCancelled", "deleted"}]
  BY DEF RuntimeInv, TypeOK
<1>1. CASE EndClosing
  BY <1>1 DEF EndClosing, WorkExists
<1>2. CASE UNCHANGED vars
  BY <1>2 DEF WorksInHands, WorkExists, vars, asyncWork
<1>3. phase \in {"joining", "detached"} \/ EndClosing
  BY <1>2 DEF Next, WorkerStep, JSStep, ModuleStep, Ended, LookForTask, StartWork, EndWork,
         PostJSTask, RunTask, EndComplete, BeginTask, EndTask, EndDrain, EndFinalize, JoinWorker,
         CloseWork, CloseRunner, EndDetach, CreateWork, DeleteWork, QueueWork, CancelWork,
         CreateFunction, Call, Acquire, Delete, Release, Detach, ReturnFromCall, vars
<1>4. ASSUME phase \in {"joining", "detached"} PROVE \A w \in Works : ~WorkExists(w)'
  <2>1. js = "idle" /\ \A w \in Works : ~WorkExists(w)
    BY <1>4, <1>a DEF JSThread, WorksInHands
  <2>2. CASE StartWork \/ EndWork
    <3>1. job \in Works /\ ~WorkExists(job)
      BY <2>1, <2>2, <1>a DEF StartWork, EndWork, HasJob, Busy
    <3>2. state' = state \/ state' = [state EXCEPT ![job] = "deleted"]
      BY <2>2, <3>1 DEF StartWork, EndWork, SetState, WorkExists
    <3>3. QED
      BY <1>a, <2>1, <3>1, <3>2 DEF WorkExists
  <2>3. ASSUME ~(StartWork \/ EndWork) PROVE state' = state
    BY <1>4, <2>1, <2>3 DEF Next, WorkerStep, JSStep, ModuleStep, Ended, LookForTask,
         PostJSTask, RunTask, EndComplete, BeginTask, EndTask, EndDrain, EndFinalize, JoinWorker,
         CloseWork, CloseRunner, EndClosing, EndDetach, CreateWork, DeleteWork, QueueWork,
         CancelWork, CreateFunction, Call, Acquire, Delete, Release, Detach, ReturnFromCall, vars,
         InModule, asyncWork
  <2>4. QED
    BY <2>1, <2>2, <2>3 DEF WorkExists
<1>5. QED
  BY <1>1, <1>3, <1>4

LEMMA HandsKept ==
  ASSUME RuntimeInv, WorksInHands, [Next]_vars
  PROVE  WorksInHands'
<1>d. phase' \in {"joining", "detached"} => \A w \in Works : ~WorkExists(w)'
  BY NoWorkAfterwards
<1>g. SUFFICES ASSUME Going', NEW w \in Works, state'[w] \in {"kQueued"} \cup Over
               PROVE  InHands(w)'
  BY <1>d DEF WorksInHands
<1>a. /\ Going /\ TypeOK /\ JSThread /\ HasJob /\ JobIs /\ host \in Seq(HostTasks) /\ tasks \in Seq(Works)
      /\ state \in [Works -> {"new", "kCreated", "kQueued", "kRunning", "kCompleted",
                              "kCancelled", "deleted"}]
  BY <1>g, WasGoing DEF RuntimeInv, NoLateWorker, TypeOK
<1>i. state[w] \in {"kQueued"} \cup Over => InHands(w)
  BY <1>a DEF WorksInHands
<1>0. ASSUME state[w] \in {"kQueued"} \cup Over,
             ToSet(tasks) \subseteq ToSet(tasks'), ToSet(host) \subseteq ToSet(host'),
             worker \in {"take", "post"} /\ job = w =>
               worker' \in {"take", "post"} /\ job' = job,
             js = "complete" /\ current = w => js' = "complete" /\ current' = current
      PROVE  InHands(w)'
  BY <1>0, <1>i DEF InHands
<1>1. ASSUME NEW v \in Works, CreateWork(v) \/ DeleteWork(v) \/ CancelWork(v) PROVE InHands(w)'
  <2>1. UNCHANGED <<host, tasks, worker, job, js, current>>
    BY <1>1 DEF CreateWork, DeleteWork, CancelWork, serving
  <2>2. state[w] \in {"kQueued"} \cup Over
    BY <1>1, <1>a, <1>g DEF CreateWork, DeleteWork, CancelWork, Cancellable, SetState, Over
  <2>3. QED
    BY <1>0, <2>1, <2>2
<1>2. ASSUME NEW v \in Works, QueueWork(v) PROVE InHands(w)'
  <2>1. /\ tasks' = Append(tasks, v) /\ state' = [state EXCEPT ![v] = "kQueued"]
        /\ UNCHANGED <<host, job, js, current>>
    BY <1>2 DEF QueueWork, SetState, serving
  <2>2. worker \in {"take", "post"} => worker' = worker
    BY <1>2 DEF QueueWork, NotifyWorker
  <2>3. ToSet(tasks') = ToSet(tasks) \cup {v}
    BY <1>a, <2>1, Appended
  <2>4. CASE w = v
    BY <2>3, <2>4 DEF InHands
  <2>5. CASE w # v
    BY <1>0, <1>a, <1>g, <2>1, <2>2, <2>3, <2>5
  <2>6. QED
    BY <2>4, <2>5
<1>3. CASE LookForTask
  <2>1. worker = "look" /\ UNCHANGED <<host, state, js, current>>
    BY <1>3 DEF LookForTask, serving
  <2>2. CASE tasks # <<>> /\ worker' = "take" /\ job' = Head(tasks) /\ tasks' = Tail(tasks)
    <3>1. w \in ToSet(tasks) => w = job' \/ w \in ToSet(tasks')
      BY <1>a, <2>2, HeadOrTail
    <3>2. QED
      BY <1>g, <1>i, <2>1, <2>2, <3>1 DEF InHands
  <2>3. CASE UNCHANGED <<job, tasks>>
    BY <1>0, <1>g, <2>1, <2>3
  <2>4. QED
    BY <1>3, <2>2, <2>3 DEF LookForTask
<1>4. CASE StartWork \/ EndWork
  <2>1. UNCHANGED <<host, tasks, job, js, current>>
    BY <1>4 DEF StartWork, EndWork, serving
  <2>2. CASE worker' = "post" /\ job = w
    BY <2>1, <2>2 DEF InHands
  <2>3. CASE ~(worker' = "post" /\ job = w)
    <3>1. /\ state[w] \in {"kQueued"} \cup Over
          /\ ~(worker \in {"take", "post"} /\ job = w)
      BY <1>4, <1>a, <1>g, <2>3 DEF StartWork, EndWork, SetState, WorkExists, HasJob, JobIs, Busy, Over
    <3>2. QED
      BY <1>0, <2>1, <3>1
  <2>4. QED
    BY <2>2, <2>3
<1>5. CASE PostJSTask
  <2>1. /\ worker = "post" /\ job \in Works /\ host' = Append(host, Complete(job))
        /\ UNCHANGED <<tasks, state, js, current>>
    BY <1>5, <1>a DEF PostJSTask, HasJob, Busy, serving
  <2>2. ToSet(host') = ToSet(host) \cup {Complete(job)}
    BY <1>a, <2>1, Appended, HostTask
  <2>3. QED
    BY <1>g, <1>i, <2>1, <2>2 DEF InHands
<1>6. ASSUME NEW c \in Callers,
             \/ \E i \in Items, blocking \in BOOLEAN : Call(c, i, blocking)
             \/ ReturnFromCall(c) \/ Acquire(c) \/ Delete(c)
             \/ \E abort \in BOOLEAN : Release(c, abort)
      PROVE  InHands(w)'
  <2>1. UNCHANGED <<tasks, worker, job, state, js, current>>
    BY <1>6 DEF Call, ReturnFromCall, Acquire, Delete, Release, asyncWork, serving
  <2>2. host' \in {host, Append(host, DoWork), Append(host, Finalize)}
    BY <1>6 DEF Call, TaskForCall, ReturnFromCall, Acquire, Delete, Release
  <2>3. ToSet(host) \subseteq ToSet(host')
    <3>1. ASSUME NEW x \in HostTasks, host' = Append(host, x) PROVE ToSet(host') = ToSet(host) \cup {x}
      BY <1>a, <3>1, Appended
    <3>2. QED
      BY <2>2, <3>1, HostTask
  <2>4. QED
    BY <1>0, <1>g, <2>1, <2>3
<1>7. CASE CreateFunction \/ BeginTask \/ EndTask \/ EndDrain \/ EndFinalize
  <2>1. UNCHANGED <<host, tasks, worker, job, state, current>>
    BY <1>7 DEF CreateFunction, BeginTask, EndTask, EndDrain, EndFinalize, asyncWork, serving
  <2>2. js = "complete" => js' = "complete"
    BY <1>7 DEF CreateFunction, BeginTask, EndTask, EndDrain, EndFinalize
  <2>3. QED
    BY <1>0, <1>g, <2>1, <2>2
<1>8. CASE RunTask
  <2>1. /\ js = "idle" /\ host # <<>> /\ host' = Tail(host)
        /\ UNCHANGED <<tasks, worker, job, state>>
    BY <1>8 DEF RunTask, asyncWork
  <2>2. Complete(w) \in ToSet(host) => Complete(w) = Head(host) \/ Complete(w) \in ToSet(host')
    BY <1>a, <2>1, HeadOrTail
  <2>3. ASSUME Complete(w) = Head(host) PROVE js' = "complete" /\ current' = w
    <3>1. Head(host).run = "Complete" /\ Head(host).work = w
      BY <2>3, HostTask
    <3>2. RunCompletion
      BY <1>8, <3>1, HostTask DEF RunTask
    <3>3. QED
      BY <3>1, <3>2 DEF RunCompletion, BeginComplete
  <2>4. QED
    BY <1>g, <1>i, <2>1, <2>2, <2>3 DEF InHands
<1>9. CASE EndComplete
  <2>1. /\ current \in Works /\ state' = [state EXCEPT ![current] = "deleted"]
        /\ UNCHANGED <<host, tasks, worker, job>>
    BY <1>9, <1>a DEF EndComplete, SetState, JSThread
  <2>2. w # current /\ state[w] = state'[w]
    BY <1>a, <1>g, <2>1 DEF Over
  <2>3. QED
    BY <1>0, <1>g, <2>1, <2>2
<1>10. CASE Detach
  <2>1. /\ UNCHANGED <<host, tasks, job, state, js, current>>
        /\ worker \in {"take", "post"} => worker' = worker
    BY <1>10 DEF Detach, StopWorker, serving
  <2>2. QED
    BY <1>0, <1>g, <2>1
<1>11. CASE JoinWorker \/ EndClosing \/ EndDetach \/ CloseRunner \/ \E v \in Works : CloseWork(v)
  BY <1>11, <1>g, <1>a DEF JoinWorker, EndClosing, EndDetach, CloseRunner, CloseWork, Going
<1>12. CASE UNCHANGED vars
  BY <1>0, <1>g, <1>12 DEF vars, asyncWork, serving
<1>13. QED
  BY <1>1, <1>2, <1>3, <1>4, <1>5, <1>6, <1>7, <1>8, <1>9, <1>10, <1>11, <1>12
     DEF Next, WorkerStep, JSStep, ModuleStep, Ended

LEMMA AwaitedKept ==
  ASSUME RuntimeInv, QueueIsAwaited, [Next]_vars
  PROVE  QueueIsAwaited'
<1>a. /\ TypeOK /\ JSThread /\ RunnerIsLive
      /\ host \in Seq(HostTasks) /\ queue \in Seq(Items)
      /\ phase \in {"attached", "stopping", "closing", "joining", "detached"}
  BY DEF RuntimeInv, TypeOK
<1>s. \A s \in Seq(HostTasks) : (\E i \in DOMAIN s : s[i].run # "Complete") <=>
                               \E x \in ToSet(s) : x.run # "Complete"
  BY DEF ToSet
<1>0. ASSUME UNCHANGED <<queue, object, finalizing>>,
             phase' = phase \/ phase' = "closing" \/ (phase' = "stopping" /\ Going),
             host' = host \/ \E x \in HostTasks : host' = Append(host, x)
      PROVE  QueueIsAwaited'
  <2>1. (\E i \in DOMAIN host : host[i].run # "Complete") =>
          \E i \in DOMAIN host' : host'[i].run # "Complete"
    <3>1. CASE host' = host
      BY <3>1
    <3>2. ASSUME NEW x \in HostTasks, host' = Append(host, x)
          PROVE  DOMAIN host \subseteq DOMAIN host' /\ \A i \in DOMAIN host : host'[i] = host[i]
      BY <1>a, <3>2, Appended
    <3>3. QED
      BY <1>0, <3>1, <3>2
  <2>2. Going' => Going
    BY <1>0 DEF Going
  <2>3. QED
    BY <1>0, <2>1, <2>2 DEF QueueIsAwaited
<1>1. ASSUME \/ \E w \in Works : CreateWork(w) \/ DeleteWork(w) \/ QueueWork(w) \/ CancelWork(w)
                                 \/ CloseWork(w)
             \/ LookForTask \/ StartWork \/ EndWork \/ EndComplete
             \/ BeginTask \/ EndTask \/ EndDrain \/ UNCHANGED vars
      PROVE  QueueIsAwaited'
  <2>1. UNCHANGED <<phase, host, queue, object, finalizing>>
    BY <1>1 DEF CreateWork, DeleteWork, QueueWork, CancelWork, CloseWork, BeginComplete,
                LookForTask, StartWork, EndWork, EndComplete, BeginTask,
                EndTask, EndDrain, vars, tsfn, serving
  <2>2. QED
    BY <1>0, <2>1
<1>2. CASE Detach \/ JoinWorker
  <2>1. /\ UNCHANGED <<host, queue, object, finalizing>>
        /\ phase' = "closing" \/ (phase' = "stopping" /\ Going)
    BY <1>2 DEF Detach, JoinWorker, Going, tsfn, serving
  <2>2. QED
    BY <1>0, <2>1
<1>3. CASE PostJSTask
  <2>1. Complete(job) \in HostTasks
    BY <1>3, HostTask DEF PostJSTask, RuntimeInv, HasJob, Busy
  <2>2. UNCHANGED <<phase, queue, object, finalizing>> /\ host' = Append(host, Complete(job))
    BY <1>3 DEF PostJSTask, tsfn, serving
  <2>3. QED
    BY <1>0, <2>1, <2>2
<1>4. CASE CreateFunction
  <2>1. function = "none" /\ InModule /\ UNCHANGED <<phase, host, queue, serving>>
    BY <1>4 DEF CreateFunction
  <2>2. queue = <<>> /\ phase \notin {"joining", "detached"}
    BY <1>a, <2>1 DEF RunnerIsLive, QueueIsAwaited, InModule, JSThread
  <2>3. QED
    BY <2>1, <2>2 DEF QueueIsAwaited
<1>5. ASSUME NEW c \in Callers, NEW i \in Items, NEW blocking \in BOOLEAN, Call(c, i, blocking)
      PROVE  QueueIsAwaited'
  <2>1. /\ runner /\ queue' = Append(queue, i) /\ host' = TaskForCall
        /\ UNCHANGED <<phase, object, finalizing>>
    BY <1>5 DEF Call, serving
  <2>2. object = "live" /\ ~finalizing /\ phase \notin {"joining", "detached"}
    BY <1>a, <2>1 DEF RunnerIsLive, QueueIsAwaited
  <2>3. Going => \E k \in DOMAIN host' : host'[k].run # "Complete"
    <3>1. CASE queue = <<>>
      <4>1. host' = Append(host, DoWork)
        BY <2>1, <3>1 DEF TaskForCall
      <4>2. Len(host) + 1 \in DOMAIN host' /\ host'[Len(host) + 1] = DoWork
        BY <1>a, <4>1, Appended, HostTask
      <4>3. QED
        BY <4>2, HostTask
    <3>2. CASE queue # <<>>
      BY <2>1, <3>2 DEF TaskForCall, QueueIsAwaited
    <3>3. QED
      BY <3>1, <3>2
  <2>4. QED
    BY <2>1, <2>2, <2>3 DEF QueueIsAwaited, Going
<1>6. ASSUME NEW c \in Callers,
             \/ ReturnFromCall(c) \/ Acquire(c) \/ Delete(c)
             \/ \E abort \in BOOLEAN : Release(c, abort)
      PROVE  QueueIsAwaited'
  <2>1. UNCHANGED <<phase, queue, object, finalizing>>
    BY <1>6 DEF ReturnFromCall, Acquire, Delete, Release, serving
  <2>2. host' = host \/ host' = Append(host, Finalize)
    BY <1>6 DEF ReturnFromCall, Acquire, Delete, Release
  <2>3. QED
    BY <1>0, <2>1, <2>2, HostTask
<1>7. ASSUME NEW last \in BOOLEAN, TakeQueue(last), phase' = phase PROVE QueueIsAwaited'
  BY <1>7 DEF TakeQueue, QueueIsAwaited
<1>8. CASE RunTask
  <2>1. phase' = phase /\ host # <<>> /\ host' = Tail(host)
    BY <1>8 DEF RunTask
  <2>2. CASE RunCompletion
    <3>1. UNCHANGED <<queue, object, finalizing>> /\ Head(host).run = "Complete"
      BY <2>2 DEF RunCompletion, BeginComplete, tsfn
    <3>2. (\E x \in ToSet(host) : x.run # "Complete") => \E x \in ToSet(host') : x.run # "Complete"
      BY <1>a, <2>1, <3>1, HeadOrTail
    <3>3. host' \in Seq(HostTasks)
      BY <1>a, <2>1, Shortened
    <3>4. (\E i \in DOMAIN host : host[i].run # "Complete") =>
            \E i \in DOMAIN host' : host'[i].run # "Complete"
      BY <1>a, <1>s, <3>2, <3>3
    <3>5. QED
      BY <2>1, <3>1, <3>4 DEF QueueIsAwaited, Going
  <2>3. CASE \E last \in BOOLEAN : TakeQueue(last)
    BY <1>7, <2>1, <2>3
  <2>4. QED
    BY <1>8, <2>2, <2>3 DEF RunTask
<1>9. CASE CloseRunner
  BY <1>7, <1>9 DEF CloseRunner
<1>10. CASE EndFinalize
  <2>1. js = "finalize" /\ object' = "deleted" /\ UNCHANGED queue
    BY <1>10 DEF EndFinalize
  <2>2. queue = <<>>
    BY <1>a, <2>1 DEF JSThread
  <2>3. QED
    BY <2>1, <2>2 DEF QueueIsAwaited
<1>11. CASE EndClosing \/ EndDetach
  <2>1. object # "live" /\ UNCHANGED <<queue, object>>
    BY <1>11 DEF EndClosing, EndDetach, QueueIsAwaited, tsfn
  <2>2. QED
    BY <2>1 DEF QueueIsAwaited
<1>12. QED
  BY <1>1, <1>2, <1>3, <1>4, <1>5, <1>6, <1>8, <1>9, <1>10, <1>11
     DEF Next, WorkerStep, JSStep, ModuleStep, Ended

LEMMA CallsKept ==
  ASSUME RuntimeInv, CallsInHands, [Next]_vars
  PROVE  CallsInHands'
<1>a. /\ TypeOK /\ JSThread /\ queue \in Seq(Items) /\ batch \in Seq(Items)
      /\ blocked \in [Callers -> Items \cup {NoItem}]
  BY DEF RuntimeInv, TypeOK
<1>0. ASSUME \A c \in Callers : blocked'[c] \in {blocked[c], NoItem},
             ToSet(queue) \cup ToSet(batch) \cup answered \subseteq
               ToSet(queue') \cup ToSet(batch') \cup answered'
      PROVE  CallsInHands'
  BY <1>0 DEF CallsInHands
<1>1. ASSUME \/ \E w \in Works : CreateWork(w) \/ DeleteWork(w) \/ QueueWork(w) \/ CancelWork(w)
                                 \/ CloseWork(w)
             \/ WorkerStep \/ Detach \/ JoinWorker \/ EndComplete \/ CreateFunction
             \/ BeginTask \/ EndDrain \/ EndFinalize \/ EndClosing \/ EndDetach \/ UNCHANGED vars
             \/ \E c \in Callers : Acquire(c) \/ Delete(c) \/ \E abort \in BOOLEAN : Release(c, abort)
      PROVE  CallsInHands'
  <2>1. UNCHANGED <<queue, batch, answered, blocked>>
    BY <1>1 DEF CreateWork, DeleteWork, QueueWork, CancelWork, CloseWork, BeginComplete,
                WorkerStep, LookForTask, StartWork, EndWork, PostJSTask, Detach, JoinWorker,
                EndComplete, CreateFunction, BeginTask, EndDrain, EndFinalize, EndClosing, EndDetach, vars,
                Acquire, Delete, Release, tsfn, serving
  <2>2. QED
    BY <1>0, <2>1
<1>2. ASSUME NEW c \in Callers, NEW i \in Items, NEW blocking \in BOOLEAN, Call(c, i, blocking)
      PROVE  CallsInHands'
  <2>1. /\ queue' = Append(queue, i) /\ UNCHANGED <<batch, answered>>
        /\ blocked' = [blocked EXCEPT ![c] = IF blocking THEN i ELSE NoItem]
    BY <1>2 DEF Call, serving
  <2>2. ToSet(queue') = ToSet(queue) \cup {i}
    BY <1>a, <2>1, Appended
  <2>3. QED
    BY <1>a, <2>1, <2>2 DEF CallsInHands
<1>3. ASSUME NEW c \in Callers, ReturnFromCall(c) PROVE CallsInHands'
  BY <1>0, <1>3, <1>a DEF ReturnFromCall, serving
<1>4. ASSUME js = "idle", NEW last \in BOOLEAN, TakeQueue(last) PROVE CallsInHands'
  <2>1. batch = <<>> /\ batch' = queue /\ UNCHANGED <<answered, blocked>>
    BY <1>4, <1>a DEF TakeQueue, JSThread
  <2>2. ToSet(batch) = {}
    BY <2>1 DEF ToSet
  <2>3. QED
    BY <1>0, <2>1, <2>2
<1>5. CASE RunTask
  <2>1. CASE RunCompletion
    BY <1>0, <2>1 DEF RunCompletion, BeginComplete, tsfn
  <2>2. QED
    BY <1>4, <1>5, <2>1 DEF RunTask
<1>6. CASE CloseRunner
  BY <1>4, <1>6 DEF CloseRunner
<1>7. CASE EndTask
  <2>1. /\ batch # <<>> /\ batch' = Tail(batch) /\ answered' = answered \cup {Head(batch)}
        /\ UNCHANGED <<queue, blocked>>
    BY <1>7, <1>a DEF EndTask, JSThread, tsfn
  <2>2. \A x \in ToSet(batch) : x = Head(batch) \/ x \in ToSet(batch')
    BY <1>a, <2>1, HeadOrTail
  <2>3. QED
    BY <1>0, <2>1, <2>2
<1>8. QED
  BY <1>1, <1>2, <1>3, <1>5, <1>6, <1>7 DEF Next, JSStep, ModuleStep, Ended

\* A work that is queued is never forgotten: as long as the runtime is attached the worker is
\* awake to take it, has it, or has posted its completion; napi_detach_runtime stops a worker
\* that is awake, so that it ends, and is not over before the work has been completed.
QueuedWorkIsServed ==
  /\ \A w \in Works : state[w] = "kQueued" =>
       /\ phase = "attached" =>
            \/ w \in ToSet(tasks) /\ worker \notin {"none", "wait", "gone"}
            \/ worker \in {"take", "post"} /\ job = w
            \/ Complete(w) \in ToSet(host)
            \/ js = "complete" /\ current = w
       /\ phase \notin {"joining", "detached"}
  /\ phase \in {"stopping", "joining"} => worker # "wait"

\* The worker, the host or napi_detach_runtime always is on its way to a work that is queued:
\* what WorkCompletes rests on besides fairness.
THEOREM QueuedWorkIsNotForgotten == Spec => []QueuedWorkIsServed
<1>1. ASSUME RuntimeInv, WorkerIsAwake, WorksInHands PROVE QueuedWorkIsServed
  <2>1. ASSUME NEW w \in Works, state[w] = "kQueued", phase = "attached"
        PROVE  \/ w \in ToSet(tasks) /\ worker \notin {"none", "wait", "gone"}
               \/ worker \in {"take", "post"} /\ job = w
               \/ Complete(w) \in ToSet(host)
               \/ js = "complete" /\ current = w
    <3>1. InHands(w)
      BY <1>1, <2>1 DEF WorksInHands, Going
    <3>2. w \in ToSet(tasks) => tasks # <<>>
      BY DEF ToSet
    <3>3. w \in ToSet(tasks) => worker \notin {"none", "wait", "gone"}
      BY <1>1, <2>1, <3>2 DEF WorkerIsAwake
    <3>4. QED
      BY <3>1, <3>3 DEF InHands
  <2>2. ASSUME NEW w \in Works, state[w] = "kQueued" PROVE phase \notin {"joining", "detached"}
    BY <1>1, <2>2 DEF WorksInHands, WorkExists
  <2>3. phase \in {"stopping", "joining"} => worker # "wait"
    BY <1>1 DEF WorkerIsAwake
  <2>4. QED
    BY <2>1, <2>2, <2>3 DEF QueuedWorkIsServed
<1>2. Init => WorkerIsAwake /\ WorksInHands
  <2>1. ASSUME Init PROVE WorkerIsAwake /\ WorksInHands
    <3>1. /\ ~stopped /\ worker = "none" /\ phase = "attached" /\ tasks = <<>>
          /\ \A w \in Works : state[w] = "new"
      BY <2>1, Zenon DEF Init
    <3>2. QED
      BY <3>1 DEF WorkerIsAwake, WorksInHands, Over
  <2>2. QED
    BY <2>1
<1>3. RuntimeInv /\ WorkerIsAwake /\ WorksInHands /\ [Next]_vars => WorkerIsAwake' /\ WorksInHands'
  BY AwakeKept, HandsKept
<1>4. QED
  BY <1>1, <1>2, <1>3, RuntimeAlways, PTL DEF Spec

\* A blocking call that waits is answered, or the JS thread is at it, or it is in the queue of
\* a runner that is not deleted: then the host has a task that takes the queue, unless
\* napi_detach_runtime has begun, which takes it itself and is not over before.
BlockedCallIsServed ==
  \A c \in Callers : blocked[c] # NoItem =>
    \/ blocked[c] \in answered
    \/ blocked[c] \in ToSet(batch) /\ js \in {"drain", "call"}
    \/ /\ blocked[c] \in ToSet(queue) /\ object = "live"
       /\ phase \notin {"joining", "detached"}
       /\ phase = "attached" => \E i \in DOMAIN host : host[i].run # "Complete"

\* The promise of a blocking call always is in the hands of somebody who will set it: what
\* CallsReturn rests on besides fairness.
THEOREM BlockedCallIsNotForgotten == Spec => []BlockedCallIsServed
<1>1. ASSUME RuntimeInv, QueueIsAwaited, CallsInHands PROVE BlockedCallIsServed
  <2>1. ASSUME NEW c \in Callers, blocked[c] # NoItem, blocked[c] \in ToSet(batch)
        PROVE  js \in {"drain", "call"}
    <3>1. batch # <<>>
      BY <2>1 DEF ToSet
    <3>2. QED
      BY <1>1, <3>1 DEF RuntimeInv, JSThread, TypeOK
  <2>2. ASSUME NEW c \in Callers, blocked[c] # NoItem, blocked[c] \in ToSet(queue)
        PROVE  /\ object = "live" /\ phase \notin {"joining", "detached"}
               /\ phase = "attached" => \E i \in DOMAIN host : host[i].run # "Complete"
    <3>1. queue # <<>>
      BY <2>2 DEF ToSet
    <3>2. QED
      BY <1>1, <3>1 DEF QueueIsAwaited, Going
  <2>3. QED
    BY <1>1, <2>1, <2>2 DEF BlockedCallIsServed, CallsInHands
<1>2. Init => QueueIsAwaited /\ CallsInHands
  BY DEF Init, QueueIsAwaited, CallsInHands
<1>3. RuntimeInv /\ QueueIsAwaited /\ CallsInHands /\ [Next]_vars => QueueIsAwaited' /\ CallsInHands'
  BY AwaitedKept, CallsKept
<1>4. QED
  BY <1>1, <1>2, <1>3, RuntimeAlways, PTL DEF Spec

-----------------------------------------------------------------------------
(* The refinement.                                                         *)

LEMMA MailboxStatusIs ==
  /\ RunnerIsLive => MailboxStatus = IF object = "none" THEN "none"
                                    ELSE IF runner THEN "open"
                                    ELSE IF object = "deleted" THEN "finalized" ELSE "closed"
  /\ RunnerIsLive' => MailboxStatus' = IF object' = "none" THEN "none"
                                      ELSE IF runner' THEN "open"
                                      ELSE IF object' = "deleted" THEN "finalized" ELSE "closed"
  BY DEF MailboxStatus, RunnerIsLive

LEMMA BothParts ==
  ASSUME NEW S, NEW s \in Seq(S), NEW r \in Seq(S)
  PROVE  /\ <<>> \o s = s /\ s \o <<>> = s
         /\ ToSet(s) \cup ToSet(r) = ToSet(s \o r)
<1>1. /\ DOMAIN (s \o r) = 1..(Len(s) + Len(r)) /\ DOMAIN s = 1..Len(s) /\ DOMAIN r = 1..Len(r)
      /\ Len(s) \in Nat /\ Len(r) \in Nat
      /\ \A i \in 1..(Len(s) + Len(r)) : (s \o r)[i] = IF i <= Len(s) THEN s[i] ELSE r[i - Len(s)]
  BY ConcatProperties, LenProperties
<1>2. \A x \in ToSet(s) : x \in ToSet(s \o r)
  BY <1>1 DEF ToSet
<1>3. ASSUME NEW j \in DOMAIN r PROVE r[j] \in ToSet(s \o r)
  <2>1. /\ j + Len(s) \in 1..(Len(s) + Len(r)) /\ ~(j + Len(s) <= Len(s))
        /\ (j + Len(s)) - Len(s) = j
    BY <1>1
  <2>2. (s \o r)[j + Len(s)] = r[j]
    BY <1>1, <2>1
  <2>3. QED
    BY <1>1, <2>1, <2>2 DEF ToSet
<1>4. ASSUME NEW i \in DOMAIN (s \o r) PROVE (s \o r)[i] \in ToSet(s) \cup ToSet(r)
  <2>1. CASE i <= Len(s)
    BY <1>1, <2>1 DEF ToSet
  <2>2. CASE ~(i <= Len(s))
    <3>1. i - Len(s) \in DOMAIN r /\ (s \o r)[i] = r[i - Len(s)]
      BY <1>1, <2>2
    <3>2. QED
      BY <3>1 DEF ToSet
  <2>3. QED
    BY <2>1, <2>2
<1>5. ToSet(s) \cup ToSet(r) = ToSet(s \o r)
  BY <1>2, <1>3, <1>4 DEF ToSet
<1>6. QED
  BY <1>5, ConcatEmptySeq

LEMMA AppendToBoth ==
  ASSUME NEW S, NEW s \in Seq(S), NEW r \in Seq(S), NEW e \in S
  PROVE  s \o Append(r, e) = Append(s \o r, e)
<1>1. /\ Append(r, e) = r \o <<e>> /\ Append(s \o r, e) = (s \o r) \o <<e>>
      /\ <<e>> \in Seq(S) /\ s \o r \in Seq(S)
  OBVIOUS
<1>2. (s \o r) \o <<e>> = s \o (r \o <<e>>)
  BY <1>1, ConcatAssociative
<1>3. QED
  BY <1>1, <1>2

LEMMA HeadOfBoth ==
  ASSUME NEW S, NEW s \in Seq(S), NEW r \in Seq(S), s # <<>>
  PROVE  /\ s \o r # <<>> /\ Head(s \o r) = Head(s)
         /\ Tail(s \o r) = Tail(s) \o r
<1>1. /\ s \o r \in Seq(S) /\ Len(s \o r) = Len(s) + Len(r)
      /\ \A i \in 1..(Len(s) + Len(r)) : (s \o r)[i] = IF i <= Len(s) THEN s[i] ELSE r[i - Len(s)]
      /\ Len(s) \in Nat \ {0} /\ Len(r) \in Nat
  BY ConcatProperties, LenProperties, EmptySeq
<1>2. s \o r # <<>> /\ Head(s \o r) = (s \o r)[1] /\ Head(s) = s[1]
  BY <1>1
<1>3. Head(s \o r) = Head(s)
  BY <1>1, <1>2
<1>4. /\ Tail(s) \in Seq(S) /\ Len(Tail(s)) = Len(s) - 1
      /\ \A i \in 1..(Len(s) - 1) : Tail(s)[i] = s[i + 1]
  BY HeadTailProperties
<1>5. /\ Tail(s \o r) \in Seq(S) /\ Len(Tail(s \o r)) = Len(s) + Len(r) - 1
      /\ \A i \in 1..(Len(s) + Len(r) - 1) : Tail(s \o r)[i] = (s \o r)[i + 1]
  BY <1>1, <1>2, HeadTailProperties
<1>6. /\ Tail(s) \o r \in Seq(S) /\ Len(Tail(s) \o r) = Len(s) - 1 + Len(r)
      /\ \A i \in 1..(Len(s) - 1 + Len(r)) :
           (Tail(s) \o r)[i] = IF i <= Len(s) - 1 THEN Tail(s)[i] ELSE r[i - (Len(s) - 1)]
  BY <1>4, ConcatProperties
<1>7. \A i \in 1..Len(Tail(s \o r)) : Tail(s \o r)[i] = (Tail(s) \o r)[i]
  BY <1>1, <1>4, <1>5, <1>6
<1>8. Tail(s \o r) = Tail(s) \o r
  BY <1>1, <1>5, <1>6, <1>7, SeqEqual
<1>9. QED
  BY <1>2, <1>3, <1>8

LEMMA StepIsMailbox ==
  ASSUME RuntimeInv, [Next]_vars
  PROVE  [MailboxOf!Next]_(MailboxOf!vars)
<1>a. /\ TypeOK /\ JSThread /\ RunnerIsLive /\ RunnerIsLive' /\ (Going => RunnerTasks)
      /\ batch \in Seq(Items) /\ queue \in Seq(Items) /\ delivered \in Seq(Items)
  BY RunnerKept DEF RuntimeInv, TypeOK
<1>b. /\ MailboxStatus = IF object = "none" THEN "none" ELSE IF runner THEN "open"
                         ELSE IF object = "deleted" THEN "finalized" ELSE "closed"
      /\ MailboxStatus' = IF object' = "none" THEN "none" ELSE IF runner' THEN "open"
                          ELSE IF object' = "deleted" THEN "finalized" ELSE "closed"
  BY <1>a, MailboxStatusIs
<1>0. ASSUME UNCHANGED <<Undelivered, delivered, blocked, runner, object>>
      PROVE  UNCHANGED MailboxOf!vars
  BY <1>b, <1>0 DEF MailboxOf!vars
<1>1. ASSUME UNCHANGED <<tsfn, js, batch, delivered>> PROVE UNCHANGED MailboxOf!vars
  BY <1>0, <1>1 DEF tsfn, Undelivered
<1>2. ASSUME NEW w \in Works, CreateWork(w) \/ DeleteWork(w) \/ QueueWork(w) \/ CancelWork(w)
      PROVE  UNCHANGED MailboxOf!vars
  BY <1>1, <1>2 DEF CreateWork, DeleteWork, QueueWork, CancelWork, serving
<1>3. CASE WorkerStep \/ Detach \/ JoinWorker \/ EndClosing \/ EndDetach \/ UNCHANGED vars
  BY <1>1, <1>3 DEF WorkerStep, LookForTask, StartWork, EndWork, PostJSTask, Detach, JoinWorker,
                    EndClosing, EndDetach, vars, serving
<1>4. CASE CreateFunction
  <2>1. /\ function = "none" /\ object' = "live" /\ runner' = TRUE
        /\ UNCHANGED <<js, batch, delivered, queue, blocked>>
    BY <1>4 DEF CreateFunction, serving
  <2>2. MailboxStatus = "none" /\ MailboxStatus' = "open"
    BY <1>a, <1>b, <2>1 DEF RunnerIsLive
  <2>3. UNCHANGED Undelivered
    BY <2>1 DEF Undelivered
  <2>4. QED
    BY <2>1, <2>2, <2>3 DEF MailboxOf!Next, MailboxOf!Open
<1>5. ASSUME NEW c \in Callers, NEW i \in Items, NEW blocking \in BOOLEAN, Call(c, i, blocking)
      PROVE  MailboxOf!Next
  <2>1. /\ runner /\ blocked[c] = NoItem
        /\ i \notin ToSet(queue) \cup ToSet(batch) \cup ToSet(delivered)
        /\ queue' = Append(queue, i)
        /\ blocked' = [blocked EXCEPT ![c] = IF blocking THEN i ELSE NoItem]
        /\ UNCHANGED <<js, runner, object, batch, delivered>>
    BY <1>5 DEF Call, MayCall, serving
  <2>2. MailboxStatus = "open" /\ MailboxStatus' = "open"
    BY <1>a, <1>b, <2>1 DEF RunnerIsLive
  <2>3. PICK first \in {batch, Tail(batch)} : /\ first \in Seq(Items)
                                            /\ ToSet(first) \subseteq ToSet(batch)
                                            /\ Undelivered = first \o queue
                                            /\ Undelivered' = first \o queue'
    <3>1. CASE js = "call"
      <4>1. /\ Tail(batch) \in Seq(Items) /\ ToSet(Tail(batch)) \subseteq ToSet(batch)
        BY <1>a, <3>1, Shortened DEF JSThread
      <4>2. Undelivered = Tail(batch) \o queue /\ Undelivered' = Tail(batch) \o queue'
        BY <2>1, <3>1 DEF Undelivered
      <4>3. QED
        BY <4>1, <4>2
    <3>2. CASE js # "call"
      BY <1>a, <2>1, <3>2 DEF Undelivered
    <3>3. QED
      BY <3>1, <3>2
  <2>4. Undelivered' = Append(Undelivered, i)
    BY <1>a, <2>1, <2>3, AppendToBoth
  <2>5. i \notin ToSet(Undelivered) \cup ToSet(delivered)
    BY <1>a, <2>1, <2>3, BothParts
  <2>6. MailboxOf!Post(c, i, blocking)
    BY <2>1, <2>2, <2>4, <2>5 DEF MailboxOf!Post, MailboxOf!ToSet, ToSet
  <2>7. QED
    BY <2>6 DEF MailboxOf!Next
<1>6. ASSUME NEW c \in Callers, ReturnFromCall(c) PROVE MailboxOf!Next
  <2>1. /\ blocked[c] \in answered /\ blocked' = [blocked EXCEPT ![c] = NoItem]
        /\ UNCHANGED <<js, runner, object, queue, batch, delivered>>
    BY <1>6 DEF ReturnFromCall, serving
  <2>2. blocked[c] \in ToSet(delivered)
    BY <1>a, <2>1 DEF JSThread
  <2>3. UNCHANGED <<Undelivered, MailboxStatus>>
    BY <1>b, <2>1 DEF Undelivered
  <2>4. QED
    BY <2>1, <2>2, <2>3 DEF MailboxOf!Next, MailboxOf!Return, MailboxOf!ToSet, ToSet
<1>7. ASSUME NEW c \in Callers, Acquire(c) PROVE UNCHANGED MailboxOf!vars
  BY <1>0, <1>7 DEF Acquire, serving, Undelivered
<1>8. ASSUME runner, ~runner', UNCHANGED <<Undelivered, delivered, blocked, object>>
      PROVE  MailboxOf!Next
  <2>1. MailboxStatus = "open" /\ MailboxStatus' = "closed"
    BY <1>a, <1>b, <1>8 DEF RunnerIsLive
  <2>2. QED
    BY <1>8, <2>1 DEF MailboxOf!Next, MailboxOf!Close
<1>9. ASSUME NEW c \in Callers, Delete(c) PROVE [MailboxOf!Next]_(MailboxOf!vars)
  <2>1. ~runner' /\ UNCHANGED <<Undelivered, delivered, blocked, object>>
    BY <1>9 DEF Delete, NoRunner, serving, Undelivered
  <2>2. ~runner => UNCHANGED runner
    BY <1>9, <1>a DEF Delete, NoRunner, TypeOK
  <2>3. QED
    BY <1>0, <1>8, <2>1, <2>2
<1>10. ASSUME NEW c \in Callers, NEW abort \in BOOLEAN, Release(c, abort)
       PROVE  [MailboxOf!Next]_(MailboxOf!vars)
  <2>1. /\ runner /\ (UNCHANGED runner \/ ~runner')
        /\ UNCHANGED <<Undelivered, delivered, blocked, object>>
    BY <1>10 DEF Release, NoRunner, serving, Undelivered
  <2>2. QED
    BY <1>0, <1>8, <2>1
<1>11. ASSUME js = "idle", NEW last \in BOOLEAN, TakeQueue(last)
       PROVE  [MailboxOf!Next]_(MailboxOf!vars)
  <2>1. /\ js' = "drain" /\ batch' = queue /\ queue' = <<>> /\ (runner' <=> runner /\ ~last)
        /\ UNCHANGED <<delivered, object, blocked>>
    BY <1>11 DEF TakeQueue
  <2>2. batch = <<>>
    BY <1>a, <1>11 DEF JSThread
  <2>3. Undelivered = queue /\ Undelivered' = queue
    BY <1>a, <1>11, <2>1, <2>2, BothParts DEF Undelivered
  <2>4. runner \in BOOLEAN /\ runner' \in BOOLEAN
    BY <1>a, <1>11 DEF TypeOK, TakeQueue
  <2>5. CASE runner /\ last
    BY <1>8, <2>1, <2>3, <2>5
  <2>6. CASE ~(runner /\ last)
    <3>1. runner' = runner
      BY <2>1, <2>4, <2>6, Zenon
    <3>2. QED
      BY <1>0, <2>1, <2>3, <3>1
  <2>7. QED
    BY <2>5, <2>6
<1>12. CASE RunTask
  <2>1. js = "idle"
    BY <1>12 DEF RunTask
  <2>2. CASE RunCompletion
    <3>1. js' = "complete" /\ UNCHANGED <<tsfn, batch, delivered>>
      BY <2>2 DEF RunCompletion, BeginComplete
    <3>2. QED
      BY <1>0, <2>1, <3>1 DEF tsfn, Undelivered
  <2>3. CASE \E last \in BOOLEAN : TakeQueue(last)
    BY <1>11, <2>1, <2>3
  <2>4. QED
    BY <1>12, <2>2, <2>3 DEF RunTask
<1>13. CASE CloseRunner
  BY <1>11, <1>13 DEF CloseRunner
<1>14. ASSUME NEW w \in Works, CloseWork(w) PROVE UNCHANGED MailboxOf!vars
  <2>1. js = "idle" /\ js' = "complete" /\ UNCHANGED <<tsfn, batch, delivered>>
    BY <1>14 DEF CloseWork, BeginComplete
  <2>2. QED
    BY <1>0, <2>1 DEF tsfn, Undelivered
<1>15. CASE EndComplete
  <2>1. js = "complete" /\ js' = "idle" /\ UNCHANGED <<tsfn, batch, delivered>>
    BY <1>15 DEF EndComplete
  <2>2. QED
    BY <1>0, <2>1 DEF tsfn, Undelivered
<1>16. CASE BeginTask
  <2>1. /\ js = "drain" /\ js' = "call" /\ batch # <<>>
        /\ delivered' = Append(delivered, Head(batch)) /\ UNCHANGED <<tsfn, batch>>
    BY <1>16 DEF BeginTask
  <2>2. Undelivered = batch \o queue /\ Undelivered' = Tail(batch) \o queue
    BY <2>1 DEF tsfn, Undelivered
  <2>3. /\ Undelivered # <<>> /\ Head(Undelivered) = Head(batch)
        /\ Undelivered' = Tail(Undelivered)
    BY <1>a, <2>1, <2>2, HeadOfBoth
  <2>4. object = "live"
    BY <1>a, <2>1 DEF JSThread
  <2>5. MailboxStatus # "finalized" /\ UNCHANGED <<MailboxStatus, blocked>>
    BY <1>b, <2>1, <2>4 DEF tsfn
  <2>6. MailboxOf!Deliver
    BY <2>1, <2>3, <2>5 DEF MailboxOf!Deliver
  <2>7. QED
    BY <2>6 DEF MailboxOf!Next
<1>17. CASE EndTask
  <2>1. js = "call" /\ js' = "drain" /\ batch' = Tail(batch) /\ UNCHANGED <<tsfn, delivered>>
    BY <1>17 DEF EndTask
  <2>2. QED
    BY <1>0, <2>1 DEF tsfn, Undelivered
<1>18. CASE EndDrain
  <2>1. js = "drain" /\ js' \in {"finalize", "idle"} /\ UNCHANGED <<tsfn, batch, delivered>>
    BY <1>18 DEF EndDrain, serving
  <2>2. QED
    BY <1>0, <2>1 DEF tsfn, Undelivered
<1>19. CASE EndFinalize
  <2>1. /\ js = "finalize" /\ js' = "idle" /\ object' = "deleted"
        /\ UNCHANGED <<runner, queue, blocked, batch, delivered>>
    BY <1>19 DEF EndFinalize
  <2>2. batch = <<>> /\ queue = <<>> /\ object = "live" /\ ~runner
    BY <1>a, <2>1 DEF JSThread, RunnerIsLive
  <2>3. Undelivered = <<>> /\ Undelivered' = <<>>
    BY <1>a, <2>1, <2>2, BothParts DEF Undelivered
  <2>4. MailboxStatus = "closed" /\ MailboxStatus' = "finalized"
    BY <1>b, <2>1, <2>2
  <2>5. MailboxOf!Finalize
    BY <2>1, <2>3, <2>4 DEF MailboxOf!Finalize
  <2>6. QED
    BY <2>5 DEF MailboxOf!Next
<1>20. QED
  BY <1>2, <1>3, <1>4, <1>5, <1>6, <1>7, <1>9, <1>10, <1>12, <1>13, <1>14, <1>15, <1>16, <1>17,
     <1>18, <1>19
     DEF Next, JSStep, ModuleStep, Ended

\* An item that the function accepts is passed to call_js_cb_ once and in order, a blocking
\* call returns when its item has been, and the finalizer is called last, once.
THEOREM RuntimeIsMailbox == Spec => ImplementsMailbox
<1>1. ASSUME Init PROVE MailboxOf!Init
  <2>1. RunnerIsLive /\ object = "none"
    BY <1>1, InitialRuntime DEF RuntimeInv, Init
  <2>2. MailboxStatus = "none"
    BY <2>1, MailboxStatusIs
  <2>3. Undelivered = <<>>
    BY <1>1, EmptySeq, ConcatEmptySeq DEF Init, Undelivered
  <2>4. QED
    BY <1>1, <2>2, <2>3 DEF Init, MailboxOf!Init
<1>2. RuntimeInv /\ [Next]_vars => [MailboxOf!Next]_(MailboxOf!vars)
  BY StepIsMailbox
<1>3. QED
  BY <1>1, <1>2, RuntimeAlways, PTL DEF Spec, ImplementsMailbox, MailboxOf!Spec
=============================================================================
