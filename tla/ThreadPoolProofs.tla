-------------------------- MODULE ThreadPoolProofs --------------------------
(***************************************************************************)
(* What MplThreadPool guarantees for any number of threads and tasks.      *)
(***************************************************************************)
EXTENDS ThreadPool, FiniteSetTheorems, TLAPS

Born == Workers \ At("unborn")

\* No more threads are active than may be; between them, as many as were created.
Limits ==
  /\ ~exited => currActive <= maxActive
  /\ maxActive + (IF client = "counting" THEN 1 ELSE 0) <= Cardinality(Born)
  /\ client \notin {"spawning", "counting"} => maxActive >= 1

\* What the flags say about where the client is.
Phases ==
  /\ exited <=> client \in {"joining", "deleted"}
  /\ running => client \in {"client", "help", "helpExec", "awaitDone", "doneWaiting",
                            "finishStop", "joining", "deleted"}
  /\ armed => client \in {"client", "joining", "deleted"}
  /\ At("unborn") # {} => client \in {"spawning", "counting"}
  /\ At("left") # {} => exited

\* A thread holds a task exactly while it executes one.
HeldWhileExecuted ==
  /\ \A w \in Workers : holds[w] # NoTask <=> pc[w] = "exec"
  /\ helping # NoTask <=> client \in {"helpExec", "drainExec"}

Positions == 1..Len(taskQueue)

\* A task is in the queue once, or held by one thread, and its state says so.
TasksAreSomewhere ==
  /\ \A t \in Tasks : taskState[t] = "queued" <=> \E i \in Positions : taskQueue[i] = t
  /\ \A i, j \in Positions : taskQueue[i] = taskQueue[j] => i = j
  /\ \A t \in Tasks :
       taskState[t] = "running" <=> (t = helping \/ \E w \in Workers : holds[w] = t)
  /\ \A v, w \in Workers : holds[v] = holds[w] => v = w \/ holds[v] = NoTask
  /\ \A w \in Workers : holds[w] = helping => helping = NoTask

\* While notify_func is called every active thread but the caller waits.
CallerIsLast ==
  At("calling") # {} =>
    /\ running /\ ~exited /\ taskQueue = <<>> /\ currWaiting = maxActive
    /\ client \in {"client", "help"}

\* As long as more threads may be active, none sleeps: those that are not are waking up.
EnoughAwake == running /\ ~exited /\ currActive < maxActive => At("sleeping") = {}

\* Somebody is going to look into a queue that is not empty.
SomebodyLooks ==
  running /\ ~exited /\ taskQueue # <<>> =>
    \/ \E w \in Workers : pc[w] \in {"top", "waitWake", "exec"}
    \/ client \in {"help", "helpExec"}
    \/ currActive < maxActive

PoolInv ==
  /\ TypeOK /\ CountersExact /\ Limits /\ Phases /\ HeldWhileExecuted /\ TasksAreSomewhere
  /\ StoppedIsQuiet /\ CallerIsLast /\ EnoughAwake /\ SomebodyLooks

-----------------------------------------------------------------------------
(* Counting threads.                                                       *)

ActivePCs == {"top", "waiting", "waitWake", "calling", "exec"}
WaitingPCs == {"waiting", "waitWake", "calling"}

\* What one thread that joins or leaves a set of threads does to its cardinality.
LEMMA Recount ==
  ASSUME NEW S \in SUBSET Workers, NEW w \in Workers
  PROVE  /\ Cardinality(S) \in Nat
         /\ Cardinality(S \cup {w}) = Cardinality(S) + 1 - (IF w \in S THEN 1 ELSE 0)
         /\ Cardinality(S \ {w}) = Cardinality(S) - (IF w \in S THEN 1 ELSE 0)
<1>1. IsFiniteSet(S)
  BY FS_Subset, PoolAssumption
<1>2. Cardinality(S) \in Nat
  BY <1>1, FS_CardinalityType
<1>3. Cardinality(S \cup {w}) = IF w \in S THEN Cardinality(S) ELSE Cardinality(S) + 1
  BY <1>1, FS_AddElement
<1>4. Cardinality(S \ {w}) = IF w \in S THEN Cardinality(S) - 1 ELSE Cardinality(S)
  BY <1>1, FS_RemoveElement
<1>5. QED
  BY <1>2, <1>3, <1>4

\* One thread goes on, and is counted where it comes to.
LEMMA WorkerMoves ==
  ASSUME TypeOK, NEW w \in Workers, NEW to \in WorkerPCs \ {"unborn"},
         pc' = [pc EXCEPT ![w] = to]
  PROVE  /\ Cardinality(Active) \in Nat /\ Cardinality(Waiting) \in Nat
         /\ Cardinality(Active') = Cardinality(Active)
              + (IF to \in ActivePCs THEN 1 ELSE 0) - (IF pc[w] \in ActivePCs THEN 1 ELSE 0)
         /\ Cardinality(Waiting') = Cardinality(Waiting)
              + (IF to \in WaitingPCs THEN 1 ELSE 0) - (IF pc[w] \in WaitingPCs THEN 1 ELSE 0)
         /\ Cardinality(Born') = Cardinality(Born) + (IF pc[w] = "unborn" THEN 1 ELSE 0)
<1>1. /\ Active' = IF to \in ActivePCs THEN Active \cup {w} ELSE Active \ {w}
      /\ Active \in SUBSET Workers /\ (w \in Active <=> pc[w] \in ActivePCs)
  BY DEF TypeOK, Active, ActivePCs, WorkerPCs
<1>2. /\ Waiting' = IF to \in WaitingPCs THEN Waiting \cup {w} ELSE Waiting \ {w}
      /\ Waiting \in SUBSET Workers /\ (w \in Waiting <=> pc[w] \in WaitingPCs)
  BY DEF TypeOK, Waiting, WaitingPCs, WorkerPCs, At
<1>3. /\ Born' = Born \cup {w}
      /\ Born \in SUBSET Workers /\ (w \in Born <=> pc[w] # "unborn")
  BY DEF TypeOK, Born, At, WorkerPCs
<1>5. /\ Cardinality(Active) \in Nat
      /\ Cardinality(Active') = Cardinality(Active)
           + (IF to \in ActivePCs THEN 1 ELSE 0) - (IF w \in Active THEN 1 ELSE 0)
  <2>1. Active \in SUBSET Workers
    BY <1>1
  <2>2. /\ Cardinality(Active) \in Nat
        /\ Cardinality(Active \cup {w}) = Cardinality(Active) + 1 - (IF w \in Active THEN 1 ELSE 0)
        /\ Cardinality(Active \ {w}) = Cardinality(Active) - (IF w \in Active THEN 1 ELSE 0)
    BY <2>1, Recount
  <2>3. CASE to \in ActivePCs
    <3>1. Active' = Active \cup {w} BY <1>1, <2>3
    <3>2. QED
      BY <2>2, <2>3, <3>1
  <2>4. CASE to \notin ActivePCs
    <3>1. Active' = Active \ {w} BY <1>1, <2>4
    <3>2. QED
      BY <2>2, <2>4, <3>1
  <2>5. QED
    BY <2>3, <2>4
<1>6. /\ Cardinality(Waiting) \in Nat
      /\ Cardinality(Waiting') = Cardinality(Waiting)
           + (IF to \in WaitingPCs THEN 1 ELSE 0) - (IF w \in Waiting THEN 1 ELSE 0)
  <2>1. Waiting \in SUBSET Workers
    BY <1>2
  <2>2. /\ Cardinality(Waiting) \in Nat
        /\ Cardinality(Waiting \cup {w}) = Cardinality(Waiting) + 1 - (IF w \in Waiting THEN 1 ELSE 0)
        /\ Cardinality(Waiting \ {w}) = Cardinality(Waiting) - (IF w \in Waiting THEN 1 ELSE 0)
    BY <2>1, Recount
  <2>3. CASE to \in WaitingPCs
    <3>1. Waiting' = Waiting \cup {w} BY <1>2, <2>3
    <3>2. QED
      BY <2>2, <2>3, <3>1
  <2>4. CASE to \notin WaitingPCs
    <3>1. Waiting' = Waiting \ {w} BY <1>2, <2>4
    <3>2. QED
      BY <2>2, <2>4, <3>1
  <2>5. QED
    BY <2>3, <2>4
<1>7. /\ Cardinality(Born) \in Nat
      /\ Cardinality(Born') = Cardinality(Born) + 1 - (IF w \in Born THEN 1 ELSE 0)
  BY <1>3, Recount
<1>8. QED
  BY <1>1, <1>2, <1>3, <1>5, <1>6, <1>7

-----------------------------------------------------------------------------
(* Types.                                                                  *)

\* The client is woken out of three of its states, and into one of them.
LEMMA WakingTyped ==
  ASSUME NEW c \in ClientPCs
  PROVE  /\ WakeStopper(c) \in ClientPCs /\ WakeFinisher(c) \in ClientPCs
         /\ c = "stopWaiting" => WakeStopper(c) = "stopCheck"
         /\ c = "finishWaiting" => WakeStopper(c) = "finishCheck"
         /\ c \notin {"stopWaiting", "finishWaiting"} => WakeStopper(c) = c
         /\ c = "doneWaiting" => WakeFinisher(c) = "awaitDone"
         /\ c # "doneWaiting" => WakeFinisher(c) = c
  BY DEF ClientPCs, WakeStopper, WakeFinisher

\* A queue that is not empty has a first task and a rest.
LEMMA QueueSplits ==
  ASSUME taskQueue \in Seq(Tasks), taskQueue # <<>>
  PROVE  /\ Len(taskQueue) \in Nat \ {0} /\ Len(Tail(taskQueue)) = Len(taskQueue) - 1
         /\ Head(taskQueue) = taskQueue[1] /\ Head(taskQueue) \in Tasks
         /\ Tail(taskQueue) \in Seq(Tasks)
         /\ \A i \in 1..Len(taskQueue) - 1 : Tail(taskQueue)[i] = taskQueue[i + 1]
  OBVIOUS

\* The counters as the worker has set them aside, when it looks for a task or sleeps.
LEMMA LookingTyped ==
  ASSUME TypeOK, NEW w \in Workers, NEW active \in Int, NEW waiting \in Int, waiting >= 0,
         Sleep(w, active) \/ LookForTask(w, active, waiting), UNCHANGED workerUnchanged
  PROVE  TypeOK'
<1> USE DEF TypeOK, workerUnchanged, queueVars, flags
<1>1. CASE Sleep(w, active)
  BY <1>1, WakingTyped DEF Sleep, WorkerPCs
<1>2. CASE WaitForTask(w, active, waiting)
  BY <1>2, WakingTyped DEF WaitForTask, WorkerPCs
<1>3. CASE TakeTask(w, active, waiting)
  BY <1>3, QueueSplits DEF TakeTask, WorkerPCs, TaskOrNone
<1>4. CASE TakeNothing(w, active, waiting)
  BY <1>4 DEF TakeNothing, WorkerPCs
<1>5. QED
  BY <1>1, <1>2, <1>3, <1>4 DEF LookForTask

LEMMA WorkerTyped ==
  ASSUME TypeOK, CountersExact, NEW w \in Workers, WorkerStep(w) \/ SpuriousWorkerWake(w)
  PROVE  TypeOK'
<1> /\ currActive \in Int /\ currActive + 1 \in Int /\ currWaiting \in Int
    /\ currWaiting >= 0 /\ currWaiting - 1 \in Int
  BY DEF TypeOK
<1>1. CASE EnterLoop(w)
  <2>1. Sleep(w, currActive) \/ LookForTask(w, currActive, currWaiting)
    BY <1>1 DEF EnterLoop, LookForTask
  <2>2. QED
    BY <1>1, <2>1, LookingTyped DEF EnterLoop
<1>2. CASE WakeFromSleep(w)
  <2>1. Sleep(w, currActive + 1) \/ LookForTask(w, currActive + 1, currWaiting)
    BY <1>2 DEF WakeFromSleep
  <2>2. QED
    BY <1>2, <2>1, LookingTyped DEF WakeFromSleep
<1>3. CASE WakeFromWait(w)
  <2>1. w \in Waiting /\ Waiting \in SUBSET Workers
    BY <1>3 DEF WakeFromWait, Waiting, At
  <2>2. IsFiniteSet(Waiting)
    BY <2>1, FS_Subset, PoolAssumption
  <2>3. currWaiting # 0
    BY <2>1, <2>2, FS_EmptySet DEF CountersExact
  <2>4. currWaiting - 1 >= 0
    BY <2>3 DEF TypeOK
  <2>5. LookForTask(w, currActive, currWaiting - 1)
    BY <1>3 DEF WakeFromWait
  <2>6. QED
    BY <1>3, <2>4, <2>5, LookingTyped DEF WakeFromWait
<1>4. CASE CallNotifyFunc(w)
  BY <1>4, WakingTyped DEF CallNotifyFunc, TypeOK, flags, queueVars, WorkerPCs
<1>5. CASE EndTask(w)
  BY <1>5 DEF EndTask, TypeOK, flags, queueVars, WorkerPCs, TaskOrNone
<1>6. CASE Leave(w)
  BY <1>6, WakingTyped DEF Leave, TypeOK, flags, queueVars, WorkerPCs
<1>7. CASE SpuriousWorkerWake(w)
  BY <1>7, PoolAssumption DEF SpuriousWorkerWake, TypeOK, flags, queueVars, WorkerPCs
<1>8. QED
  BY <1>1, <1>2, <1>3, <1>4, <1>5, <1>6, <1>7 DEF WorkerStep

LEMMA ClientTyped ==
  ASSUME TypeOK, ClientStep \/ ClientCall \/ SpuriousClientWake
                 \/ \E w \in Workers, t \in Tasks : AddTaskFromWorker(w, t)
  PROVE  TypeOK'
<1> USE DEF TypeOK, queueVars, flags
<1>1. ASSUME NEW w \in Workers, SpawnThread(w) PROVE TypeOK'
  BY <1>1 DEF SpawnThread, WorkerPCs, ClientPCs
<1>2. CASE CountThread
  BY <1>2 DEF CountThread, ClientPCs
<1>3. CASE AwaitDone \/ StopAgain \/ WaitFinish
  BY <1>3 DEF AwaitDone, StopAgain, WaitFinish, ClientPCs
<1>4. CASE SpuriousClientWake
  <2>1. client' \in ClientPCs
    BY <1>4, WakingTyped DEF SpuriousClientWake
  <2>2. QED
    BY <1>4, <2>1, PoolAssumption DEF SpuriousClientWake
<1>5. CASE Help \/ Drain
  BY <1>5, QueueSplits DEF Help, Drain, TakeAsClient, ClientPCs, TaskOrNone
<1>6. CASE EndOwnTask
  BY <1>6 DEF EndOwnTask, ClientPCs, TaskOrNone
<1>7. CASE Stop \/ Start \/ Exit
  BY <1>7 DEF Stop, Start, Exit, WakeAll, WorkerPCs, ClientPCs
<1>8. CASE JoinAndClear
  BY <1>8 DEF JoinAndClear, ClientPCs
<1>9. ASSUME NEW n \in 1..Cardinality(Workers), SetMaxActiveThreadNum(n) PROVE TypeOK'
  BY <1>9, PoolAssumption, FS_CardinalityType DEF SetMaxActiveThreadNum
<1>10. ASSUME NEW f \in BOOLEAN, SetNotifyFunc(f) PROVE TypeOK'
  BY <1>10 DEF SetNotifyFunc
<1>11. ASSUME NEW t \in Tasks, PushTask(t) PROVE TypeOK'
  BY <1>11 DEF PushTask, NotifyOneWaiting, At, WorkerPCs
<1>12. QED
  BY <1>1, <1>2, <1>3, <1>4, <1>5, <1>6, <1>7, <1>8, <1>9, <1>10, <1>11
     DEF ClientStep, ClientCall, AddTask, AddTaskFromClient, AddTaskFromWorker

-----------------------------------------------------------------------------
(* What a step of a worker does to the pool, whichever action it is.       *)

\* The client is where it was, or woken from where it waited.
Woken ==
  \/ client' = client
  \/ client = "stopWaiting" /\ client' = "stopCheck"
  \/ client = "finishWaiting" /\ client' = "finishCheck"
  \/ client = "doneWaiting" /\ client' = "awaitDone"

\* w goes on to `to`, counted where it comes to, for the reasons that take it there.
Moves(w, to) ==
  /\ pc[w] # "unborn" /\ pc' = [pc EXCEPT ![w] = to] /\ Woken
  /\ currActive' = currActive + (IF to \in ActivePCs THEN 1 ELSE 0)
                              - (IF pc[w] \in ActivePCs THEN 1 ELSE 0)
  /\ currWaiting' = currWaiting + (IF to \in WaitingPCs THEN 1 ELSE 0)
                                - (IF pc[w] \in WaitingPCs THEN 1 ELSE 0)
  /\ UNCHANGED <<flags, armed, helping>>
  /\ to \in {"sleepWake", "waitWake"} \/ pc[w] \in {"calling", "exec"} \/ MutexFree
  /\ \/ to = "exec" /\ pc[w] \in {"top", "sleepWake", "waitWake"}
        /\ running /\ ~exited /\ taskQueue # <<>> /\ taskQueue' = Tail(taskQueue)
        /\ holds' = [holds EXCEPT ![w] = Head(taskQueue)]
        /\ taskState' = [taskState EXCEPT ![Head(taskQueue)] = "running"]
     \/ to = "top" /\ pc[w] = "exec" /\ taskQueue' = taskQueue
        /\ holds' = [holds EXCEPT ![w] = NoTask]
        /\ taskState' = [taskState EXCEPT ![holds[w]] = "done"]
     \/ to # "exec" /\ pc[w] # "exec" /\ UNCHANGED <<holds, queueVars>>
  /\ to = "top" => pc[w] \in {"exec", "sleepWake", "waitWake"}
                   /\ (pc[w] = "exec" \/ ~running \/ exited)
  /\ to = "sleeping" => pc[w] \in {"top", "sleepWake"} /\ ~exited
                        /\ (currActive' >= maxActive \/ ~running)
  /\ to = "sleepWake" => pc[w] = "sleeping"
  /\ to = "waiting" => pc[w] = "calling" \/ (running /\ ~exited /\ taskQueue = <<>>)
  /\ to = "waitWake" => pc[w] = "waiting"
  /\ to = "calling" => running /\ ~exited /\ taskQueue = <<>> /\ armed
                       /\ currWaiting' = maxActive
  /\ to = "left" => exited
  /\ pc[w] = "sleeping" => to = "sleepWake"
  /\ pc[w] = "sleepWake" => to = "sleeping" \/ exited
                          \/ (running /\ currActive' <= maxActive)

LEMMA LookingMoves ==
  ASSUME TypeOK, NEW w \in Workers, NEW active \in Int, NEW waiting \in Int,
         UNCHANGED workerUnchanged, MutexFree,
         active = currActive + (IF pc[w] \in ActivePCs THEN 0 ELSE 1),
         waiting = currWaiting - (IF pc[w] \in WaitingPCs THEN 1 ELSE 0),
         \/ pc[w] = "top" /\ ~exited /\ ~MaySleep(active)
            /\ (WaitForTask(w, active, waiting) \/ TakeTask(w, active, waiting))
         \/ pc[w] = "sleepWake" /\ ~MaySleep(active) /\ LookForTask(w, active, waiting)
         \/ pc[w] = "waitWake" /\ LookForTask(w, active, waiting)
         \/ pc[w] \in {"top", "sleepWake"} /\ Sleep(w, active)
  PROVE  \E to \in WorkerPCs \ {"unborn"} : Moves(w, to)
<1> USE DEF Moves, workerUnchanged, flags, queueVars, ActivePCs, WaitingPCs
<1>0. client \in ClientPCs
  BY DEF TypeOK
<1>a. client' = client \/ client' = WakeStopper(client) \/ client' = WakeFinisher(client)
      => Woken
  BY <1>0, WakingTyped DEF Woken
<1>1. CASE pc[w] \in {"top", "sleepWake"} /\ Sleep(w, active)
  <2>1. Woken
    BY <1>1, <1>a DEF Sleep
  <2>2. Moves(w, "sleeping")
    BY <1>1, <2>1 DEF Sleep, MaySleep, TypeOK
  <2>3. QED
    BY <2>2 DEF WorkerPCs
<1>2. CASE pc[w] \in {"top", "sleepWake", "waitWake"} /\ TakeTask(w, active, waiting)
           /\ (pc[w] # "waitWake" => ~MaySleep(active))
  <2>1. Moves(w, "exec")
    BY <1>2, <1>a DEF TakeTask, MaySleep, TypeOK
  <2>2. QED
    BY <2>1 DEF WorkerPCs
<1>3. CASE pc[w] \in {"sleepWake", "waitWake"} /\ TakeNothing(w, active, waiting)
           /\ (pc[w] # "waitWake" => ~MaySleep(active))
  <2>1. Moves(w, "top")
    BY <1>3, <1>a DEF TakeNothing, MaySleep, TypeOK
  <2>2. QED
    BY <2>1 DEF WorkerPCs
<1>4. CASE pc[w] \in {"top", "sleepWake", "waitWake"} /\ WaitForTask(w, active, waiting)
           /\ (pc[w] # "waitWake" => ~MaySleep(active))
  <2>1. Woken
    BY <1>4, <1>a DEF WaitForTask
  <2>2. Moves(w, "waiting") \/ Moves(w, "calling")
    BY <1>4, <2>1 DEF WaitForTask, LastToWait, MaySleep, TypeOK
  <2>3. QED
    BY <2>2 DEF WorkerPCs
<1>5. QED
  BY <1>1, <1>2, <1>3, <1>4 DEF LookForTask

LEMMA WorkerMoved ==
  ASSUME TypeOK, NEW w \in Workers, WorkerStep(w) \/ SpuriousWorkerWake(w)
  PROVE  \E to \in WorkerPCs \ {"unborn"} : Moves(w, to)
<1> /\ currActive \in Int /\ currActive + 1 \in Int /\ currWaiting \in Int
    /\ currWaiting - 1 \in Int /\ client \in ClientPCs
  BY DEF TypeOK
<1>a. client' = client \/ client' = WakeStopper(client) \/ client' = WakeFinisher(client)
      => Woken
  BY WakingTyped DEF Woken
<1>1. CASE EnterLoop(w)
  BY <1>1, LookingMoves DEF EnterLoop, ActivePCs, WaitingPCs
<1>2. CASE WakeFromSleep(w)
  BY <1>2, LookingMoves DEF WakeFromSleep, ActivePCs, WaitingPCs
<1>3. CASE WakeFromWait(w)
  BY <1>3, LookingMoves DEF WakeFromWait, ActivePCs, WaitingPCs
<1>4. CASE CallNotifyFunc(w)
  <2>1. Moves(w, "waiting")
    BY <1>4, <1>a DEF CallNotifyFunc, Moves, flags, queueVars, ActivePCs, WaitingPCs, TypeOK
  <2>2. QED
    BY <2>1 DEF WorkerPCs
<1>5. CASE EndTask(w)
  <2>1. Moves(w, "top")
    BY <1>5, <1>a DEF EndTask, Moves, flags, ActivePCs, WaitingPCs, TypeOK
  <2>2. QED
    BY <2>1 DEF WorkerPCs
<1>6. CASE Leave(w)
  <2>0. Woken
    BY <1>6, <1>a DEF Leave
  <2>1. Moves(w, "left")
    BY <1>6, <2>0 DEF Leave, Moves, flags, queueVars, ActivePCs, WaitingPCs, TypeOK
  <2>2. QED
    BY <2>1 DEF WorkerPCs
<1>7. CASE SpuriousWorkerWake(w)
  <2>1. Moves(w, "sleepWake") \/ Moves(w, "waitWake")
    BY <1>7, <1>a
       DEF SpuriousWorkerWake, Moves, flags, queueVars, ActivePCs, WaitingPCs, TypeOK
  <2>2. QED
    BY <2>1 DEF WorkerPCs
<1>8. QED
  BY <1>1, <1>2, <1>3, <1>4, <1>5, <1>6, <1>7 DEF WorkerStep

\* A step of the client in which nothing but its own state changes.
ClientGoesOn ==
  /\ AwaitDone \/ StopAgain \/ WaitFinish \/ SpuriousClientWake
  /\ UNCHANGED <<flags, queueVars, currActive, currWaiting, armed, pc, holds, helping>>

\* The kinds of step, as the proofs below tell them apart.
LEMMA StepKinds ==
  ASSUME TypeOK, [Next]_vars
  PROVE  \/ \E w \in Workers : \E to \in WorkerPCs \ {"unborn"} : Moves(w, to)
         \/ \E t \in Tasks : /\ PushTask(t)
                             /\ \/ client \in {"client", "helpExec", "drainExec"}
                                \/ \E w \in Workers : pc[w] = "exec"
         \/ \E w \in Workers : SpawnThread(w)
         \/ CountThread \/ Help \/ Drain \/ EndOwnTask \/ ClientGoesOn
         \/ Stop \/ Start \/ Exit \/ JoinAndClear
         \/ \E n \in 1..Cardinality(Workers) : SetMaxActiveThreadNum(n)
         \/ \E f \in BOOLEAN : SetNotifyFunc(f)
         \/ UNCHANGED vars
<1>1. AwaitDone \/ StopAgain \/ WaitFinish \/ SpuriousClientWake => ClientGoesOn
  BY DEF ClientGoesOn, AwaitDone, StopAgain, WaitFinish, SpuriousClientWake, flags, queueVars
<1>2. QED
  BY <1>1, WorkerMoved
     DEF Next, ClientStep, ClientCall, AddTask, AddTaskFromClient, AddTaskFromWorker

-----------------------------------------------------------------------------
(* Counting.                                                               *)

\* The counters stay exact.
LEMMA CountersKept ==
  ASSUME PoolInv, [Next]_vars
  PROVE  CountersExact'
<1>a. TypeOK /\ CountersExact
  BY DEF PoolInv
<1>b. currActive \in Int /\ currWaiting \in Nat /\ client \in ClientPCs
  BY <1>a DEF TypeOK
<1>1. ASSUME NEW w \in Workers, NEW to \in WorkerPCs \ {"unborn"}, Moves(w, to)
      PROVE  CountersExact'
  <2>1. /\ Cardinality(Active) \in Nat /\ Cardinality(Waiting) \in Nat
        /\ Cardinality(Active') = Cardinality(Active)
             + (IF to \in ActivePCs THEN 1 ELSE 0) - (IF pc[w] \in ActivePCs THEN 1 ELSE 0)
        /\ Cardinality(Waiting') = Cardinality(Waiting)
             + (IF to \in WaitingPCs THEN 1 ELSE 0) - (IF pc[w] \in WaitingPCs THEN 1 ELSE 0)
    BY <1>1, <1>a, WorkerMoves DEF Moves
  <2>2. client' = "counting" <=> client = "counting"
    BY <1>1 DEF Moves, Woken
  <2>3. QED
    BY <1>1, <1>a, <1>b, <2>1, <2>2 DEF Moves, CountersExact
<1>2. ASSUME NEW w \in Workers, SpawnThread(w)
      PROVE  CountersExact'
  <2>1. "top" \in WorkerPCs \ {"unborn"} /\ pc' = [pc EXCEPT ![w] = "top"]
    BY <1>2 DEF SpawnThread, WorkerPCs
  <2>2. /\ Cardinality(Active) \in Nat /\ Cardinality(Waiting) \in Nat
        /\ Cardinality(Active') = Cardinality(Active)
          + (IF "top" \in ActivePCs THEN 1 ELSE 0) - (IF pc[w] \in ActivePCs THEN 1 ELSE 0)
        /\ Cardinality(Waiting') = Cardinality(Waiting)
          + (IF "top" \in WaitingPCs THEN 1 ELSE 0) - (IF pc[w] \in WaitingPCs THEN 1 ELSE 0)
    BY <1>a, <2>1, WorkerMoves
  <2>3. /\ Cardinality(Active') = Cardinality(Active) + 1
        /\ Cardinality(Waiting') = Cardinality(Waiting)
    BY <1>2, <2>2 DEF SpawnThread, ActivePCs, WaitingPCs
  <2>4. QED
    BY <1>2, <1>a, <1>b, <2>2, <2>3 DEF SpawnThread, CountersExact
<1>3. CASE /\ UNCHANGED <<currActive, currWaiting>> /\ Active' = Active /\ Waiting' = Waiting
           /\ client' = "counting" <=> client = "counting"
  BY <1>3, <1>a DEF CountersExact
<1>4. CASE CountThread
  <2>1. Active' = Active /\ Waiting' = Waiting
    BY <1>4 DEF CountThread, Active, Waiting, At
  <2>2. Cardinality(Active) \in Nat
    BY FS_Subset, FS_CardinalityType, PoolAssumption DEF Active
  <2>3. QED
    BY <1>4, <1>a, <1>b, <2>1, <2>2 DEF CountThread, CountersExact
<1>5. CASE Help \/ Drain \/ EndOwnTask \/ ClientGoesOn \/ JoinAndClear
  <2>1. UNCHANGED <<pc, currActive, currWaiting>>
    BY <1>5 DEF Help, Drain, EndOwnTask, ClientGoesOn, JoinAndClear
  <2>2. client # "counting" /\ client' # "counting"
    BY <1>5, WakingTyped, <1>b
       DEF Help, Drain, TakeAsClient, EndOwnTask, JoinAndClear, ClientGoesOn, AwaitDone,
           StopAgain, WaitFinish, SpuriousClientWake
  <2>3. QED
    BY <2>1, <2>2, <1>3 DEF Active, Waiting, At
<1>6. CASE Stop \/ Start \/ Exit \/ \E t \in Tasks : PushTask(t)
  <2>1. \A w \in Workers : /\ pc'[w] \in ActivePCs <=> pc[w] \in ActivePCs
                           /\ pc'[w] \in WaitingPCs <=> pc[w] \in WaitingPCs
                           /\ pc'[w] \in WorkerPCs
    BY <1>6, <1>a DEF TypeOK, Stop, Start, Exit, PushTask, NotifyOneWaiting, WakeAll, At,
                      ActivePCs, WaitingPCs, WorkerPCs
  <2>2. Active' = Active /\ Waiting' = Waiting
    BY <2>1, <1>a DEF Active, Waiting, At, ActivePCs, WaitingPCs, WorkerPCs, TypeOK
  <2>3. /\ UNCHANGED <<currActive, currWaiting>>
        /\ client' = "counting" <=> client = "counting"
    BY <1>6 DEF Stop, Start, Exit, PushTask
  <2>4. QED
    BY <2>2, <2>3, <1>3
<1>7. ASSUME NEW n \in 1..Cardinality(Workers), SetMaxActiveThreadNum(n)
      PROVE  CountersExact'
  BY <1>7, <1>3 DEF SetMaxActiveThreadNum, Active, Waiting, At
<1>8. ASSUME NEW f \in BOOLEAN, SetNotifyFunc(f) PROVE CountersExact'
  BY <1>8, <1>3 DEF SetNotifyFunc, Active, Waiting, At
<1>9. CASE UNCHANGED vars
  BY <1>9, <1>a DEF vars, CountersExact, Active, Waiting, At
<1>10. QED
  BY <1>a, StepKinds, <1>1, <1>2, <1>4, <1>5, <1>6, <1>7, <1>8, <1>9

\* A thread's step, as the counts see it.
LEMMA MovesCount ==
  ASSUME TypeOK, NEW w \in Workers, NEW to \in WorkerPCs \ {"unborn"}, Moves(w, to)
  PROVE  /\ Cardinality(Born) \in Nat /\ Cardinality(Born') = Cardinality(Born)
         /\ \A v \in Workers : pc'[v] = IF v = w THEN to ELSE pc[v]
<1>1. /\ pc' = [pc EXCEPT ![w] = to] /\ pc[w] # "unborn"
      /\ \A v \in Workers : pc'[v] = IF v = w THEN to ELSE pc[v]
  BY DEF Moves, TypeOK
<1>2. Born' = Born
  BY <1>1 DEF Born, At
<1>3. Cardinality(Born) \in Nat
  BY FS_Subset, FS_CardinalityType, PoolAssumption DEF Born
<1>4. QED
  BY <1>1, <1>2, <1>3

\* The flags go on telling where the client is.
LEMMA PhasesKept ==
  ASSUME PoolInv, [Next]_vars
  PROVE  Phases'
<1>a. TypeOK /\ Phases /\ client \in ClientPCs
  BY DEF PoolInv, TypeOK
<1> USE <1>a DEF Phases, At, flags
<1>1. ASSUME NEW w \in Workers, NEW to \in WorkerPCs \ {"unborn"}, Moves(w, to)
      PROVE  Phases'
  BY <1>1, MovesCount DEF Moves, Woken
<1>2. ASSUME NEW t \in Tasks, PushTask(t) PROVE Phases'
  BY <1>2 DEF PushTask, NotifyOneWaiting, TypeOK
<1>3. ASSUME NEW w \in Workers, SpawnThread(w) PROVE Phases'
  BY <1>3 DEF SpawnThread, TypeOK
<1>4. CASE CountThread
  BY <1>4 DEF CountThread
<1>5. CASE Help \/ Drain \/ EndOwnTask
  BY <1>5 DEF Help, Drain, TakeAsClient, EndOwnTask
<1>6. CASE ClientGoesOn
  <2>1. \/ client = "awaitDone" /\ client' \in {"doneWaiting", "finishStop"}
        \/ client = "client" /\ ~armed /\ client' = "help"
        \/ client \in {"stopCheck", "finishCheck"}
           /\ client' \in {"stopWaiting", "finishWaiting", "client", "drain"}
        \/ client \in {"stopWaiting", "finishWaiting", "doneWaiting"} /\ Woken
    <3>1. WakeStopper(client) \in ClientPCs
      BY WakingTyped
    <3>2. QED
      BY <1>6, <3>1, WakingTyped
         DEF ClientGoesOn, AwaitDone, StopAgain, WaitFinish, SpuriousClientWake, Woken
  <2>2. UNCHANGED <<running, exited, armed, pc>>
    BY <1>6 DEF ClientGoesOn
  <2>3. QED
    BY <2>1, <2>2 DEF Woken
<1>7. CASE Stop \/ Start
  BY <1>7 DEF Stop, Start, WakeAll, TypeOK
<1>8. CASE Exit
  BY <1>8 DEF Exit, TypeOK
<1>9. CASE JoinAndClear
  BY <1>9 DEF JoinAndClear
<1>10. ASSUME NEW n \in 1..Cardinality(Workers), SetMaxActiveThreadNum(n) PROVE Phases'
  BY <1>10 DEF SetMaxActiveThreadNum
<1>11. ASSUME NEW f \in BOOLEAN, SetNotifyFunc(f) PROVE Phases'
  BY <1>11 DEF SetNotifyFunc
<1>12. CASE UNCHANGED vars
  BY <1>12 DEF vars
<1>13. QED
  BY <1>a, StepKinds, <1>1, <1>2, <1>3, <1>4, <1>5, <1>6, <1>7, <1>8, <1>9, <1>10, <1>11, <1>12

\* No thread is active in a pool that has stopped.
LEMMA QuietMeansNone ==
  ASSUME PoolInv, ~running, client \in {"client", "drain", "drainExec"}
  PROVE  currActive = 0
<1>1. Active = {}
  BY DEF PoolInv, StoppedIsQuiet, Active
<1>2. QED
  BY <1>1, FS_EmptySet DEF PoolInv, CountersExact

\* There are never more active threads than there may be.
LEMMA LimitsKept ==
  ASSUME PoolInv, [Next]_vars
  PROVE  Limits'
<1>a. TypeOK /\ Limits /\ Phases
  BY DEF PoolInv
<1>b. /\ currActive \in Int /\ maxActive \in Nat /\ client \in ClientPCs
      /\ pc \in [Workers -> WorkerPCs]
  BY <1>a DEF TypeOK
<1>c. Born \in SUBSET Workers /\ Cardinality(Born) \in Nat
  BY FS_Subset, FS_CardinalityType, PoolAssumption DEF Born
<1>1. ASSUME NEW w \in Workers, NEW to \in WorkerPCs \ {"unborn"}, Moves(w, to)
      PROVE  Limits'
  <2>1. Cardinality(Born') = Cardinality(Born)
    BY <1>a, <1>1, MovesCount
  <2>2. pc[w] # "unborn" /\ (pc[w] = "left" => exited)
    BY <1>a, <1>1 DEF Moves, Phases, At
  <2>3. /\ exited' = exited /\ maxActive' = maxActive /\ Woken
        /\ currActive' = currActive + (IF to \in ActivePCs THEN 1 ELSE 0)
                                    - (IF pc[w] \in ActivePCs THEN 1 ELSE 0)
        /\ pc[w] = "sleeping" => to = "sleepWake"
        /\ pc[w] = "sleepWake" => to = "sleeping" \/ exited \/ currActive' <= maxActive
    BY <1>1 DEF Moves, flags
  <2>4. ~exited => currActive' <= maxActive
    BY <1>a, <1>b, <2>2, <2>3 DEF Limits, ActivePCs, WorkerPCs
  <2>5. QED
    BY <1>a, <1>b, <1>c, <2>1, <2>3, <2>4 DEF Limits, Woken
<1>2. CASE UNCHANGED <<currActive, maxActive, exited, client, pc>>
  BY <1>2, <1>a DEF Limits, Born, At
<1>3. ASSUME NEW w \in Workers, SpawnThread(w) PROVE Limits'
  <2>1. Born' = Born \cup {w} /\ w \notin Born
    BY <1>3, <1>b DEF SpawnThread, Born, At
  <2>2. Cardinality(Born') = Cardinality(Born) + 1
    BY <2>1, <1>c, FS_AddElement, FS_Subset, PoolAssumption
  <2>3. QED
    BY <1>3, <1>a, <1>b, <1>c, <2>2 DEF SpawnThread, Limits, flags
<1>4. CASE CountThread
  <2>1. Born' = Born
    BY <1>4 DEF CountThread, Born, At
  <2>2. QED
    BY <1>4, <1>a, <1>b, <1>c, <2>1 DEF CountThread, Limits
<1>5. CASE /\ UNCHANGED <<currActive, maxActive>> /\ Born' = Born /\ (exited => exited')
           /\ client \notin {"spawning", "counting"} /\ client' \notin {"spawning", "counting"}
  BY <1>5, <1>a, <1>b, <1>c DEF Limits
<1>6. CASE Help \/ Drain \/ EndOwnTask \/ ClientGoesOn \/ JoinAndClear
  <2>1. UNCHANGED <<pc, currActive, maxActive, exited>>
    BY <1>6 DEF Help, Drain, EndOwnTask, ClientGoesOn, JoinAndClear, flags
  <2>2. client \notin {"spawning", "counting"} /\ client' \notin {"spawning", "counting"}
    BY <1>6, WakingTyped, <1>b
       DEF Help, Drain, TakeAsClient, EndOwnTask, JoinAndClear, ClientGoesOn, AwaitDone,
           StopAgain, WaitFinish, SpuriousClientWake
  <2>3. QED
    BY <2>1, <2>2, <1>5 DEF Born, At
<1>7. CASE Stop \/ Start \/ Exit
  <2>1. Born' = Born
    BY <1>7, <1>b DEF Stop, Start, Exit, WakeAll, Born, At
  <2>2. QED
    BY <1>7, <2>1, <1>5 DEF Stop, Start, Exit, flags
<1>8. ASSUME NEW t \in Tasks, PushTask(t) PROVE Limits'
  <2>1. Born' = Born
    BY <1>8, <1>b DEF PushTask, NotifyOneWaiting, Born, At
  <2>2. QED
    BY <1>8, <2>1, <1>a DEF PushTask, Limits, flags
<1>9. ASSUME NEW n \in 1..Cardinality(Workers), SetMaxActiveThreadNum(n) PROVE Limits'
  <2>1. currActive = 0
    BY <1>9, QuietMeansNone DEF SetMaxActiveThreadNum
  <2>2. Born' = Workers
    BY <1>9, <1>a DEF SetMaxActiveThreadNum, Phases, Born, At
  <2>3. Cardinality(Workers) \in Nat
    BY FS_CardinalityType, PoolAssumption
  <2>4. QED
    BY <1>9, <2>1, <2>2, <2>3 DEF SetMaxActiveThreadNum, Limits
<1>10. ASSUME NEW f \in BOOLEAN, SetNotifyFunc(f) PROVE Limits'
  BY <1>10, <1>2 DEF SetNotifyFunc, flags
<1>11. CASE UNCHANGED vars
  BY <1>11, <1>2 DEF vars
<1>12. QED
  BY <1>a, StepKinds, <1>1, <1>3, <1>4, <1>6, <1>7, <1>8, <1>9, <1>10, <1>11

-----------------------------------------------------------------------------
(* Where the tasks are.                                                    *)

\* A thread holds a task as long as it executes it.
LEMMA HeldKept ==
  ASSUME PoolInv, [Next]_vars
  PROVE  HeldWhileExecuted'
<1>a. TypeOK /\ HeldWhileExecuted /\ client \in ClientPCs /\ NoTask \notin Tasks
  BY PoolAssumption DEF PoolInv, TypeOK
<1>1. ASSUME NEW w \in Workers, NEW to \in WorkerPCs \ {"unborn"}, Moves(w, to)
      PROVE  HeldWhileExecuted'
  <2>1. /\ \A v \in Workers : pc'[v] = IF v = w THEN to ELSE pc[v]
        /\ helping' = helping
        /\ client' \in {"helpExec", "drainExec"} <=> client \in {"helpExec", "drainExec"}
    BY <1>a, <1>1, MovesCount DEF Moves, Woken
  <2>2. to = "exec" => Head(taskQueue) # NoTask /\ holds' = [holds EXCEPT ![w] = Head(taskQueue)]
    BY <1>1, <1>a, QueueSplits DEF Moves, TypeOK
  <2>3. pc[w] = "exec" => to = "top" /\ holds' = [holds EXCEPT ![w] = NoTask]
    BY <1>1 DEF Moves
  <2>4. to # "exec" /\ pc[w] # "exec" => holds' = holds
    BY <1>1 DEF Moves
  <2>5. QED
    BY <1>a, <2>1, <2>2, <2>3, <2>4 DEF HeldWhileExecuted, TypeOK
<1>2. CASE Help \/ Drain
  BY <1>2, <1>a, QueueSplits DEF Help, Drain, TakeAsClient, HeldWhileExecuted, TypeOK
<1>3. CASE EndOwnTask
  BY <1>3, <1>a DEF EndOwnTask, HeldWhileExecuted
<1>4. CASE /\ UNCHANGED <<holds, helping>>
           /\ \A w \in Workers : pc'[w] = "exec" <=> pc[w] = "exec"
           /\ client' \in {"helpExec", "drainExec"} <=> client \in {"helpExec", "drainExec"}
  BY <1>4, <1>a DEF HeldWhileExecuted
<1>5. CASE ClientGoesOn
  <2>1. client' \in {"helpExec", "drainExec"} <=> client \in {"helpExec", "drainExec"}
    <3>1. WakeStopper(client) \in ClientPCs
      BY <1>a, WakingTyped
    <3>2. QED
      BY <1>5, <1>a, <3>1, WakingTyped
         DEF ClientGoesOn, AwaitDone, StopAgain, WaitFinish, SpuriousClientWake
  <2>2. QED
    BY <1>5, <2>1, <1>4 DEF ClientGoesOn
<1>6. ASSUME NEW w \in Workers, SpawnThread(w) PROVE HeldWhileExecuted'
  BY <1>6, <1>4, <1>a DEF SpawnThread, TypeOK
<1>7. CASE CountThread \/ Stop \/ Start \/ Exit \/ JoinAndClear
  BY <1>7, <1>4, <1>a DEF CountThread, Stop, Start, Exit, JoinAndClear, WakeAll, TypeOK
<1>8. ASSUME NEW t \in Tasks, PushTask(t) PROVE HeldWhileExecuted'
  BY <1>8, <1>4, <1>a DEF PushTask, NotifyOneWaiting, At, TypeOK
<1>9. ASSUME NEW n \in 1..Cardinality(Workers), SetMaxActiveThreadNum(n)
      PROVE  HeldWhileExecuted'
  BY <1>9, <1>4 DEF SetMaxActiveThreadNum
<1>10. ASSUME NEW f \in BOOLEAN, SetNotifyFunc(f) PROVE HeldWhileExecuted'
  BY <1>10, <1>4 DEF SetNotifyFunc
<1>11. CASE UNCHANGED vars
  BY <1>11, <1>4 DEF vars
<1>12. QED
  BY <1>a, StepKinds, <1>1, <1>2, <1>3, <1>5, <1>6, <1>7, <1>8, <1>9, <1>10, <1>11

\* A thread takes the first task of the queue.
LEMMA TakingKept ==
  ASSUME TypeOK, TasksAreSomewhere, taskQueue # <<>>, taskQueue' = Tail(taskQueue),
         taskState' = [taskState EXCEPT ![Head(taskQueue)] = "running"],
         \/ /\ helping' = helping
            /\ \E w \in Workers : holds[w] = NoTask
                                  /\ holds' = [holds EXCEPT ![w] = Head(taskQueue)]
         \/ helping = NoTask /\ helping' = Head(taskQueue) /\ holds' = holds
  PROVE  TasksAreSomewhere'
<1> DEFINE h == Head(taskQueue)
<1>1. /\ taskQueue \in Seq(Tasks)
      /\ taskState \in [Tasks -> {"new", "queued", "running", "done", "dropped"}]
      /\ holds \in [Workers -> TaskOrNone] /\ helping \in TaskOrNone /\ NoTask \notin Tasks
  BY PoolAssumption DEF TypeOK
<1>2. /\ Len(taskQueue) \in Nat \ {0} /\ Len(taskQueue') = Len(taskQueue) - 1
      /\ h = taskQueue[1] /\ h \in Tasks
      /\ \A i \in 1..Len(taskQueue) - 1 : taskQueue'[i] = taskQueue[i + 1]
  BY <1>1, QueueSplits
<1>3. taskState[h] = "queued"
  BY <1>2 DEF TasksAreSomewhere, Positions
<1>4. /\ \A w \in Workers : holds[w] # h
      /\ helping # h
  BY <1>2, <1>3 DEF TasksAreSomewhere
<1>5. \A t \in Tasks : taskState'[t] = IF t = h THEN "running" ELSE taskState[t]
  BY <1>1, <1>2
<1> HIDE DEF h
<1>6. \A t \in Tasks : taskState'[t] = "queued"
                       <=> \E i \in 1..Len(taskQueue') : taskQueue'[i] = t
  <2> SUFFICES ASSUME NEW t \in Tasks
               PROVE  taskState'[t] = "queued"
                      <=> \E i \in 1..Len(taskQueue') : taskQueue'[i] = t
    OBVIOUS
  <2>1. ASSUME NEW i \in 1..Len(taskQueue') PROVE /\ i + 1 \in Positions /\ i + 1 # 1
                                                  /\ taskQueue'[i] = taskQueue[i + 1]
    BY <1>2 DEF Positions
  <2>2. ASSUME NEW i \in Positions, i # 1
        PROVE  \E j \in 1..Len(taskQueue') : taskQueue'[j] = taskQueue[i]
    <3>1. i - 1 \in 1..Len(taskQueue') /\ i - 1 \in 1..Len(taskQueue) - 1 /\ (i - 1) + 1 = i
      BY <1>2, <2>2 DEF Positions
    <3>2. QED
      BY <1>2, <3>1
  <2>3. 1 \in Positions
    BY <1>2 DEF Positions
  <2>4. CASE t = h
    BY <2>1, <2>3, <2>4, <1>2, <1>5 DEF TasksAreSomewhere
  <2>5. CASE t # h
    BY <2>1, <2>2, <2>5, <1>2, <1>5 DEF TasksAreSomewhere
  <2>6. QED
    BY <2>4, <2>5
<1>7. \A i, j \in 1..Len(taskQueue') : taskQueue'[i] = taskQueue'[j] => i = j
  <2>1. \A i \in 1..Len(taskQueue') : i + 1 \in Positions /\ taskQueue'[i] = taskQueue[i + 1]
    BY <1>2 DEF Positions
  <2>2. \A i, j \in 1..Len(taskQueue') : i + 1 = j + 1 => i = j
    OBVIOUS
  <2>3. QED
    BY <2>1, <2>2 DEF TasksAreSomewhere
<1>8. CASE helping = NoTask /\ helping' = h /\ holds' = holds
  <2>1. \A t \in Tasks : taskState'[t] = "running"
                         <=> (t = helping' \/ \E w \in Workers : holds'[w] = t)
    BY <1>1, <1>2, <1>5, <1>8 DEF TasksAreSomewhere
  <2>2. QED
    BY <1>4, <1>6, <1>7, <1>8, <2>1 DEF TasksAreSomewhere, Positions
<1>9. ASSUME helping' = helping, NEW w \in Workers, holds[w] = NoTask,
             holds' = [holds EXCEPT ![w] = h]
      PROVE  TasksAreSomewhere'
  <2>1. \A v \in Workers : holds'[v] = IF v = w THEN h ELSE holds[v]
    BY <1>1, <1>9
  <2>2. \A t \in Tasks : taskState'[t] = "running"
                         <=> (t = helping' \/ \E v \in Workers : holds'[v] = t)
    BY <1>1, <1>2, <1>5, <1>9, <2>1 DEF TasksAreSomewhere
  <2>3. \A u, v \in Workers : holds'[u] = holds'[v] => u = v \/ holds'[u] = NoTask
    BY <1>4, <2>1 DEF TasksAreSomewhere
  <2>4. \A v \in Workers : holds'[v] = helping' => helping' = NoTask
    BY <1>4, <1>9, <2>1 DEF TasksAreSomewhere
  <2>5. QED
    BY <1>6, <1>7, <2>2, <2>3, <2>4 DEF TasksAreSomewhere, Positions
<1>10. QED
  BY <1>8, <1>9 DEF h

\* A thread ends the task it holds.
LEMMA EndingKept ==
  ASSUME TypeOK, TasksAreSomewhere, taskQueue' = taskQueue,
         \/ /\ helping' = helping
            /\ \E w \in Workers : /\ holds[w] # NoTask /\ holds' = [holds EXCEPT ![w] = NoTask]
                                  /\ taskState' = [taskState EXCEPT ![holds[w]] = "done"]
         \/ /\ helping # NoTask /\ helping' = NoTask /\ holds' = holds
            /\ taskState' = [taskState EXCEPT ![helping] = "done"]
  PROVE  TasksAreSomewhere'
<1>1. /\ taskState \in [Tasks -> {"new", "queued", "running", "done", "dropped"}]
      /\ holds \in [Workers -> TaskOrNone] /\ helping \in TaskOrNone /\ NoTask \notin Tasks
  BY PoolAssumption DEF TypeOK
<1>2. ASSUME NEW e \in Tasks, taskState' = [taskState EXCEPT ![e] = "done"],
             taskState[e] = "running"
      PROVE  \A t \in Tasks : /\ taskState'[t] = "queued" <=> taskState[t] = "queued"
                              /\ taskState'[t] = "running" <=> taskState[t] = "running" /\ t # e
  BY <1>1, <1>2
<1>3. CASE /\ helping # NoTask /\ helping' = NoTask /\ holds' = holds
           /\ taskState' = [taskState EXCEPT ![helping] = "done"]
  <2>1. helping \in Tasks /\ taskState[helping] = "running"
    BY <1>1, <1>3 DEF TasksAreSomewhere, TaskOrNone
  <2>2. \A t \in Tasks : /\ taskState'[t] = "queued" <=> taskState[t] = "queued"
                         /\ taskState'[t] = "running" <=> taskState[t] = "running" /\ t # helping
    BY <1>2, <1>3, <2>1
  <2>3. QED
    BY <1>1, <1>3, <2>1, <2>2 DEF TasksAreSomewhere, Positions
<1>4. ASSUME helping' = helping, NEW w \in Workers, holds[w] # NoTask,
             holds' = [holds EXCEPT ![w] = NoTask],
             taskState' = [taskState EXCEPT ![holds[w]] = "done"]
      PROVE  TasksAreSomewhere'
  <2>1. holds[w] \in Tasks /\ taskState[holds[w]] = "running"
    BY <1>1, <1>4 DEF TasksAreSomewhere, TaskOrNone
  <2>2. \A t \in Tasks : /\ taskState'[t] = "queued" <=> taskState[t] = "queued"
                         /\ taskState'[t] = "running" <=> taskState[t] = "running" /\ t # holds[w]
    BY <1>2, <1>4, <2>1
  <2>3. \A v \in Workers : holds'[v] = IF v = w THEN NoTask ELSE holds[v]
    BY <1>1, <1>4
  <2>4. QED
    BY <1>1, <1>4, <2>1, <2>2, <2>3 DEF TasksAreSomewhere, Positions
<1>5. QED
  BY <1>3, <1>4

\* A new task is put at the end of the queue.
LEMMA PushingKept ==
  ASSUME TypeOK, TasksAreSomewhere, NEW t \in Tasks, PushTask(t)
  PROVE  TasksAreSomewhere'
<1>1. /\ taskQueue \in Seq(Tasks)
      /\ taskState \in [Tasks -> {"new", "queued", "running", "done", "dropped"}]
  BY DEF TypeOK
<1>2. /\ taskState[t] = "new" /\ taskQueue' = Append(taskQueue, t)
      /\ taskState' = [taskState EXCEPT ![t] = "queued"] /\ UNCHANGED <<holds, helping>>
  BY DEF PushTask
<1>3. /\ Len(taskQueue) \in Nat /\ Len(taskQueue') = Len(taskQueue) + 1
      /\ \A i \in 1..Len(taskQueue') :
           taskQueue'[i] = IF i = Len(taskQueue) + 1 THEN t ELSE taskQueue[i]
  BY <1>1, <1>2
<1>4. \A u \in Tasks : taskState'[u] = IF u = t THEN "queued" ELSE taskState[u]
  BY <1>1, <1>2
<1>5. \A i \in Positions : taskQueue[i] # t
  BY <1>2 DEF TasksAreSomewhere
<1>6. \A i \in 1..Len(taskQueue') : i \in Positions \/ i = Len(taskQueue) + 1
  BY <1>3 DEF Positions
<1>7. \A i \in Positions : i \in 1..Len(taskQueue') /\ i # Len(taskQueue) + 1
  BY <1>3 DEF Positions
<1>8. Len(taskQueue) + 1 \in 1..Len(taskQueue')
  BY <1>3
<1>9. \A u \in Tasks : taskState'[u] = "queued"
                       <=> \E i \in 1..Len(taskQueue') : taskQueue'[i] = u
  BY <1>3, <1>4, <1>5, <1>6, <1>7, <1>8 DEF TasksAreSomewhere
<1>10. \A i, j \in 1..Len(taskQueue') : taskQueue'[i] = taskQueue'[j] => i = j
  BY <1>3, <1>5, <1>6 DEF TasksAreSomewhere
<1>11. QED
  BY <1>2, <1>4, <1>9, <1>10 DEF TasksAreSomewhere, Positions

LEMMA TasksKept ==
  ASSUME PoolInv, [Next]_vars
  PROVE  TasksAreSomewhere'
<1>a. TypeOK /\ TasksAreSomewhere /\ HeldWhileExecuted
  BY DEF PoolInv
<1>1. ASSUME NEW w \in Workers, NEW to \in WorkerPCs \ {"unborn"}, Moves(w, to)
      PROVE  TasksAreSomewhere'
  <2>1. CASE to = "exec"
    <3>1. holds[w] = NoTask
      BY <1>1, <1>a, <2>1 DEF Moves, HeldWhileExecuted
    <3>2. QED
      BY <1>1, <1>a, <2>1, <3>1, TakingKept DEF Moves
  <2>2. CASE pc[w] = "exec"
    <3>1. holds[w] # NoTask
      BY <1>a, <2>2 DEF HeldWhileExecuted
    <3>2. QED
      BY <1>1, <1>a, <2>2, <3>1, EndingKept DEF Moves
  <2>3. CASE to # "exec" /\ pc[w] # "exec"
    BY <1>1, <1>a, <2>3 DEF Moves, queueVars, TasksAreSomewhere, Positions
  <2>4. QED
    BY <2>1, <2>2, <2>3
<1>2. CASE (Help \/ Drain) /\ ~UNCHANGED <<queueVars, helping>>
  <2>1. helping = NoTask
    BY <1>2, <1>a DEF Help, Drain, HeldWhileExecuted
  <2>2. QED
    BY <1>2, <1>a, <2>1, TakingKept DEF Help, Drain, TakeAsClient
<1>3. CASE EndOwnTask
  <2>1. helping # NoTask
    BY <1>3, <1>a DEF EndOwnTask, HeldWhileExecuted
  <2>2. QED
    BY <1>3, <1>a, <2>1, EndingKept DEF EndOwnTask
<1>4. CASE UNCHANGED <<queueVars, holds, helping>>
  BY <1>4, <1>a DEF TasksAreSomewhere, Positions, queueVars
<1>5. ASSUME NEW w \in Workers, SpawnThread(w) PROVE TasksAreSomewhere'
  BY <1>5, <1>4 DEF SpawnThread
<1>6. CASE CountThread \/ ClientGoesOn \/ Stop \/ Start \/ Exit
  BY <1>6, <1>4 DEF CountThread, ClientGoesOn, Stop, Start, Exit
<1>7. CASE (Help \/ Drain) /\ UNCHANGED <<queueVars, helping>>
  BY <1>7, <1>4 DEF Help, Drain
<1>8. ASSUME NEW t \in Tasks, PushTask(t) PROVE TasksAreSomewhere'
  BY <1>8, <1>a, PushingKept
<1>9. CASE JoinAndClear
  <2>1. /\ taskQueue' = <<>> /\ UNCHANGED <<holds, helping>>
        /\ \A t \in Tasks : taskState'[t] = IF taskState[t] = "queued" THEN "dropped"
                                                                      ELSE taskState[t]
    BY <1>9 DEF JoinAndClear
  <2>2. QED
    BY <1>a, <2>1 DEF TasksAreSomewhere, Positions
<1>10. ASSUME NEW n \in 1..Cardinality(Workers), SetMaxActiveThreadNum(n)
       PROVE  TasksAreSomewhere'
  BY <1>10, <1>4 DEF SetMaxActiveThreadNum
<1>11. ASSUME NEW f \in BOOLEAN, SetNotifyFunc(f) PROVE TasksAreSomewhere'
  BY <1>11, <1>4 DEF SetNotifyFunc
<1>12. CASE UNCHANGED vars
  BY <1>12, <1>4 DEF vars, queueVars
<1>13. QED
  BY <1>a, StepKinds, <1>1, <1>2, <1>3, <1>5, <1>6, <1>7, <1>8, <1>9, <1>10, <1>11, <1>12

-----------------------------------------------------------------------------
(* Stopping, and who is left to look for tasks.                            *)

\* With as many threads waiting as may be active, every active thread waits.
LEMMA AllWait ==
  ASSUME PoolInv, currWaiting = maxActive, ~exited, client # "counting"
  PROVE  \A w \in Workers : pc[w] \in ActivePCs => pc[w] \in WaitingPCs
<1>1. IsFiniteSet(Active) /\ Waiting \in SUBSET Active
  BY FS_Subset, PoolAssumption DEF Active, Waiting, At
<1>2. Cardinality(Waiting) = maxActive /\ Cardinality(Active) <= maxActive
  <2>1. Cardinality(Active) \in Nat
    BY <1>1, FS_CardinalityType
  <2>2. QED
    BY <2>1 DEF PoolInv, CountersExact, Limits
<1>3. Cardinality(Waiting) <= Cardinality(Active)
      /\ (Cardinality(Waiting) = Cardinality(Active) => Waiting = Active)
  BY <1>1, FS_Subset
<1>4. Cardinality(Waiting) = Cardinality(Active)
  BY <1>1, <1>2, <1>3, FS_CardinalityType, FS_Subset
<1>5. Waiting = Active
  BY <1>3, <1>4
<1>6. QED
  BY <1>5 DEF PoolInv, TypeOK, Active, Waiting, At, ActivePCs, WaitingPCs, WorkerPCs

LEMMA QuietKept ==
  ASSUME PoolInv, [Next]_vars
  PROVE  StoppedIsQuiet'
<1>a. TypeOK /\ StoppedIsQuiet /\ Phases /\ HeldWhileExecuted /\ client \in ClientPCs
  BY DEF PoolInv, TypeOK
<1>1. ASSUME NEW w \in Workers, NEW to \in WorkerPCs \ {"unborn"}, Moves(w, to)
      PROVE  StoppedIsQuiet'
  <2> SUFFICES ASSUME ~running', client' \in {"client", "drain", "drainExec"}
               PROVE  \A v \in Workers : pc'[v] \in {"sleeping", "sleepWake"}
                                         /\ holds'[v] = NoTask
    BY DEF StoppedIsQuiet
  <2>1. ~running /\ ~exited /\ client \in {"client", "drain", "drainExec"}
    BY <1>1, <1>a DEF Moves, Woken, Phases, flags
  <2>2. \A v \in Workers : pc[v] \in {"sleeping", "sleepWake"} /\ holds[v] = NoTask
    BY <2>1, <1>a DEF StoppedIsQuiet
  <2>3. to \in {"sleeping", "sleepWake"} /\ holds' = holds
    BY <1>1, <2>1, <2>2 DEF Moves
  <2>4. QED
    BY <1>1, <1>a, <2>2, <2>3, MovesCount
<1>2. ASSUME NEW t \in Tasks, PushTask(t) PROVE StoppedIsQuiet'
  BY <1>2, <1>a DEF PushTask, NotifyOneWaiting, StoppedIsQuiet, flags
<1>3. CASE client' \notin {"client", "drain", "drainExec"} \/ running'
  BY <1>3 DEF StoppedIsQuiet
<1>4. CASE UNCHANGED <<running, pc, holds>> /\ client \in {"client", "drain", "drainExec"}
  BY <1>4, <1>a DEF StoppedIsQuiet
<1>5. ASSUME NEW w \in Workers, SpawnThread(w) PROVE StoppedIsQuiet'
  BY <1>5, <1>3 DEF SpawnThread
<1>6. CASE CountThread \/ Start \/ Exit \/ JoinAndClear
  BY <1>6, <1>3 DEF CountThread, Start, Exit, JoinAndClear
<1>7. CASE Help \/ Drain \/ EndOwnTask
  BY <1>7, <1>3, <1>4 DEF Help, Drain, TakeAsClient, EndOwnTask, flags
<1>8. ASSUME Stop \/ StopAgain, currActive = 0 PROVE StoppedIsQuiet'
  <2>1. Cardinality(Active) = 0
    BY <1>8 DEF PoolInv, CountersExact, Stop, StopAgain
  <2>2. Active = {}
    BY <2>1, FS_Subset, FS_EmptySet, PoolAssumption DEF Active
  <2>3. At("unborn") = {} /\ At("left") = {}
    BY <1>8, <1>a DEF Stop, StopAgain, Phases
  <2>4. \A w \in Workers : pc[w] \in {"sleeping", "sleepWake"} /\ holds[w] = NoTask
    BY <1>a, <2>2, <2>3 DEF Active, At, WorkerPCs, TypeOK, HeldWhileExecuted
  <2>5. \A w \in Workers : pc'[w] = pc[w] /\ holds'[w] = holds[w]
    BY <1>8, <2>4, <1>a DEF Stop, StopAgain, WakeAll
  <2>6. QED
    BY <2>4, <2>5 DEF StoppedIsQuiet
<1>9. CASE (Stop \/ StopAgain) /\ currActive # 0
  BY <1>9, <1>3 DEF Stop, StopAgain
<1>10. CASE AwaitDone \/ WaitFinish
  BY <1>10, <1>3 DEF AwaitDone, WaitFinish
<1>11. CASE SpuriousClientWake
  <2>1. client' \in {"stopCheck", "finishCheck", "awaitDone"}
    <3>1. WakeStopper(client) \in ClientPCs
      BY <1>a, WakingTyped
    <3>2. QED
      BY <1>11, <1>a, <3>1, WakingTyped DEF SpuriousClientWake
  <2>2. QED
    BY <2>1, <1>3
<1>12. ASSUME NEW n \in 1..Cardinality(Workers), SetMaxActiveThreadNum(n)
       PROVE  StoppedIsQuiet'
  BY <1>12, <1>4 DEF SetMaxActiveThreadNum
<1>13. ASSUME NEW f \in BOOLEAN, SetNotifyFunc(f) PROVE StoppedIsQuiet'
  BY <1>13, <1>4 DEF SetNotifyFunc, flags
<1>14. CASE UNCHANGED vars
  BY <1>14, <1>a DEF vars, StoppedIsQuiet
<1>15. QED
  BY <1>a, StepKinds, <1>1, <1>2, <1>5, <1>6, <1>7, <1>8, <1>9, <1>10, <1>11, <1>12, <1>13,
     <1>14 DEF ClientGoesOn

LEMMA CallerKept ==
  ASSUME PoolInv, [Next]_vars
  PROVE  CallerIsLast'
<1>a. TypeOK /\ CallerIsLast /\ Phases /\ client \in ClientPCs
  BY DEF PoolInv, TypeOK
<1>1. ASSUME NEW w \in Workers, NEW to \in WorkerPCs \ {"unborn"}, Moves(w, to)
      PROVE  CallerIsLast'
  <2>0. \A v \in Workers : pc'[v] = IF v = w THEN to ELSE pc[v]
    BY <1>1, <1>a, MovesCount
  <2>1. CASE to = "calling"
    <3>1. client = "client"
      BY <1>1, <1>a, <2>1 DEF Moves, Phases
    <3>2. QED
      BY <1>1, <2>1, <3>1 DEF Moves, CallerIsLast, Woken, flags, queueVars
  <2>2. CASE to # "calling" /\ At("calling") = {}
    BY <2>0, <2>2 DEF CallerIsLast, At
  <2>3. CASE to # "calling" /\ At("calling") # {}
    <3>1. /\ running /\ ~exited /\ taskQueue = <<>> /\ currWaiting = maxActive
          /\ client \in {"client", "help"} /\ ~MutexFree
      BY <2>3, <1>a DEF CallerIsLast, MutexFree, At
    <3>2. pc[w] # "exec"
      BY <3>1, AllWait DEF ActivePCs, WaitingPCs
    <3>3. /\ to \in {"sleepWake", "waitWake"} \/ pc[w] = "calling"
          /\ pc[w] = "sleeping" \/ pc[w] = "waiting" \/ to = "waiting"
      BY <1>1, <2>3, <3>1, <3>2 DEF Moves, WorkerPCs
    <3>4. currWaiting' = currWaiting
      <4>1. to = "sleepWake" => pc[w] = "sleeping"
        BY <1>1 DEF Moves
      <4>2. to = "waitWake" => pc[w] = "waiting"
        BY <1>1 DEF Moves
      <4>3. to \in WaitingPCs <=> pc[w] \in WaitingPCs
        BY <3>3, <4>1, <4>2 DEF WaitingPCs
      <4>4. QED
        BY <1>1, <1>a, <4>3 DEF Moves, TypeOK
    <3>5. QED
      BY <1>1, <3>1, <3>2, <3>4 DEF Moves, CallerIsLast, Woken, flags, queueVars
  <2>4. QED
    BY <2>1, <2>2, <2>3
<1>2. ASSUME At("calling")' = {} PROVE CallerIsLast'
  BY <1>2 DEF CallerIsLast
<1>3. ASSUME NEW t \in Tasks, PushTask(t) PROVE CallerIsLast'
  BY <1>3, <1>2, <1>a DEF PushTask, NotifyOneWaiting, MutexFree, At, TypeOK
<1>4. ASSUME NEW w \in Workers, SpawnThread(w) PROVE CallerIsLast'
  BY <1>4, <1>2, <1>a DEF SpawnThread, CallerIsLast, At, TypeOK
<1>5. CASE UNCHANGED pc /\ (MutexFree \/ client \notin {"client", "help"} \/ ~running)
  BY <1>5, <1>2, <1>a DEF MutexFree, CallerIsLast, At
<1>6. CASE CountThread \/ Help \/ Drain \/ EndOwnTask \/ JoinAndClear
  BY <1>6, <1>5 DEF CountThread, Help, Drain, EndOwnTask, JoinAndClear
<1>7. CASE AwaitDone \/ StopAgain \/ SpuriousClientWake
  BY <1>7, <1>5 DEF AwaitDone, StopAgain, SpuriousClientWake
<1>8. CASE WaitFinish
  BY <1>8, <1>a DEF WaitFinish, CallerIsLast, At, flags, queueVars
<1>9. CASE Stop \/ Start \/ Exit
  BY <1>9, <1>2 DEF Stop, Start, Exit, WakeAll, MutexFree, At
<1>10. ASSUME NEW n \in 1..Cardinality(Workers), SetMaxActiveThreadNum(n)
       PROVE  CallerIsLast'
  BY <1>10, <1>5 DEF SetMaxActiveThreadNum
<1>11. ASSUME NEW f \in BOOLEAN, SetNotifyFunc(f) PROVE CallerIsLast'
  BY <1>11, <1>a DEF SetNotifyFunc, CallerIsLast, At, flags, queueVars
<1>12. CASE UNCHANGED vars
  BY <1>12, <1>a DEF vars, CallerIsLast, At
<1>13. QED
  BY <1>a, StepKinds, <1>1, <1>3, <1>4, <1>6, <1>7, <1>8, <1>9, <1>10, <1>11, <1>12
     DEF ClientGoesOn

LEMMA AwakeKept ==
  ASSUME PoolInv, [Next]_vars
  PROVE  EnoughAwake'
<1>a. /\ TypeOK /\ EnoughAwake /\ Phases /\ Limits
      /\ currActive \in Int /\ maxActive \in Nat
  BY DEF PoolInv, TypeOK
<1>1. ASSUME NEW w \in Workers, NEW to \in WorkerPCs \ {"unborn"}, Moves(w, to)
      PROVE  EnoughAwake'
  <2> SUFFICES ASSUME running', ~exited', currActive' < maxActive'
               PROVE  At("sleeping")' = {}
    BY DEF EnoughAwake
  <2>1. /\ running /\ ~exited /\ maxActive' = maxActive
        /\ to \notin {"sleeping", "left"}
    BY <1>1, <1>a DEF Moves, flags, TypeOK
  <2>2. currActive' >= currActive
    <3>1. to \in ActivePCs \/ to = "sleepWake"
      BY <2>1 DEF WorkerPCs, ActivePCs
    <3>2. to = "sleepWake" => pc[w] \notin ActivePCs
      BY <1>1 DEF Moves, ActivePCs
    <3>3. QED
      BY <1>1, <1>a, <3>1, <3>2 DEF Moves
  <2>3. currActive < maxActive
    BY <1>1, <1>a, <2>1, <2>2 DEF Moves
  <2>4. At("sleeping") = {}
    BY <1>a, <2>1, <2>3 DEF EnoughAwake
  <2>5. QED
    BY <1>a, <1>1, <2>1, <2>4, MovesCount DEF At
<1>2. CASE UNCHANGED <<running, exited, currActive, maxActive, pc>>
  BY <1>2, <1>a DEF EnoughAwake, At
<1>3. CASE ~running' \/ exited'
  BY <1>3 DEF EnoughAwake
<1>4. ASSUME NEW t \in Tasks, PushTask(t) PROVE EnoughAwake'
  BY <1>4, <1>a DEF PushTask, NotifyOneWaiting, EnoughAwake, At, flags, TypeOK
<1>5. ASSUME NEW w \in Workers, SpawnThread(w) PROVE EnoughAwake'
  BY <1>5, <1>3, <1>a DEF SpawnThread, Phases, flags
<1>6. CASE CountThread
  BY <1>6, <1>3, <1>a DEF CountThread, Phases
<1>7. CASE Help \/ Drain \/ EndOwnTask \/ ClientGoesOn \/ JoinAndClear
  BY <1>7, <1>2 DEF Help, Drain, EndOwnTask, ClientGoesOn, JoinAndClear, flags
<1>8. CASE Stop \/ Exit
  BY <1>8, <1>3 DEF Stop, Exit
<1>9. CASE Start
  BY <1>9 DEF Start, WakeAll, EnoughAwake, At
<1>10. ASSUME NEW n \in 1..Cardinality(Workers), SetMaxActiveThreadNum(n) PROVE EnoughAwake'
  BY <1>10, <1>3 DEF SetMaxActiveThreadNum
<1>11. ASSUME NEW f \in BOOLEAN, SetNotifyFunc(f) PROVE EnoughAwake'
  BY <1>11, <1>2 DEF SetNotifyFunc, flags
<1>12. CASE UNCHANGED vars
  BY <1>12, <1>2 DEF vars
<1>13. QED
  BY <1>a, StepKinds, <1>1, <1>4, <1>5, <1>6, <1>7, <1>8, <1>9, <1>10, <1>11, <1>12

\* The threads that are going to look into the queue.
Looking == {w \in Workers : pc[w] \in {"top", "waitWake", "exec"}}

LEMMA LooksKept ==
  ASSUME PoolInv, [Next]_vars
  PROVE  SomebodyLooks'
<1>a. /\ TypeOK /\ SomebodyLooks /\ Phases /\ Limits /\ CallerIsLast /\ CountersExact
      /\ currActive \in Int /\ maxActive \in Nat /\ client \in ClientPCs
  BY DEF PoolInv, TypeOK
<1>0. SomebodyLooks' <=>
        (running' /\ ~exited' /\ taskQueue' # <<>> =>
           Looking' # {} \/ client' \in {"help", "helpExec"} \/ currActive' < maxActive')
  BY DEF SomebodyLooks, Looking
<1>b. running /\ ~exited /\ taskQueue # <<>> =>
        Looking # {} \/ client \in {"help", "helpExec"} \/ currActive < maxActive
  BY <1>a DEF SomebodyLooks, Looking
<1>1. ASSUME NEW w \in Workers, NEW to \in WorkerPCs \ {"unborn"}, Moves(w, to)
      PROVE  SomebodyLooks'
  <2> SUFFICES ASSUME running', ~exited', taskQueue' # <<>>
               PROVE  Looking' # {} \/ client' \in {"help", "helpExec"}
                      \/ currActive' < maxActive'
    BY <1>0
  <2>0. /\ running /\ ~exited /\ maxActive' = maxActive
        /\ client \in {"help", "helpExec"} => client' \in {"help", "helpExec"}
        /\ \A v \in Workers : pc'[v] = IF v = w THEN to ELSE pc[v]
    BY <1>1, <1>a, MovesCount DEF Moves, Woken, flags
  <2>1. CASE to \in {"top", "waitWake", "exec"}
    BY <2>0, <2>1 DEF Looking
  <2>2. CASE to = "sleeping" /\ pc[w] = "top"
    <3>1. currActive' = currActive - 1
      BY <1>1, <1>a, <2>2 DEF Moves, ActivePCs
    <3>2. QED
      BY <1>a, <2>0, <3>1 DEF Limits
  <2>3. CASE to \in {"sleeping", "sleepWake"} /\ pc[w] # "top"
    <3>1. pc[w] \in {"sleeping", "sleepWake"} /\ taskQueue' = taskQueue
      BY <1>1, <2>3 DEF Moves, queueVars
    <3>2. currActive' = currActive
      BY <1>1, <1>a, <2>3, <3>1 DEF Moves, ActivePCs
    <3>3. Looking' = Looking
      BY <2>0, <2>3, <3>1 DEF Looking
    <3>4. QED
      BY <1>b, <2>0, <3>1, <3>2, <3>3
  <2>4. CASE to \in {"waiting", "calling", "left"}
    <3>1. pc[w] = "calling" => taskQueue = <<>>
      BY <1>a DEF CallerIsLast, At
    <3>2. to # "left" /\ taskQueue = <<>>
      BY <1>1, <2>0, <2>4, <3>1 DEF Moves
    <3>3. taskQueue' = taskQueue
      BY <1>1, <2>4, <3>2 DEF Moves, queueVars
    <3>4. QED
      BY <3>2, <3>3
  <2>5. QED
    <3>1. to = "sleepWake" => pc[w] = "sleeping"
      BY <1>1 DEF Moves
    <3>2. QED
      BY <2>1, <2>2, <2>3, <2>4, <3>1 DEF WorkerPCs
<1>2. CASE /\ UNCHANGED <<running, exited, currActive, maxActive, pc, taskQueue>>
           /\ client \in {"help", "helpExec"} => client' \in {"help", "helpExec"}
  BY <1>2, <1>0, <1>b DEF Looking
<1>3. CASE ~running' \/ exited' \/ taskQueue' = <<>> \/ client' \in {"help", "helpExec"}
  BY <1>3, <1>0
<1>4. ASSUME NEW t \in Tasks, PushTask(t) PROVE SomebodyLooks'
  <2> SUFFICES ASSUME running, ~exited
               PROVE  Looking' # {} \/ currActive < maxActive
    BY <1>4, <1>0 DEF PushTask, flags
  <2>1. CASE At("waiting") # {} /\ currWaiting > 0
    <3>1. PICK w \in At("waiting") : pc' = [pc EXCEPT ![w] = "waitWake"]
      BY <1>4, <2>1 DEF PushTask, NotifyOneWaiting
    <3>2. QED
      BY <3>1, <1>a DEF At, Looking, TypeOK
  <2>2. CASE Looking # {} /\ pc' = pc
    BY <2>2 DEF Looking
  <2>3. CASE Looking = {} /\ (At("waiting") = {} \/ currWaiting <= 0)
    <3>1. At("waitWake") = {} /\ At("calling") = {}
      BY <1>4, <2>3 DEF Looking, At, PushTask, MutexFree
    <3>2. Waiting = {}
      <4>1. IsFiniteSet(Waiting) /\ Cardinality(Waiting) = currWaiting /\ currWaiting \in Nat
        BY <1>a, FS_Subset, PoolAssumption DEF CountersExact, Waiting, At, TypeOK
      <4>2. currWaiting <= 0 => currWaiting = 0
        BY <4>1
      <4>3. CASE currWaiting <= 0
        BY <4>1, <4>2, <4>3, FS_EmptySet
      <4>4. QED
        BY <2>3, <3>1, <4>3 DEF Waiting
    <3>3. Active = {}
      BY <2>3, <3>2, <1>a DEF Active, Waiting, Looking, At, TypeOK, WorkerPCs
    <3>4. currActive = 0
      BY <1>a, <3>3, FS_EmptySet DEF CountersExact, Phases
    <3>5. maxActive >= 1
      BY <1>a DEF Limits, Phases
    <3>6. QED
      BY <1>a, <3>4, <3>5
  <2>4. At("waiting") = {} \/ currWaiting <= 0 => pc' = pc
    BY <1>4, <1>a DEF PushTask, NotifyOneWaiting, TypeOK
  <2>5. (At("waiting") # {} /\ currWaiting > 0) \/ At("waiting") = {} \/ currWaiting <= 0
    BY <1>a DEF TypeOK
  <2>6. QED
    BY <2>1, <2>2, <2>3, <2>4, <2>5
<1>5. ASSUME NEW w \in Workers, SpawnThread(w) PROVE SomebodyLooks'
  BY <1>5, <1>3, <1>a DEF SpawnThread, Phases, flags
<1>6. CASE CountThread
  BY <1>6, <1>3, <1>a DEF CountThread, Phases
<1>7. CASE Help
  BY <1>7, <1>3 DEF Help, TakeAsClient, queueVars, flags
<1>8. CASE EndOwnTask \/ Drain \/ JoinAndClear
  BY <1>8, <1>3, <1>a DEF EndOwnTask, Drain, JoinAndClear, Phases, flags
<1>9. CASE ClientGoesOn
  <2>1. client \notin {"help", "helpExec"}
    BY <1>9 DEF ClientGoesOn, AwaitDone, StopAgain, WaitFinish, SpuriousClientWake
  <2>2. QED
    BY <1>9, <2>1, <1>2 DEF ClientGoesOn, flags, queueVars
<1>10. CASE Stop \/ Exit
  BY <1>10, <1>3 DEF Stop, Exit
<1>11. CASE Start
  <2>1. Looking' = Looking
    BY <1>11, <1>a DEF Start, WakeAll, Looking, TypeOK
  <2>2. ~running => currActive = 0
    BY <1>11, QuietMeansNone DEF Start
  <2>3. maxActive >= 1
    BY <1>11, <1>a DEF Start, Limits
  <2>4. QED
    BY <1>11, <1>0, <1>a, <1>b, <2>1, <2>2, <2>3 DEF Start, queueVars
<1>12. ASSUME NEW n \in 1..Cardinality(Workers), SetMaxActiveThreadNum(n) PROVE SomebodyLooks'
  BY <1>12, <1>3 DEF SetMaxActiveThreadNum
<1>13. ASSUME NEW f \in BOOLEAN, SetNotifyFunc(f) PROVE SomebodyLooks'
  BY <1>13, <1>2 DEF SetNotifyFunc, flags, queueVars
<1>14. CASE UNCHANGED vars
  BY <1>14, <1>2 DEF vars
<1>15. QED
  BY <1>a, StepKinds, <1>1, <1>4, <1>5, <1>6, <1>7, <1>8, <1>9, <1>10, <1>11, <1>12, <1>13,
     <1>14

-----------------------------------------------------------------------------
(* The pool of any number of threads.                                      *)

LEMMA InitialPool ==
  ASSUME Init
  PROVE  PoolInv
<1> USE PoolAssumption DEF Init
<1>1. TypeOK
  <2>1. taskQueue \in Seq(Tasks) /\ spurious \in 0..MaxSpurious
    OBVIOUS
  <2>2. pc \in [Workers -> WorkerPCs] /\ holds \in [Workers -> TaskOrNone]
    BY DEF WorkerPCs, TaskOrNone
  <2>3. /\ taskState \in [Tasks -> {"new", "queued", "running", "done", "dropped"}]
        /\ client \in ClientPCs /\ helping \in TaskOrNone
    BY DEF ClientPCs, TaskOrNone
  <2>4. /\ running \in BOOLEAN /\ exited \in BOOLEAN
        /\ armed \in BOOLEAN /\ signalled \in BOOLEAN
    BY Zenon
  <2>5. maxActive \in Nat /\ currActive \in Int /\ currWaiting \in Nat
    OBVIOUS
  <2> HIDE DEF Init
  <2>6. QED
    BY <2>1, <2>2, <2>3, <2>4, <2>5 DEF TypeOK
<1>2. Active = {} /\ Waiting = {} /\ Born = {} /\ At("calling") = {} /\ At("left") = {}
  BY DEF Active, Waiting, Born, At
<1>3. CountersExact /\ Limits
  BY <1>2, FS_EmptySet DEF CountersExact, Limits
<1>4. Phases /\ HeldWhileExecuted /\ StoppedIsQuiet /\ CallerIsLast /\ EnoughAwake
      /\ SomebodyLooks
  BY <1>2 DEF Phases, HeldWhileExecuted, StoppedIsQuiet, CallerIsLast, EnoughAwake,
              SomebodyLooks
<1>5. TasksAreSomewhere
  BY DEF TasksAreSomewhere, Positions
<1>6. QED
  BY <1>1, <1>3, <1>4, <1>5 DEF PoolInv

LEMMA PoolKept ==
  ASSUME PoolInv, [Next]_vars
  PROVE  PoolInv'
<1>1. TypeOK'
  <2>1. CASE UNCHANGED vars
    BY <2>1 DEF vars, PoolInv, TypeOK
  <2>2. CASE Next
    BY <2>2, WorkerTyped, ClientTyped, <2>1 DEF Next, PoolInv
  <2>3. QED
    BY <2>1, <2>2
<1>2. QED
  BY <1>1, CountersKept, LimitsKept, PhasesKept, HeldKept, TasksKept, QuietKept, CallerKept,
     AwakeKept, LooksKept DEF PoolInv

LEMMA PoolAlways == Spec => []PoolInv
<1>1. Init => PoolInv
  BY InitialPool
<1>2. PoolInv /\ [Next]_vars => PoolInv'
  BY PoolKept
<1>3. QED
  BY <1>1, <1>2, PTL DEF Spec

\* No step of WorkerFunc, of AddTask or of the client's operations takes a variable of
\* the pool out of its type; the number of waiting threads never falls below zero.
THEOREM PoolTyped == Spec => []TypeOK
<1>1. PoolInv => TypeOK
  BY DEF PoolInv
<1>2. QED
  BY <1>1, PoolAlways, PTL

\* The counters of active and of waiting threads, which WorkerFunc counts up and down
\* where it sleeps, wakes and waits, are the numbers of the threads that are there.
THEOREM PoolCounts == Spec => []CountersExact
<1>1. PoolInv => CountersExact
  BY DEF PoolInv
<1>2. QED
  BY <1>1, PoolAlways, PTL

\* Stop() does not return before every thread sleeps, and none wakes up until Start().
THEOREM PoolStops == Spec => []StoppedIsQuiet
<1>1. PoolInv => StoppedIsQuiet
  BY DEF PoolInv
<1>2. QED
  BY <1>1, PoolAlways, PTL

\* IsStopped(), which compares two counters, tells that no thread executes a task.
THEOREM StoppedPoolIsIdle == Spec => []IsStoppedMeansIdle
<1>1. ASSUME PoolInv, client = "client", IsStopped
      PROVE  \A w \in Workers : holds[w] = NoTask
  <2>1. currWaiting = maxActive /\ ~exited /\ client # "counting"
    BY <1>1 DEF PoolInv, Phases, IsStopped
  <2>2. \A w \in Workers : pc[w] # "exec"
    BY <1>1, <2>1, AllWait DEF ActivePCs, WaitingPCs
  <2>3. QED
    BY <1>1, <2>2 DEF PoolInv, HeldWhileExecuted
<1>2. PoolInv => IsStoppedMeansIdle
  BY <1>1 DEF IsStoppedMeansIdle
<1>3. QED
  BY <1>2, PoolAlways, PTL

\* AddTask tells one waiting thread only, and only if one waits: still, whenever a task
\* is queued, some thread is about to look for it.
THEOREM NoWakeupIsLost == Spec => []NoLostWakeup
<1>1. ASSUME PoolInv, running, ~exited, taskQueue # <<>>
      PROVE  \/ \E w \in Workers : pc[w] \in {"top", "sleepWake", "waitWake", "exec"}
             \/ client \in {"help", "helpExec"}
  <2>1. CASE currActive < maxActive
    <3>1. At("sleeping") = {} /\ At("unborn") = {} /\ At("left") = {}
      BY <1>1, <2>1 DEF PoolInv, EnoughAwake, Phases
    <3>2. client \notin {"spawning", "counting"}
      BY <1>1 DEF PoolInv, Phases
    <3>3. /\ IsFiniteSet(Active) /\ Cardinality(Active) \in Nat
          /\ Cardinality(Born) \in Nat
      BY FS_Subset, FS_CardinalityType, PoolAssumption DEF Active, Born
    <3>4. Cardinality(Active) < Cardinality(Born)
      BY <1>1, <2>1, <3>2, <3>3 DEF PoolInv, TypeOK, CountersExact, Limits
    <3>5. Active # Born
      BY <3>3, <3>4
    <3>6. PICK w \in Workers : pc[w] \notin ActivePCs
      BY <1>1, <3>1, <3>5 DEF PoolInv, TypeOK, Active, Born, At, ActivePCs, WorkerPCs
    <3>7. pc[w] = "sleepWake"
      BY <1>1, <3>1, <3>6 DEF PoolInv, TypeOK, At, ActivePCs, WorkerPCs
    <3>8. QED
      BY <3>7
  <2>2. QED
    BY <1>1, <2>1 DEF PoolInv, SomebodyLooks
<1>2. PoolInv => NoLostWakeup
  BY <1>1 DEF NoLostWakeup
<1>3. QED
  BY <1>2, PoolAlways, PTL

\* The last thread to run out of tasks calls notify_func when no task is left anywhere.
THEOREM NotifiedWhenIdle == Spec => []NotifyOnlyWhenIdle
<1>1. ASSUME PoolInv, NEW v \in Workers, pc[v] = "calling", NEW t \in Tasks
      PROVE  taskState[t] \notin {"queued", "running"}
  <2>1. /\ ~exited /\ taskQueue = <<>> /\ currWaiting = maxActive
        /\ client \in {"client", "help"}
    BY <1>1 DEF PoolInv, CallerIsLast, At
  <2>2. \A w \in Workers : pc[w] # "exec"
    BY <1>1, <2>1, AllWait DEF ActivePCs, WaitingPCs
  <2>3. helping = NoTask /\ \A w \in Workers : holds[w] = NoTask
    BY <1>1, <2>1, <2>2 DEF PoolInv, HeldWhileExecuted
  <2>4. taskState[t] # "running"
    BY <1>1, <2>3, PoolAssumption DEF PoolInv, TasksAreSomewhere
  <2>5. taskState[t] # "queued"
    BY <1>1, <2>1 DEF PoolInv, TasksAreSomewhere, Positions
  <2>6. QED
    BY <2>4, <2>5
<1>2. PoolInv => NotifyOnlyWhenIdle
  BY <1>1 DEF NotifyOnlyWhenIdle
<1>3. QED
  BY <1>2, PoolAlways, PTL

-----------------------------------------------------------------------------
(* Waiting in WaitFinish, in Stop and in the destructor.                   *)

\* Those whom the client waits for have been woken, and are not done yet.
StillGoing ==
  /\ ~running => At("waiting") = {}
  /\ exited => At("waiting") = {} /\ At("sleeping") = {}
  /\ client = "doneWaiting" => running /\ currWaiting < maxActive
  /\ client \in {"stopWaiting", "finishWaiting"} => currActive # 0

\* The worker that is the last to wait, to sleep or to leave tells the client.
LEMMA LastTells ==
  ASSUME TypeOK, NEW w \in Workers, WorkerStep(w) \/ SpuriousWorkerWake(w)
  PROVE  /\ client' = "doneWaiting" =>
              armed \/ currWaiting' <= currWaiting \/ currWaiting' # maxActive
         /\ client' \in {"stopWaiting", "finishWaiting"} =>
              currActive' >= currActive \/ currActive' # 0
<1>1. /\ currActive \in Int /\ currActive + 1 \in Int /\ currWaiting \in Nat
      /\ client \in ClientPCs
  BY DEF TypeOK
<1>2. /\ WakeFinisher(client) # "doneWaiting"
      /\ WakeStopper(client) \notin {"stopWaiting", "finishWaiting"}
  BY DEF WakeFinisher, WakeStopper
<1>3. ASSUME NEW active \in Int, Sleep(w, active), currWaiting' = currWaiting
      PROVE  /\ currWaiting' <= currWaiting
             /\ client' \in {"stopWaiting", "finishWaiting"} => currActive' # 0
  BY <1>1, <1>2, <1>3 DEF Sleep
<1>4. ASSUME NEW active \in Int, NEW waiting \in Int, active >= currActive, waiting <= currWaiting,
             LookForTask(w, active, waiting)
      PROVE  /\ currActive' >= currActive
             /\ client' = "doneWaiting" =>
                  armed \/ currWaiting' <= currWaiting \/ currWaiting' # maxActive
  <2>1. CASE WaitForTask(w, active, waiting)
    BY <1>1, <1>2, <1>4, <2>1 DEF WaitForTask, LastToWait
  <2>2. CASE TakeTask(w, active, waiting) \/ TakeNothing(w, active, waiting)
    BY <1>1, <1>4, <2>2 DEF TakeTask, TakeNothing
  <2>3. QED
    BY <1>4, <2>1, <2>2 DEF LookForTask
<1>5. CASE EnterLoop(w)
  <2>1. Sleep(w, currActive) \/ LookForTask(w, currActive, currWaiting)
    BY <1>5 DEF EnterLoop, LookForTask
  <2>2. QED
    BY <1>1, <1>3, <1>4, <2>1 DEF Sleep
<1>6. CASE WakeFromSleep(w)
  <2>1. Sleep(w, currActive + 1) \/ LookForTask(w, currActive + 1, currWaiting)
    BY <1>6 DEF WakeFromSleep
  <2>2. QED
    BY <1>1, <1>3, <1>4, <2>1 DEF Sleep
<1>7. CASE WakeFromWait(w)
  <2>1. LookForTask(w, currActive, currWaiting - 1)
    BY <1>7 DEF WakeFromWait
  <2>2. QED
    BY <1>1, <1>4, <2>1
<1>8. CASE CallNotifyFunc(w) \/ EndTask(w) \/ SpuriousWorkerWake(w)
  BY <1>1, <1>8 DEF CallNotifyFunc, EndTask, SpuriousWorkerWake
<1>9. CASE Leave(w)
  BY <1>1, <1>2, <1>9 DEF Leave
<1>10. QED
  BY <1>5, <1>6, <1>7, <1>8, <1>9 DEF WorkerStep

\* No more threads wait than are active, and no more are active than may be.
LEMMA WaitingIsActive ==
  ASSUME PoolInv
  PROVE  /\ Waiting \subseteq Active /\ IsFiniteSet(Active) /\ IsFiniteSet(Waiting)
         /\ currWaiting = Cardinality(Waiting) /\ currWaiting \in Nat
         /\ client # "counting" => currActive = Cardinality(Active) /\ currWaiting <= currActive
<1>1. Waiting \subseteq Active
  BY DEF Waiting, Active, At
<1>2. IsFiniteSet(Active) /\ Cardinality(Active) \in Nat
  BY FS_Subset, FS_CardinalityType, PoolAssumption DEF Active
<1>3. IsFiniteSet(Waiting) /\ Cardinality(Waiting) <= Cardinality(Active)
  BY <1>1, <1>2, FS_Subset
<1>4. currWaiting = Cardinality(Waiting) /\ currWaiting \in Nat
  BY DEF PoolInv, TypeOK, CountersExact
<1>5. client # "counting" => currActive = Cardinality(Active)
  BY <1>2 DEF PoolInv, CountersExact
<1>6. QED
  BY <1>1, <1>2, <1>3, <1>4, <1>5

\* Every step keeps somebody going for the client that waits.
LEMMA StillGoingKept ==
  ASSUME PoolInv, StillGoing, [Next]_vars
  PROVE  StillGoing'
<1>a. /\ TypeOK /\ Phases /\ CallerIsLast /\ Limits /\ client \in ClientPCs
      /\ currActive \in Int /\ currWaiting \in Nat /\ maxActive \in Nat
  BY DEF PoolInv, TypeOK
<1>0. StillGoing' <=>
        /\ ~running' => At("waiting")' = {}
        /\ exited' => At("waiting")' = {} /\ At("sleeping")' = {}
        /\ client' = "doneWaiting" => running' /\ currWaiting' < maxActive'
        /\ client' \in {"stopWaiting", "finishWaiting"} => currActive' # 0
  BY DEF StillGoing
<1>b. /\ ~running => At("waiting") = {}
      /\ exited => At("waiting") = {} /\ At("sleeping") = {}
      /\ client = "doneWaiting" => running /\ currWaiting < maxActive
      /\ client \in {"stopWaiting", "finishWaiting"} => currActive # 0
  BY DEF StillGoing
<1>1. ASSUME NEW w \in Workers, WorkerStep(w) \/ SpuriousWorkerWake(w) PROVE StillGoing'
  <2>1. PICK to \in WorkerPCs \ {"unborn"} : Moves(w, to)
    BY <1>1, <1>a, WorkerMoved
  <2>2. /\ \A v \in Workers : pc'[v] = IF v = w THEN to ELSE pc[v]
        /\ running' = running /\ exited' = exited /\ maxActive' = maxActive
    BY <2>1, <1>a, MovesCount DEF Moves, flags
  <2>3. to = "waiting" => running /\ ~exited
    BY <2>1, <1>a DEF Moves, CallerIsLast, At
  <2>4. to = "sleeping" => ~exited
    BY <2>1 DEF Moves
  <2>5. ~running' => At("waiting")' = {}
    BY <1>b, <2>2, <2>3 DEF At
  <2>6. exited' => At("waiting")' = {} /\ At("sleeping")' = {}
    BY <1>b, <2>2, <2>3, <2>4 DEF At
  <2>7. client' = "doneWaiting" => running' /\ currWaiting' < maxActive'
    <3> SUFFICES ASSUME client' = "doneWaiting" PROVE running' /\ currWaiting' < maxActive'
      OBVIOUS
    <3>1. client = "doneWaiting"
      BY <2>1 DEF Moves, Woken
    <3>2. running /\ currWaiting < maxActive /\ ~armed
      BY <1>a, <1>b, <3>1 DEF Phases
    <3>3. currWaiting' <= currWaiting \/ currWaiting' # maxActive
      BY <1>1, <1>a, <3>2, LastTells
    <3>4. currWaiting' \in Int /\ currWaiting' <= currWaiting + 1
      BY <2>1, <1>a DEF Moves
    <3>5. QED
      BY <1>a, <2>2, <3>2, <3>3, <3>4
  <2>8. client' \in {"stopWaiting", "finishWaiting"} => currActive' # 0
    <3> SUFFICES ASSUME client' \in {"stopWaiting", "finishWaiting"}, currActive' = 0
                 PROVE  FALSE
      OBVIOUS
    <3>1. client \in {"stopWaiting", "finishWaiting"} /\ currActive # 0
      <4>1. client = client'
        BY <2>1 DEF Moves, Woken
      <4>2. QED
        BY <1>b, <4>1
    <3>2. currActive <= 0
      BY <1>1, <1>a, LastTells
    <3>3. currActive \in Nat
      BY <3>1, <1>a, WaitingIsActive
    <3>4. QED
      BY <3>1, <3>2, <3>3
  <2>9. QED
    BY <1>0, <2>5, <2>6, <2>7, <2>8
<1>2. ASSUME \A w \in Workers : /\ pc'[w] = "waiting" => pc[w] = "waiting"
                                /\ pc'[w] = "sleeping" => pc[w] = "sleeping",
             running' = running, exited' = exited
      PROVE  /\ ~running' => At("waiting")' = {}
             /\ exited' => At("waiting")' = {} /\ At("sleeping")' = {}
  BY <1>2, <1>b DEF At
<1>3. ASSUME client' \notin {"doneWaiting", "stopWaiting", "finishWaiting"}
      PROVE  /\ client' = "doneWaiting" => running' /\ currWaiting' < maxActive'
             /\ client' \in {"stopWaiting", "finishWaiting"} => currActive' # 0
  BY <1>3
<1>4. ASSUME NEW t \in Tasks, PushTask(t) PROVE StillGoing'
  <2>1. \A w \in Workers : /\ pc'[w] = "waiting" => pc[w] = "waiting"
                           /\ pc'[w] = "sleeping" => pc[w] = "sleeping"
    BY <1>4, <1>a DEF PushTask, NotifyOneWaiting, At, TypeOK
  <2>2. UNCHANGED <<running, exited, maxActive, client, currActive, currWaiting>>
    BY <1>4 DEF PushTask, flags
  <2>3. QED
    BY <1>0, <1>2, <1>b, <2>1, <2>2
<1>5. ASSUME NEW w \in Workers, SpawnThread(w) PROVE StillGoing'
  <2>1. \A v \in Workers : /\ pc'[v] = "waiting" => pc[v] = "waiting"
                           /\ pc'[v] = "sleeping" => pc[v] = "sleeping"
    BY <1>5, <1>a DEF SpawnThread, TypeOK
  <2>2. UNCHANGED <<running, exited>> /\ client' = "counting"
    BY <1>5 DEF SpawnThread, flags
  <2>3. QED
    BY <1>0, <1>2, <1>3, <2>1, <2>2
<1>6. ASSUME UNCHANGED <<running, exited, pc>>,
             client' \notin {"doneWaiting", "stopWaiting", "finishWaiting"}
      PROVE  StillGoing'
  BY <1>0, <1>2, <1>3, <1>6
<1>7. CASE CountThread \/ Help \/ EndOwnTask \/ Drain \/ JoinAndClear \/ WaitFinish
  BY <1>6, <1>7
     DEF CountThread, Help, TakeAsClient, EndOwnTask, Drain, JoinAndClear, WaitFinish, flags
<1>8. ASSUME (\E n \in 1..Cardinality(Workers) : SetMaxActiveThreadNum(n))
             \/ \E f \in BOOLEAN : SetNotifyFunc(f)
      PROVE  StillGoing'
  BY <1>6, <1>8 DEF SetMaxActiveThreadNum, SetNotifyFunc, flags
<1>9. CASE AwaitDone
  <2>1. UNCHANGED <<running, exited, pc, maxActive, currWaiting>>
        /\ client' \in {"doneWaiting", "finishStop"}
        /\ (client' = "doneWaiting" => currWaiting # maxActive /\ running /\ ~exited)
        /\ client = "awaitDone"
    BY <1>9 DEF AwaitDone, flags
  <2>2. currWaiting <= currActive
    BY <2>1, WaitingIsActive
  <2>3. ~exited => currWaiting <= maxActive
    BY <1>a, <2>2 DEF Limits
  <2>4. client' = "doneWaiting" => running' /\ currWaiting' < maxActive'
    BY <1>a, <2>1, <2>3
  <2>5. QED
    BY <1>0, <1>2, <2>1, <2>4
<1>10. CASE StopAgain
  BY <1>0, <1>2, <1>10 DEF StopAgain, flags
<1>11. CASE SpuriousClientWake
  <2>1. client' \notin {"doneWaiting", "stopWaiting", "finishWaiting"}
    BY <1>11 DEF SpuriousClientWake, WakeFinisher, WakeStopper
  <2>2. QED
    BY <1>6, <1>11, <2>1 DEF SpuriousClientWake, flags
<1>12. CASE Stop
  <2>1. \A w \in Workers : pc'[w] # "waiting" /\ (pc'[w] = "sleeping" => pc[w] = "sleeping")
    BY <1>12, <1>a DEF Stop, WakeAll, TypeOK
  <2>2. client' \in {"stopWaiting", "finishWaiting"} => currActive' # 0
    BY <1>12 DEF Stop
  <2>3. client' # "doneWaiting" /\ exited' = exited
    BY <1>12 DEF Stop
  <2>4. QED
    BY <1>0, <1>b, <2>1, <2>2, <2>3 DEF At
<1>13. CASE Start
  <2>1. ~exited' /\ running' /\ client' = "client"
    BY <1>13, <1>a DEF Start, Phases
  <2>2. QED
    BY <1>0, <2>1
<1>14. CASE Exit
  <2>1. \A w \in Workers : pc'[w] \notin {"waiting", "sleeping"}
    BY <1>14, <1>a DEF Exit, TypeOK
  <2>2. client' = "joining"
    BY <1>14 DEF Exit
  <2>3. QED
    BY <1>0, <2>1, <2>2 DEF At
<1>15. CASE UNCHANGED vars
  BY <1>15, <1>0, <1>b DEF vars, flags, queueVars, At
<1>16. QED
  BY <1>1, <1>4, <1>5, <1>7, <1>8, <1>9, <1>10, <1>11, <1>12, <1>13, <1>14, <1>15
     DEF Next, ClientStep, ClientCall, AddTask, AddTaskFromClient, AddTaskFromWorker

\* Whenever the client waits, for the work to be done, for the pool to stop or for its threads
\* to end, there is a thread that it waits for, awake and not kept waiting by anyone: what
\* WaitFinish, Stop() and ~MplThreadPool return by.
ClientIsServed ==
  /\ client \in {"doneWaiting", "stopWaiting", "finishWaiting", "joining"} => MutexFree
  /\ client = "doneWaiting" => \E w \in Workers : pc[w] \in {"top", "exec", "sleepWake"}
  /\ client \in {"stopWaiting", "finishWaiting"} =>
       \E w \in Workers : pc[w] \in {"top", "exec", "waitWake"}
  /\ client = "joining" =>
       \A w \in Workers : pc[w] \in {"top", "exec", "sleepWake", "waitWake", "left"}

\* The client is never left waiting for threads that all wait themselves: the last one to run
\* out of tasks, to fall asleep or to leave finds it there.
THEOREM ClientNeverWaitsInVain == Spec => []ClientIsServed
<1>1. ASSUME PoolInv, StillGoing PROVE ClientIsServed
  <2>a. /\ TypeOK /\ Phases /\ CallerIsLast /\ Limits /\ EnoughAwake /\ CountersExact
        /\ currActive \in Int /\ currWaiting \in Nat /\ maxActive \in Nat
        /\ pc \in [Workers -> WorkerPCs]
    BY <1>1 DEF PoolInv, TypeOK
  <2>1. client \notin {"client", "help"} => At("calling") = {} /\ MutexFree
    BY <2>a DEF CallerIsLast, At, MutexFree
  <2>2. client \notin {"spawning", "counting"} => At("unborn") = {}
    BY <2>a DEF Phases
  <2>3. CASE client = "doneWaiting"
    <3>1. /\ running /\ ~exited /\ currWaiting < maxActive /\ At("left") = {}
          /\ currActive <= maxActive
      BY <1>1, <2>3, <2>a DEF StillGoing, Phases, Limits
    <3>2. ASSUME currActive = maxActive
          PROVE  \E w \in Workers : pc[w] \in {"top", "exec", "sleepWake"}
      <4>1. Waiting # Active
        BY <2>3, <3>1, <3>2, <1>1, WaitingIsActive
      <4>2. PICK w \in Workers : w \in Active /\ w \notin Waiting
        <5>1. Waiting \subseteq Active
          BY <1>1, WaitingIsActive
        <5>2. QED
          BY <4>1, <5>1 DEF Active
      <4>3. pc[w] \in {"top", "exec"}
        BY <4>2, <2>a DEF Active, Waiting, At, WorkerPCs
      <4>4. QED
        BY <4>3
    <3>3. ASSUME currActive < maxActive
          PROVE  \E w \in Workers : pc[w] \in {"top", "exec", "sleepWake"}
      <4>1. At("sleeping") = {}
        BY <3>1, <3>3, <2>a DEF EnoughAwake
      <4>2. Cardinality(Active) < Cardinality(Born)
        <5>1. Cardinality(Active) = currActive
          BY <2>3, <1>1, WaitingIsActive
        <5>2. maxActive <= Cardinality(Born) /\ Cardinality(Born) \in Nat
          <6>1. Cardinality(Born) \in Nat
            BY FS_Subset, FS_CardinalityType, PoolAssumption DEF Born
          <6>2. QED
            BY <2>3, <2>a, <6>1 DEF Limits
        <5>3. QED
          BY <2>a, <3>3, <5>1, <5>2
      <4>3. Active # Born
        <5>1. Cardinality(Born) \in Nat
          BY FS_Subset, FS_CardinalityType, PoolAssumption DEF Born
        <5>2. QED
          BY <4>2, <5>1
      <4>4. PICK w \in Workers : w \in Born /\ w \notin Active
        BY <4>3 DEF Active, Born, At
      <4>5. pc[w] = "sleepWake"
        BY <4>1, <4>4, <3>1, <2>a DEF Active, Born, At, WorkerPCs
      <4>6. QED
        BY <4>5
    <3>4. \E w \in Workers : pc[w] \in {"top", "exec", "sleepWake"}
      BY <3>1, <3>2, <3>3, <2>a
    <3>5. QED
      BY <2>1, <2>3, <3>4 DEF ClientIsServed
  <2>4. CASE client \in {"stopWaiting", "finishWaiting"}
    <3>1. ~running /\ At("waiting") = {} /\ currActive # 0
      BY <1>1, <2>4, <2>a DEF StillGoing, Phases
    <3>2. Active # {}
      BY <1>1, <2>4, <3>1, WaitingIsActive, FS_EmptySet
    <3>3. PICK w \in Workers : w \in Active
      BY <3>2 DEF Active
    <3>4. pc[w] \in {"top", "exec", "waitWake"}
      BY <2>1, <2>4, <3>1, <3>3, <2>a DEF Active, At, WorkerPCs
    <3>5. QED
      BY <2>1, <2>4, <3>4 DEF ClientIsServed
  <2>5. CASE client = "joining"
    <3>1. exited /\ At("waiting") = {} /\ At("sleeping") = {}
      BY <1>1, <2>5, <2>a DEF StillGoing, Phases
    <3>2. \A w \in Workers : pc[w] \in {"top", "exec", "sleepWake", "waitWake", "left"}
      BY <2>1, <2>2, <2>5, <3>1, <2>a DEF At, WorkerPCs
    <3>3. QED
      BY <2>1, <2>5, <3>2 DEF ClientIsServed
  <2>6. QED
    BY <2>3, <2>4, <2>5 DEF ClientIsServed
<1>2. Init => StillGoing
  BY DEF Init, StillGoing, At
<1>3. PoolInv /\ StillGoing /\ [Next]_vars => StillGoing'
  BY StillGoingKept
<1>4. PoolInv /\ StillGoing => ClientIsServed
  BY <1>1
<1>5. QED
  BY <1>2, <1>3, <1>4, PoolAlways, PTL DEF Spec

-----------------------------------------------------------------------------
(* What the pool promises its client.                                      *)

Finishing == {"help", "helpExec", "awaitDone", "doneWaiting", "finishStop",
              "finishWaiting", "finishCheck", "drain", "drainExec"}

LEMMA AbstractClientIs ==
  /\ abstractClient = IF client \in Finishing THEN "finishing"
                      ELSE IF client = "deleted" THEN "deleted" ELSE "calling"
  /\ abstractClient' = IF client' \in Finishing THEN "finishing"
                       ELSE IF client' = "deleted" THEN "deleted" ELSE "calling"
  BY DEF abstractClient, Finishing

\* Every step of the pool is a step of TaskPool, or none.
LEMMA StepImplements ==
  ASSUME PoolInv, [Next]_vars
  PROVE  [Abstract!Next]_(Abstract!vars)
<1>a. /\ TypeOK /\ Phases /\ HeldWhileExecuted /\ TasksAreSomewhere /\ StoppedIsQuiet
      /\ NoTask \notin Tasks /\ client \in ClientPCs
      /\ holds \in [Workers -> TaskOrNone] /\ helping \in TaskOrNone
  BY PoolAssumption DEF PoolInv, TypeOK
<1>0. CASE UNCHANGED <<taskState, abstractClient>>
  BY <1>0 DEF Abstract!vars
<1>b. ASSUME taskQueue # <<>>, UNCHANGED abstractClient,
             taskState' = [taskState EXCEPT ![Head(taskQueue)] = "running"]
      PROVE  Abstract!Next
  <2>1. Head(taskQueue) \in Tasks /\ 1 \in Positions /\ Head(taskQueue) = taskQueue[1]
    BY <1>a, <1>b, QueueSplits DEF TypeOK, Positions
  <2>2. taskState[Head(taskQueue)] = "queued"
    BY <1>a, <2>1 DEF TasksAreSomewhere
  <2>3. Abstract!Begin(Head(taskQueue))
    BY <1>b, <2>2 DEF Abstract!Begin, Abstract!Move
  <2>4. QED
    BY <2>1, <2>3 DEF Abstract!Next
<1>c. ASSUME NEW e \in Tasks, taskState[e] = "running", UNCHANGED abstractClient,
             taskState' = [taskState EXCEPT ![e] = "done"]
      PROVE  Abstract!Next
  BY <1>c DEF Abstract!Next, Abstract!End, Abstract!Move
<1>1. ASSUME NEW w \in Workers, NEW to \in WorkerPCs \ {"unborn"}, Moves(w, to)
      PROVE  [Abstract!Next]_(Abstract!vars)
  <2>1. UNCHANGED abstractClient
    BY <1>1, AbstractClientIs DEF Moves, Woken, Finishing
  <2>2. CASE to = "exec"
    BY <1>1, <1>b, <2>1, <2>2 DEF Moves
  <2>3. CASE pc[w] = "exec"
    <3>1. holds[w] \in Tasks /\ taskState[holds[w]] = "running"
      BY <1>a, <2>3 DEF HeldWhileExecuted, TasksAreSomewhere, TaskOrNone
    <3>2. QED
      BY <1>1, <1>c, <2>1, <2>3, <3>1 DEF Moves
  <2>4. CASE to # "exec" /\ pc[w] # "exec"
    BY <1>1, <1>0, <2>1, <2>4 DEF Moves, queueVars
  <2>5. QED
    BY <2>2, <2>3, <2>4
<1>2. ASSUME NEW t \in Tasks, PushTask(t),
             \/ client \in {"client", "helpExec", "drainExec"}
             \/ \E w \in Workers : pc[w] = "exec"
      PROVE  Abstract!Next
  <2>1. UNCHANGED abstractClient
    BY <1>2, AbstractClientIs DEF PushTask
  <2>2. abstractClient = "calling" \/ \E u \in Tasks : taskState[u] = "running"
    <3>1. CASE client = "client"
      BY <3>1, AbstractClientIs DEF Finishing
    <3>2. CASE client \in {"helpExec", "drainExec"}
      BY <3>2, <1>a DEF HeldWhileExecuted, TasksAreSomewhere, TaskOrNone
    <3>3. ASSUME NEW w \in Workers, pc[w] = "exec"
          PROVE  \E u \in Tasks : taskState[u] = "running"
      BY <3>3, <1>a DEF HeldWhileExecuted, TasksAreSomewhere, TaskOrNone
    <3>4. QED
      BY <1>2, <3>1, <3>2, <3>3
  <2>3. Abstract!Submit(t)
    BY <1>2, <2>1, <2>2 DEF PushTask, Abstract!Submit, Abstract!Move
  <2>4. QED
    BY <2>3 DEF Abstract!Next
<1>3. ASSUME NEW w \in Workers, SpawnThread(w) PROVE [Abstract!Next]_(Abstract!vars)
  BY <1>3, <1>0, AbstractClientIs DEF SpawnThread, Finishing, queueVars
<1>4. CASE CountThread \/ Stop \/ Start \/ Exit
  BY <1>4, <1>0, AbstractClientIs DEF CountThread, Stop, Start, Exit, Finishing, queueVars
<1>5. CASE ClientGoesOn /\ ~WaitFinish
  <2>1. UNCHANGED abstractClient
    <3>1. WakeStopper(client) \in ClientPCs
      BY <1>a, WakingTyped
    <3>2. CASE AwaitDone \/ StopAgain
      BY <3>2, AbstractClientIs DEF AwaitDone, StopAgain, Finishing
    <3>3. CASE SpuriousClientWake
      <4>1. \/ client = "stopWaiting" /\ client' = "stopCheck"
            \/ client = "finishWaiting" /\ client' = "finishCheck"
            \/ client = "doneWaiting" /\ client' = "awaitDone"
        BY <3>1, <3>3, <1>a, WakingTyped DEF SpuriousClientWake
      <4>2. QED
        BY <4>1, AbstractClientIs DEF Finishing
    <3>4. QED
      BY <1>5, <3>2, <3>3 DEF ClientGoesOn
  <2>2. QED
    BY <1>5, <1>0, <2>1 DEF ClientGoesOn, queueVars
<1>6. CASE WaitFinish
  BY <1>6, AbstractClientIs
     DEF WaitFinish, Finishing, queueVars, Abstract!Next, Abstract!CallWaitFinish
<1>7. CASE \/ Help /\ TakeAsClient("helpExec")
           \/ Drain /\ TakeAsClient("drainExec")
  <2>1. UNCHANGED abstractClient
    BY <1>7, AbstractClientIs DEF Help, Drain, TakeAsClient, Finishing
  <2>2. QED
    BY <1>7, <1>b, <2>1 DEF Help, Drain, TakeAsClient
<1>8. CASE EndOwnTask
  <2>1. UNCHANGED abstractClient
    BY <1>8, AbstractClientIs DEF EndOwnTask, Finishing
  <2>2. helping \in Tasks /\ taskState[helping] = "running"
    BY <1>8, <1>a DEF EndOwnTask, HeldWhileExecuted, TasksAreSomewhere, TaskOrNone
  <2>3. QED
    BY <1>8, <1>c, <2>1, <2>2 DEF EndOwnTask
<1>9. CASE Help /\ UNCHANGED queueVars
  BY <1>9, <1>0, AbstractClientIs DEF Help, TakeAsClient, Finishing, queueVars
<1>10. CASE Drain /\ taskQueue = <<>>
  <2>1. ~running /\ helping = NoTask
    BY <1>10, <1>a DEF Drain, Phases, HeldWhileExecuted
  <2>2. \A w \in Workers : holds[w] = NoTask
    BY <1>10, <1>a, <2>1 DEF Drain, StoppedIsQuiet
  <2>3. Abstract!Pending = {}
    BY <1>10, <1>a, <2>1, <2>2 DEF Abstract!Pending, TasksAreSomewhere, Positions
  <2>4. QED
    BY <1>10, <2>3, AbstractClientIs
       DEF Drain, Finishing, queueVars, Abstract!Next, Abstract!ReturnFromWaitFinish
<1>11. CASE JoinAndClear
  <2>1. helping = NoTask /\ \A w \in Workers : holds[w] = NoTask
    BY <1>11, <1>a DEF JoinAndClear, HeldWhileExecuted, At
  <2>2. \A t \in Tasks : taskState[t] # "running"
    BY <1>a, <2>1 DEF TasksAreSomewhere
  <2>3. QED
    BY <1>11, <2>2, AbstractClientIs
       DEF JoinAndClear, Finishing, Abstract!Next, Abstract!Delete
<1>12. ASSUME NEW n \in 1..Cardinality(Workers), SetMaxActiveThreadNum(n)
       PROVE  [Abstract!Next]_(Abstract!vars)
  BY <1>12, <1>0, AbstractClientIs DEF SetMaxActiveThreadNum, queueVars
<1>13. ASSUME NEW f \in BOOLEAN, SetNotifyFunc(f) PROVE [Abstract!Next]_(Abstract!vars)
  BY <1>13, <1>0, AbstractClientIs DEF SetNotifyFunc, queueVars
<1>14. CASE UNCHANGED vars
  BY <1>14, <1>0, AbstractClientIs DEF vars
<1>15. Help \/ Drain => \/ Help /\ (TakeAsClient("helpExec") \/ UNCHANGED queueVars)
                        \/ Drain /\ (TakeAsClient("drainExec") \/ taskQueue = <<>>)
  BY DEF Help, Drain
<1>16. QED
  BY <1>a, StepKinds, <1>1, <1>2, <1>3, <1>4, <1>5, <1>6, <1>7, <1>8, <1>9, <1>10, <1>11,
     <1>12, <1>13, <1>14, <1>15

\* A submitted task is executed at most once, by whatever thread, and WaitFinish does not
\* return while one is pending: the pool implements TaskPool.
THEOREM PoolImplements == Spec => ImplementsTaskPool
<1>1. Init => Abstract!Init
  BY AbstractClientIs DEF Init, Abstract!Init, Finishing
<1>2. PoolInv /\ [Next]_vars => [Abstract!Next]_(Abstract!vars)
  BY StepImplements
<1>3. QED
  BY <1>1, <1>2, PoolAlways, PTL DEF Spec, ImplementsTaskPool, Abstract!Spec
=============================================================================
