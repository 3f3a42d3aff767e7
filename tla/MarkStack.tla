----------------------------- MODULE MarkStack -----------------------------
(***************************************************************************)
(* The mark stack: the nodes that carry marked objects between the threads *)
(* (PageList, mark_stack.h), the two nodes of each thread (GCWorkStack,    *)
(* gc_work_stack.h), the node of the write barrier (PageGroups), the loop  *)
(* that visits them (GCMarking, gc_marking.cc), and the order in which the *)
(* collector posts tasks and waits for them (collector_ms.cc).             *)
(*                                                                         *)
(* The heap is abstracted: a visit may push any object not marked yet.     *)
(* That WaitFinish returns when no task is queued or running is what       *)
(* ThreadPool.tla shows.                                                   *)
(***************************************************************************)
EXTENDS Naturals, FiniteSets

CONSTANTS
  Obj,
  Worker,        \* the threads of the pool
  Client,        \* the interpreter's thread: work stack 0, executes tasks as it waits
  Barrier,       \* stands for PageGroups::node among the stacks
  Node,          \* the nodes there is memory for
  None,
  NodeSize,      \* the entries of a node
  InitialNodes,  \* the nodes of the first page
  PageNodes,     \* the nodes of a page allocated later
  MaxPages,      \* kMaxPageSize
  RootTasks      \* bound: the tasks that scan roots (the code posts four or five)

ASSUME MarkStackAssumption ==
  /\ Client \notin Worker /\ Barrier \notin Worker \cup {Client}
  /\ None \notin Node \cup Obj
  /\ NodeSize \in Nat \ {0} /\ MaxPages \in Nat \ {0} /\ RootTasks \in Nat \ {0}
  /\ InitialNodes \subseteq Node /\ PageNodes \in Nat \ {0}

Thread == Worker \cup {Client}
Stack == Thread \cup {Barrier}
Kind == {"scan", "root", "execute"}   \* scan roots; scan them and execute; execute

VARIABLES
  mapped, pageCount,      \* the nodes in mapped pages, the number of pages
  freeNodes, retiredNodes,
  holds,                  \* the entries of each node
  inNode, outNode,        \* of each work stack; inNode[Barrier] is PageGroups::node
  hand,                   \* marked, to be pushed once its stack has a new node
  current, left,          \* the node a thread goes through and the entries to visit
  task,                   \* the task that a thread executes, or "none"
  queue,                  \* how many tasks of each kind are queued
  phase,                  \* what the collector does
  marked, visited         \* the mark bitmap; the marked objects whose visit ended

pages == <<mapped, pageCount, freeNodes>>
stacks == <<inNode, outNode, hand>>
visits == <<current, left, visited>>
pool == <<task, queue>>
vars == <<pages, retiredNodes, holds, stacks, visits, pool, phase, marked>>

Phase == {"idle", "prologue", "collect", "shapes", "retire", "mark", "remark", "wait", "final",
          "drain", "retain", "redrain", "sweep"}

TypeOK ==
  /\ mapped \subseteq Node /\ freeNodes \subseteq Node /\ retiredNodes \subseteq Node
  /\ pageCount \in Nat
  /\ holds \in [Node -> SUBSET Obj]
  /\ inNode \in [Stack -> Node \cup {None}]
  /\ outNode \in [Thread -> Node \cup {None}]
  /\ hand \in [Stack -> Obj \cup {None}]
  /\ current \in [Thread -> Node \cup {None}]
  /\ left \in [Thread -> SUBSET Obj]
  /\ task \in [Thread -> Kind \cup {"none"}]
  /\ queue \in [Kind -> Nat]
  /\ phase \in Phase
  /\ marked \subseteq Obj /\ visited \subseteq Obj

\* GCMarking::Init
Init ==
  /\ mapped = InitialNodes /\ pageCount = 1
  /\ freeNodes = InitialNodes /\ retiredNodes = {}
  /\ holds = [n \in Node |-> {}]
  /\ inNode = [s \in Stack |-> None] /\ outNode = [t \in Thread |-> None]
  /\ hand = [s \in Stack |-> None]
  /\ current = [t \in Thread |-> None] /\ left = [t \in Thread |-> {}]
  /\ task = [t \in Thread |-> "none"] /\ queue = [k \in Kind |-> 0]
  /\ phase = "idle"
  /\ marked = {} /\ visited = {}

-----------------------------------------------------------------------------
(* Nodes.  Free nodes are all alike, and so are the work stacks that a     *)
(* loop goes through: CHOOSE fixes which comes next.                       *)

NewPage == CHOOSE page \in SUBSET (Node \ mapped) : Cardinality(page) = PageNodes
HasMemory == \E page \in SUBSET (Node \ mapped) : Cardinality(page) = PageNodes
Available == IF freeNodes # {} THEN freeNodes ELSE NewPage
FreeNode == CHOOSE n \in Available : TRUE

\* freeNodes.Pop, or CreateFreeNodeList with a new page.
TakeFreeNode ==
  /\ freeNodes' = Available \ {FreeNode}
  /\ IF freeNodes # {}
       THEN UNCHANGED <<mapped, pageCount>>
       ELSE HasMemory /\ mapped' = mapped \cup NewPage /\ pageCount' = pageCount + 1

IsFull(n) == Cardinality(holds[n]) = NodeSize

\* Whether the pool can distribute a task depends on counters that are read without a
\* lock: either answer is possible at any time.
PostInNode == queue' = queue \/ queue' = [queue EXCEPT !["execute"] = @ + 1]

PostTask == queue' = [queue EXCEPT !["execute"] = @ + 1]

\* GCWorkStack::push_back and PushBarrierRef of an object that was not marked.  A full
\* node is retired before another is taken.
PushBack(s, o) ==
  /\ hand[s] = None /\ o \notin marked
  /\ marked' = marked \cup {o}
  /\ IF inNode[s] # None /\ ~IsFull(inNode[s])
       THEN /\ holds' = [holds EXCEPT ![inNode[s]] = @ \cup {o}]
            /\ UNCHANGED <<retiredNodes, inNode, hand>>
       ELSE /\ hand' = [hand EXCEPT ![s] = o]
            /\ retiredNodes' = retiredNodes \cup ({inNode[s]} \ {None})
            /\ inNode' = [inNode EXCEPT ![s] = None]
            /\ UNCHANGED holds
  /\ UNCHANGED <<pages, outNode, visits, pool, phase>>

\* The rest of EnsureAvailNode and of what called it: a work stack has a node as long as
\* it is in use, the barrier once it has something to push.
NeedsNode(s) ==
  /\ inNode[s] = None
  /\ \/ hand[s] # None
     \/ s # Barrier /\ phase \notin {"idle", "prologue", "sweep"}

RefillNode(s) ==
  /\ NeedsNode(s) /\ TakeFreeNode
  /\ inNode' = [inNode EXCEPT ![s] = FreeNode]
  /\ holds' = [holds EXCEPT ![FreeNode] = @ \cup ({hand[s]} \ {None})]
  /\ hand' = [hand EXCEPT ![s] = None]
  /\ IF hand[s] # None /\ s # Barrier THEN PostInNode ELSE UNCHANGED queue
  /\ UNCHANGED <<retiredNodes, outNode, visits, task, phase, marked>>

Ready(s) == hand[s] = None /\ ~NeedsNode(s)

\* GCWorkStack::RetireNode: whoever executes next finds the node.
Retire(t) ==
  /\ holds[inNode[t]] # {}
  /\ retiredNodes' = retiredNodes \cup {inNode[t]}
  /\ inNode' = [inNode EXCEPT ![t] = None]
  /\ PostTask
  /\ UNCHANGED <<pages, holds, outNode, hand, visits, task, marked>>

-----------------------------------------------------------------------------
(* The threads that execute tasks.                                         *)

PoolRuns == phase \in {"collect", "mark", "remark", "wait", "drain", "redrain"}
ClientWaits == phase \in {"collect", "wait", "drain", "redrain"}

TakeTask(t, k) ==
  /\ task[t] = "none" /\ queue[k] > 0
  /\ PoolRuns /\ (t = Client => ClientWaits)
  /\ task' = [task EXCEPT ![t] = k]
  /\ queue' = [queue EXCEPT ![k] = @ - 1]
  /\ UNCHANGED <<pages, retiredNodes, holds, stacks, visits, phase, marked>>

\* A task that scans roots pushes them, and a visit pushes what the fields refer to.
TaskPushes(t, o) ==
  /\ Ready(t)
  /\ task[t] \in {"scan", "root"} \/ left[t] # {}
  /\ PushBack(t, o)

ScanEnds(t) ==
  /\ task[t] \in {"scan", "root"} /\ Ready(t)
  /\ task' = [task EXCEPT ![t] = IF @ = "root" THEN "execute" ELSE "none"]
  /\ UNCHANGED <<pages, retiredNodes, holds, stacks, visits, queue, phase, marked>>

Executes(t) == task[t] = "execute" /\ Ready(t) /\ current[t] = None

StartNode(t, n) ==
  /\ current' = [current EXCEPT ![t] = n]
  /\ left' = [left EXCEPT ![t] = holds[n]]
  /\ UNCHANGED <<pages, holds, hand, visited, pool, phase, marked>>

\* PopOutNode: the thread's own entries first, then a node that was retired.
PopOwnNode(t) ==
  /\ Executes(t) /\ holds[inNode[t]] # {}
  /\ inNode' = [inNode EXCEPT ![t] = outNode[t]]
  /\ outNode' = [outNode EXCEPT ![t] = inNode[t]]
  /\ StartNode(t, inNode[t])
  /\ UNCHANGED retiredNodes

OtherNodes(t) == IF holds[outNode[t]] # {} THEN {outNode[t]} ELSE retiredNodes

PopOtherNode(t, n) ==
  /\ Executes(t) /\ holds[inNode[t]] = {}
  /\ n \in OtherNodes(t)
  /\ retiredNodes' = retiredNodes \ {n}
  /\ StartNode(t, n)
  /\ UNCHANGED <<inNode, outNode>>

ExecuteEnds(t) ==
  /\ Executes(t) /\ holds[inNode[t]] = {} /\ OtherNodes(t) = {}
  /\ task' = [task EXCEPT ![t] = "none"]
  /\ UNCHANGED <<pages, retiredNodes, holds, stacks, visits, queue, phase, marked>>

\* VisitEntry has read the last field of o.
VisitEnds(t, o) ==
  /\ Ready(t) /\ o \in left[t]
  /\ left' = [left EXCEPT ![t] = @ \ {o}]
  /\ visited' = visited \cup ({o} \cap marked)
  /\ UNCHANGED <<pages, retiredNodes, holds, stacks, current, pool, phase, marked>>

\* Mutant: the thread's own node is freed too.
FreedWithOwn(t) == {current[t]}

\* FinishNode: the thread's own node stays with it.
FreedNode(t) == {current[t]} \ {outNode[t]}
ResetNode(n) == [holds EXCEPT ![n] = {}]

FinishNode(t) ==
  /\ current[t] # None /\ left[t] = {} /\ Ready(t)
  /\ holds' = ResetNode(current[t])
  /\ freeNodes' = freeNodes \cup FreedNode(t)
  /\ current' = [current EXCEPT ![t] = None]
  /\ UNCHANGED <<mapped, pageCount, retiredNodes, stacks, left, visited, pool, phase, marked>>

-----------------------------------------------------------------------------
(* The interpreter's thread: the collector and the write barrier.          *)

\* Mutant: a node is taken back before its stack has a new one.
PoolIdleOnly == queue = [k \in Kind |-> 0] /\ \A t \in Thread : task[t] = "none"

\* What WaitFinish waits for.
PoolIdle == queue = [k \in Kind |-> 0] /\ \A t \in Thread : task[t] = "none" /\ Ready(t)

Continue(p, q) ==
  /\ phase = p /\ phase' = q
  /\ UNCHANGED <<pages, retiredNodes, holds, stacks, visits, task, marked>>

WaitFinish(p, q) == PoolIdle /\ Continue(p, q) /\ UNCHANGED queue

\* GCMarking::Prologue: InitNode gives one work stack after the other its two nodes.
Prologue == Continue("idle", "prologue") /\ UNCHANGED queue

InitInNode(t) ==
  /\ phase = "prologue" /\ inNode[t] = None /\ outNode[t] = None
  /\ t = CHOOSE u \in Thread : outNode[u] = None
  /\ TakeFreeNode
  /\ inNode' = [inNode EXCEPT ![t] = FreeNode]
  /\ UNCHANGED <<retiredNodes, holds, outNode, hand, visits, pool, phase, marked>>

InitOutNode(t) ==
  /\ phase = "prologue" /\ outNode[t] = None
  /\ inNode[t] # None /\ TakeFreeNode
  /\ outNode' = [outNode EXCEPT ![t] = FreeNode]
  /\ UNCHANGED <<retiredNodes, holds, inNode, hand, visits, pool, phase, marked>>

\* ConcurrentMarkPhase scans the roots first; ParallelMarkPhase visits them at once.
PostRoots(k, p) ==
  /\ \A t \in Thread : outNode[t] # None
  /\ Continue("prologue", p)
  /\ queue' = [queue EXCEPT ![k] = @ + RootTasks]

StartConcurrentMark == PostRoots("scan", "collect")
StartParallelMark == PostRoots("root", "wait")

RootsCollected == WaitFinish("collect", "shapes")

\* ScanShapeArray on work stack 0, in ConcurrentMark and while others execute in remark;
\* and VisitLEPUSLepusRef in RetainIf.
ClientPushes(o) ==
  /\ phase \in {"shapes", "remark", "retain"} /\ Ready(Client)
  /\ PushBack(Client, o)

\* CombinedWriteBarrier: of the interpreter's stores while marking, and of
\* AddObjectDuringFinalizer.
WriteBarrier(o) ==
  /\ phase \in {"mark", "final"} /\ Ready(Barrier)
  /\ PushBack(Barrier, o)

\* Mutant: the node is forgotten.
BarrierNodeForgotten == retiredNodes

BarrierNodeRetired == retiredNodes \cup ({inNode[Barrier]} \ {None})

RetireBarrierNode ==
  /\ Ready(Barrier)
  /\ retiredNodes' = BarrierNodeRetired
  /\ inNode' = [inNode EXCEPT ![Barrier] = None]
  /\ UNCHANGED <<pages, holds, outNode, hand, visits, task, marked>>

\* PostFinalRemarkTask posts a task for the node, and the roots again.
StartRemark ==
  /\ phase = "mark" /\ RetireBarrierNode
  /\ queue' = [queue EXCEPT !["execute"] = @ + 1, !["root"] = @ + RootTasks]
  /\ phase' = "remark"

\* RetireNode on work stack 0, if it has entries, before WaitFinish.
RetireClientNode(p, q) ==
  /\ phase = p /\ Ready(Client) /\ phase' = q
  /\ \/ Retire(Client)
     \/ holds[inNode[Client]] = {} /\ Continue(p, q) /\ UNCHANGED queue

ShapesScanned == RetireClientNode("shapes", "retire")

\* AddMarkTask(false) retires the node of every work stack; then the pool starts.
AddMarkTask(t) ==
  /\ phase = "retire" /\ \A u \in Thread : Ready(u)
  /\ holds[inNode[t]] # {} /\ t = CHOOSE u \in Thread : holds[inNode[u]] # {}
  /\ Retire(t)
  /\ UNCHANGED phase

StartMarking ==
  /\ phase = "retire" /\ \A t \in Thread : Ready(t) /\ holds[inNode[t]] = {}
  /\ Continue("retire", "mark") /\ UNCHANGED queue

RemarkShapesScanned == RetireClientNode("remark", "wait")
RemarkEnds == WaitFinish("wait", "final")

\* Mutant: no task is posted for the node.
PostNothing == UNCHANGED queue

PostForBarrierNode == PostTask

\* HasObjsDuringFinalizer; what was added may have been marked before.
DrainFinalizerObjects ==
  /\ phase = "final" /\ RetireBarrierNode /\ PostForBarrierNode
  /\ phase' = "drain"

NoFinalizerObjects ==
  /\ inNode[Barrier] = None /\ Ready(Barrier)
  /\ Continue("final", "retain") /\ UNCHANGED queue

FinalizerObjectsDrained == WaitFinish("drain", "retain")
RetainIfReturns == RetireClientNode("retain", "redrain")

\* GCMarking::Epilogue: DeinitNode of each work stack; ResetPageListIfNeeded forgets the
\* barrier's node, and unmaps all pages but a first new one if there are too many.
Epilogue ==
  /\ inNode' = [s \in Stack |-> None]
  /\ outNode' = [t \in Thread |-> None]
  /\ IF pageCount > MaxPages
       THEN /\ mapped' = InitialNodes /\ pageCount' = 1
            /\ freeNodes' = InitialNodes /\ retiredNodes' = {}
            /\ holds' = [n \in Node |-> {}]
       ELSE /\ freeNodes' = freeNodes \cup ({inNode[t] : t \in Thread} \cup
                                           {outNode[t] : t \in Thread})
            /\ UNCHANGED <<mapped, pageCount, retiredNodes, holds>>
  /\ UNCHANGED <<hand, current, left, pool>>

FinalizerEpilogue ==
  /\ phase = "redrain" /\ PoolIdle /\ Epilogue
  /\ phase' = "sweep"
  /\ UNCHANGED <<visited, marked>>

\* ResetBitmap at the end of the sweep, or of a marking that FastTerminateConMarkPhase
\* abandons: nodes that the barrier retired stay, its last one is forgotten.
SweepEnds ==
  /\ phase = "sweep" /\ phase' = "idle"
  /\ marked' = {} /\ visited' = {}
  /\ UNCHANGED <<pages, retiredNodes, holds, stacks, current, left, pool>>

FastTerminateConMarkPhase ==
  /\ phase = "mark" /\ PoolIdle /\ Ready(Barrier) /\ Epilogue
  /\ phase' = "idle"
  /\ marked' = {} /\ visited' = {}

-----------------------------------------------------------------------------
ThreadStep(t) ==
  \/ \E k \in Kind : TakeTask(t, k)
  \/ \E o \in Obj : TaskPushes(t, o) \/ VisitEnds(t, o)
  \/ \E n \in Node : PopOtherNode(t, n)
  \/ ScanEnds(t) \/ PopOwnNode(t) \/ ExecuteEnds(t) \/ FinishNode(t)

CollectorStep ==
  \/ Prologue \/ StartConcurrentMark \/ StartParallelMark \/ RootsCollected
  \/ ShapesScanned \/ StartMarking
  \/ \E t \in Thread : InitInNode(t) \/ InitOutNode(t) \/ AddMarkTask(t)
  \/ \E o \in Obj : ClientPushes(o) \/ WriteBarrier(o)
  \/ StartRemark \/ RemarkShapesScanned \/ RemarkEnds
  \/ DrainFinalizerObjects \/ NoFinalizerObjects \/ FinalizerObjectsDrained
  \/ RetainIfReturns \/ FinalizerEpilogue \/ SweepEnds \/ FastTerminateConMarkPhase

Next ==
  \/ \E s \in Stack : RefillNode(s)
  \/ \E t \in Thread : ThreadStep(t)
  \/ CollectorStep

Spec == Init /\ [][Next]_vars

-----------------------------------------------------------------------------
(* Properties.                                                             *)

InNodes == {inNode[s] : s \in Stack} \ {None}
OutNodes == {outNode[t] : t \in Thread} \ {None}
Visiting(t) == {current[t]} \ {None, outNode[t]}

\* A node is in one list, or with one stack, or is visited by one thread, and its page is
\* mapped: no two threads fill, visit or reset the same node, and EnsureAvailNode gives one
\* with no entries, as its callers assert.
NodesInOnePlace ==
  /\ freeNodes \cup retiredNodes \cup InNodes \cup OutNodes \subseteq mapped
  /\ freeNodes \cap retiredNodes = {}
  /\ (freeNodes \cup retiredNodes) \cap (InNodes \cup OutNodes) = {}
  /\ InNodes \cap OutNodes = {}
  /\ \A s, r \in Stack : inNode[s] = inNode[r] => s = r \/ inNode[s] = None
  /\ \A t, r \in Thread : outNode[t] = outNode[r] => t = r \/ outNode[t] = None
  /\ \A t \in Thread : Visiting(t) \cap
       (freeNodes \cup retiredNodes \cup InNodes \cup OutNodes \cup
        UNION {Visiting(r) : r \in Thread \ {t}}) = {}
  /\ \A n \in freeNodes : holds[n] = {}

\* An object that is marked and was not visited is an entry of a node that somebody will
\* take, or is about to become one.
Entries ==
  (UNION {holds[n] : n \in retiredNodes \cup InNodes \cup OutNodes})
  \cup (UNION {left[t] : t \in Thread}) \cup {hand[s] : s \in Stack}
NothingLost == marked \ visited \subseteq Entries

\* The work ends only when every marked object was visited.
Promise == INSTANCE Worklist
             WITH pending <- marked \ visited, ended <- phase = "sweep"
ImplementsWorklist == Promise!Spec
=============================================================================
