-------------------------- MODULE MarkStackProofs --------------------------
(***************************************************************************)
(* The mark stack loses nothing, for any number of threads, objects, nodes *)
(* and entries per node.                                                   *)
(***************************************************************************)
EXTENDS MarkStack, FiniteSetTheorems, TLAPS

\* Visited objects are marked; a node is gone through while a thread executes, in a
\* phase in which the pool runs.
Working ==
  /\ visited \subseteq marked
  /\ \A t \in Thread : /\ task[t] # "none" => PoolRuns /\ (t = Client => ClientWaits)
                       /\ task[t] = "scan" => phase = "collect"
                       /\ current[t] # None => task[t] = "execute"
                       /\ left[t] # {} => current[t] # None
  /\ queue["scan"] > 0 => phase = "collect"

\* A work stack has its second node from the prologue to the epilogue; the barrier has a
\* node only while it may push.
StacksHaveNodes ==
  /\ phase \notin {"idle", "prologue", "sweep"} => \A t \in Thread : outNode[t] # None
  /\ phase \in {"idle", "prologue", "sweep"} => \A s \in Stack : hand[s] = None
  /\ phase \notin {"mark", "final"} => inNode[Barrier] = None /\ hand[Barrier] = None

\* n is neither in a list nor with a stack.
Elsewhere(n) ==
  /\ n \notin freeNodes \cup retiredNodes
  /\ \A s \in Stack : inNode[s] # n

\* NodesInOnePlace, node by node, and what it needs: a node that is visited is mapped,
\* and one that is not mapped has no entries.
Places ==
  /\ freeNodes \subseteq mapped /\ retiredNodes \subseteq mapped
  /\ \A n \in freeNodes : n \notin retiredNodes /\ holds[n] = {}
  /\ \A n \in Node \ mapped : holds[n] = {}
  /\ \A s \in Stack : inNode[s] # None =>
       inNode[s] \in mapped /\ inNode[s] \notin freeNodes \cup retiredNodes
  /\ \A s, r \in Stack : inNode[s] = inNode[r] => s = r \/ inNode[s] = None
  /\ \A t \in Thread : outNode[t] # None => outNode[t] \in mapped /\ Elsewhere(outNode[t])
  /\ \A t, r \in Thread : outNode[t] = outNode[r] => t = r \/ outNode[t] = None
  /\ \A t \in Thread : current[t] \notin {None, outNode[t]} =>
       /\ current[t] \in mapped /\ Elsewhere(current[t])
       /\ \A r \in Thread : outNode[r] # current[t] /\ (current[r] = current[t] => r = t)

\* A thread has something to push, or entries in the node it fills, only while it has a
\* task, before the pool starts to execute, or while the client pushes; in its second node
\* while it visits them.
Owned(t) ==
  \/ task[t] \in {"root", "execute"}
  \/ phase \in {"collect", "shapes", "retire"}
  \/ t = Client /\ phase \in {"remark", "retain"}
EntriesAreOwned ==
  /\ \A t \in Thread : hand[t] # None => Owned(t)
  /\ \A t \in Thread : inNode[t] # None /\ holds[inNode[t]] # {} => Owned(t)
  /\ \A t \in Thread :
       outNode[t] # None /\ holds[outNode[t]] # {} => current[t] = outNode[t]

\* From the remark on somebody is going to look for retired nodes.
Expected ==
  \/ phase \in {"idle", "prologue", "collect", "shapes", "retire", "mark", "sweep"}
  \/ queue["execute"] > 0 \/ queue["root"] > 0
  \/ \E t \in Thread : task[t] \in {"root", "execute"}
  \/ /\ phase \in {"remark", "retain"}
     /\ hand[Client] # None \/ (inNode[Client] # None /\ holds[inNode[Client]] # {})
  \/ phase = "final" /\ (hand[Barrier] # None \/ inNode[Barrier] # None)
RetiredAreExpected == retiredNodes # {} => Expected

\* An object that is marked and was not visited is an entry of a node that waits to be
\* visited, or is being filled; or it is with a thread, to be visited or to be pushed.
Carried(o) ==
  \/ \E n \in retiredNodes : o \in holds[n]
  \/ \E s \in Stack : hand[s] = o \/ (inNode[s] # None /\ o \in holds[inNode[s]])
  \/ \E t \in Thread : o \in left[t]
PendingIsCarried == \A o \in marked \ visited : Carried(o)

StackInv ==
  /\ TypeOK /\ Working /\ StacksHaveNodes /\ Places /\ EntriesAreOwned
  /\ RetiredAreExpected /\ PendingIsCarried

-----------------------------------------------------------------------------
(* The steps, as the proofs below tell them apart.                         *)

\* o is pushed to stack s: by a task or a visit, by the client, by the write barrier.
Pushes(s, o) ==
  /\ Ready(s) /\ PushBack(s, o)
  /\ \/ s \in Thread /\ (task[s] \in {"scan", "root"} \/ left[s] # {})
     \/ s = Client /\ phase \in {"shapes", "remark", "retain"}
     \/ s = Barrier /\ phase \in {"mark", "final"}

\* The node of t is retired and a task posted for it.
RetiresNode(t) ==
  /\ Ready(t) /\ Retire(t)
  /\ \/ phase = "retire" /\ phase' = "retire"
     \/ /\ t = Client
        /\ \/ phase = "shapes" /\ phase' = "retire"
           \/ phase = "remark" /\ phase' = "wait"
           \/ phase = "retain" /\ phase' = "redrain"

\* The barrier's node is retired and a task posted for it.
RetiresBarrier ==
  /\ RetireBarrierNode
  /\ \/ phase = "mark" /\ phase' = "remark"
     \/ phase = "final" /\ phase' = "drain"
  /\ queue' \in [Kind -> Nat] /\ queue'["execute"] > 0 /\ queue'["scan"] = queue["scan"]

\* The collector goes on to its next phase; nodes and entries stay where they are.
GoesOn ==
  /\ UNCHANGED <<pages, retiredNodes, holds, stacks, visits, task, marked>>
  /\ \/ phase = "idle" /\ phase' = "prologue" /\ UNCHANGED queue
     \/ /\ phase = "prologue" /\ \A t \in Thread : outNode[t] # None
        /\ \/ phase' = "collect" /\ queue' = [queue EXCEPT !["scan"] = @ + RootTasks]
           \/ phase' = "wait" /\ queue' = [queue EXCEPT !["root"] = @ + RootTasks]
     \/ /\ PoolIdle /\ UNCHANGED queue
        /\ \/ phase = "collect" /\ phase' = "shapes"
           \/ phase = "wait" /\ phase' = "final"
           \/ phase = "drain" /\ phase' = "retain"
     \/ /\ Ready(Client) /\ holds[inNode[Client]] = {} /\ UNCHANGED queue
        /\ \/ phase = "shapes" /\ phase' = "retire"
           \/ phase = "remark" /\ phase' = "wait"
           \/ phase = "retain" /\ phase' = "redrain"
     \/ /\ phase = "retire" /\ phase' = "mark" /\ UNCHANGED queue
        /\ \A t \in Thread : Ready(t) /\ holds[inNode[t]] = {}
     \/ /\ phase = "final" /\ phase' = "retain" /\ UNCHANGED queue
        /\ inNode[Barrier] = None /\ Ready(Barrier)

ThreadMoves(t) ==
  \/ \E k \in Kind : TakeTask(t, k)
  \/ ScanEnds(t) \/ ExecuteEnds(t)

LEMMA StepKinds ==
  ASSUME TypeOK, [Next]_vars
  PROVE  \/ \E s \in Stack : RefillNode(s) \/ \E o \in Obj : Pushes(s, o)
         \/ \E t \in Thread : ThreadMoves(t) \/ PopOwnNode(t) \/ FinishNode(t)
         \/ \E t \in Thread : \E n \in Node : PopOtherNode(t, n)
         \/ \E t \in Thread : \E o \in Obj : VisitEnds(t, o)
         \/ \E t \in Thread : InitInNode(t) \/ InitOutNode(t) \/ RetiresNode(t)
         \/ RetiresBarrier \/ GoesOn
         \/ FinalizerEpilogue \/ SweepEnds \/ FastTerminateConMarkPhase
         \/ UNCHANGED vars
<1>1. ASSUME NEW t \in Thread, NEW o \in Obj, TaskPushes(t, o) PROVE Pushes(t, o)
  BY <1>1 DEF TaskPushes, Pushes
<1>2. ASSUME NEW o \in Obj, ClientPushes(o) PROVE Pushes(Client, o)
  BY <1>2 DEF ClientPushes, Pushes
<1>3. ASSUME NEW o \in Obj, WriteBarrier(o) PROVE Pushes(Barrier, o)
  BY <1>3 DEF WriteBarrier, Pushes
<1>4. Client \in Thread /\ Barrier \in Stack /\ Thread \subseteq Stack
  BY DEF Thread, Stack
<1>5. ASSUME NEW t \in Thread, AddMarkTask(t) PROVE RetiresNode(t)
  BY <1>5 DEF AddMarkTask, RetiresNode
<1>6. ASSUME ShapesScanned \/ RemarkShapesScanned \/ RetainIfReturns
      PROVE  RetiresNode(Client) \/ GoesOn
  BY <1>6 DEF ShapesScanned, RemarkShapesScanned, RetainIfReturns, RetireClientNode, Continue,
              RetiresNode, GoesOn
<1>7. ASSUME StartRemark \/ DrainFinalizerObjects PROVE RetiresBarrier
  <2>1. queue \in [Kind -> Nat] /\ RootTasks \in Nat
    BY MarkStackAssumption DEF TypeOK
  <2>2. CASE StartRemark
    BY <2>1, <2>2 DEF StartRemark, RetiresBarrier, Kind
  <2>3. CASE DrainFinalizerObjects
    BY <2>1, <2>3 DEF DrainFinalizerObjects, PostForBarrierNode, PostTask, RetiresBarrier, Kind
  <2>4. QED
    BY <1>7, <2>2, <2>3
<1>8. ASSUME \/ Prologue \/ StartConcurrentMark \/ StartParallelMark
             \/ RootsCollected \/ RemarkEnds \/ FinalizerObjectsDrained
             \/ StartMarking \/ NoFinalizerObjects
      PROVE  GoesOn
  BY <1>8 DEF Prologue, StartConcurrentMark, StartParallelMark, PostRoots, RootsCollected,
              RemarkEnds, FinalizerObjectsDrained, WaitFinish, StartMarking,
              NoFinalizerObjects, Continue, GoesOn
<1>9. QED
  BY <1>1, <1>2, <1>3, <1>4, <1>5, <1>6, <1>7, <1>8
     DEF Next, ThreadStep, ThreadMoves, CollectorStep

-----------------------------------------------------------------------------
(* Nodes.                                                                  *)

\* A new page has nodes, of memory that was not mapped.
LEMMA PageIsNew ==
  ASSUME HasMemory
  PROVE  NewPage \in SUBSET (Node \ mapped) /\ NewPage # {}
<1>1. NewPage \in SUBSET (Node \ mapped) /\ Cardinality(NewPage) = PageNodes
  BY Zenon DEF HasMemory, NewPage
<1>2. PageNodes # 0
  BY MarkStackAssumption
<1>3. QED
  BY <1>1, <1>2, FS_EmptySet

\* Nobody has anything to do with n.
Unused(n) ==
  /\ n \in Node /\ n \notin retiredNodes /\ holds[n] = {}
  /\ \A s \in Stack : inNode[s] # n
  /\ \A t \in Thread : outNode[t] # n /\ current[t] # n

\* The node that is taken, and those that stay free.
LEMMA NodeTaken ==
  ASSUME TypeOK, Places, TakeFreeNode
  PROVE  /\ mapped \subseteq mapped' /\ mapped' \subseteq Node /\ pageCount' \in Nat
         /\ FreeNode \in mapped' /\ freeNodes' \subseteq mapped' /\ FreeNode \notin freeNodes'
         /\ Unused(FreeNode) /\ \A n \in freeNodes' : Unused(n)
<1>1. /\ mapped \subseteq Node /\ pageCount \in Nat /\ None \notin Node
      /\ current \in [Thread -> Node \cup {None}]
  BY MarkStackAssumption DEF TypeOK
<1>2. \A n \in Node : n \in freeNodes \/ n \notin mapped => Unused(n)
  BY <1>1 DEF Places, Elsewhere, Unused
<1>3. /\ mapped \subseteq mapped' /\ mapped' \subseteq Node /\ pageCount' \in Nat
      /\ Available # {} /\ Available \subseteq mapped'
      /\ \A n \in Available : n \in freeNodes \/ n \notin mapped
  <2>1. CASE freeNodes # {}
    BY <1>1, <2>1 DEF TakeFreeNode, Available, Places
  <2>2. CASE freeNodes = {}
    BY <1>1, <2>2, PageIsNew DEF TakeFreeNode, Available
  <2>3. QED
    BY <2>1, <2>2
<1>4. FreeNode \in Available
  BY <1>3, Zenon DEF FreeNode
<1>5. freeNodes' = Available \ {FreeNode}
  BY DEF TakeFreeNode
<1>6. QED
  BY <1>2, <1>3, <1>4, <1>5

-----------------------------------------------------------------------------
(* Types.                                                                  *)

\* A stack of a thread that is in use has its node.
LEMMA ReadyHasNode ==
  ASSUME TypeOK, NEW t \in Thread, Ready(t), phase \notin {"idle", "prologue", "sweep"}
  PROVE  inNode[t] \in Node /\ hand[t] = None
<1>1. t # Barrier /\ t \in Stack
  BY MarkStackAssumption DEF Thread, Stack
<1>2. QED
  BY <1>1 DEF Ready, NeedsNode, TypeOK

\* What a thread with a task, or a node to go through, may count on.
LEMMA AtWork ==
  ASSUME TypeOK, Working, StacksHaveNodes, NEW t \in Thread,
         task[t] # "none" \/ current[t] # None \/ left[t] # {}
  PROVE  /\ phase \in {"collect", "mark", "remark", "wait", "drain", "redrain"}
         /\ outNode[t] \in Node
         /\ t = Client => phase \in {"collect", "wait", "drain", "redrain"}
<1>1. task[t] # "none"
  BY DEF Working
<1>2. PoolRuns /\ (t = Client => ClientWaits)
  BY <1>1 DEF Working
<1>3. QED
  BY <1>2 DEF PoolRuns, ClientWaits, StacksHaveNodes, TypeOK

LEMMA TypeKept ==
  ASSUME TypeOK, Working, StacksHaveNodes, Places, [Next]_vars
  PROVE  TypeOK'
<1> USE DEF TypeOK, pages, stacks, visits, pool
<1>a. Client \in Thread /\ Barrier \in Stack /\ Thread \subseteq Stack /\ None \notin Node
  BY MarkStackAssumption DEF Thread, Stack
<1>b. "execute" \in Kind /\ "root" \in Kind /\ "scan" \in Kind
  BY DEF Kind
<1>1. ASSUME NEW s \in Stack, RefillNode(s) PROVE TypeOK'
  <2>1. /\ FreeNode \in Node /\ mapped' \subseteq Node /\ freeNodes' \subseteq Node
        /\ pageCount' \in Nat
    BY <1>1, NodeTaken DEF RefillNode, Unused
  <2>2. holds' \in [Node -> SUBSET Obj]
    BY <1>1, <2>1 DEF RefillNode
  <2>3. queue' \in [Kind -> Nat]
    BY <1>1, <1>b DEF RefillNode, PostInNode
  <2>4. inNode' \in [Stack -> Node \cup {None}] /\ hand' \in [Stack -> Obj \cup {None}]
    BY <1>1, <2>1 DEF RefillNode
  <2>5. QED
    BY <1>1, <2>1, <2>2, <2>3, <2>4 DEF RefillNode
<1>2. ASSUME NEW s \in Stack, NEW o \in Obj, Pushes(s, o) PROVE TypeOK'
  <2>1. /\ holds' \in [Node -> SUBSET Obj] /\ retiredNodes' \subseteq Node
        /\ inNode' \in [Stack -> Node \cup {None}] /\ hand' \in [Stack -> Obj \cup {None}]
    BY <1>2 DEF Pushes, PushBack
  <2>2. QED
    BY <1>2, <2>1 DEF Pushes, PushBack
<1>3. ASSUME NEW t \in Thread, ThreadMoves(t) PROVE TypeOK'
  BY <1>3, <1>b DEF ThreadMoves, TakeTask, ScanEnds, ExecuteEnds
<1>4. ASSUME NEW t \in Thread, PopOwnNode(t) PROVE TypeOK'
  <2>1. outNode[t] \in Node /\ inNode[t] \in Node
    BY <1>4, AtWork, ReadyHasNode DEF PopOwnNode, Executes
  <2>2. QED
    BY <1>4, <1>a, <2>1 DEF PopOwnNode, StartNode
<1>5. ASSUME NEW t \in Thread, FinishNode(t) PROVE TypeOK'
  BY <1>5 DEF FinishNode, FreedNode, ResetNode
<1>6. ASSUME NEW t \in Thread, NEW n \in Node, PopOtherNode(t, n) PROVE TypeOK'
  BY <1>6 DEF PopOtherNode, StartNode
<1>7. ASSUME NEW t \in Thread, NEW o \in Obj, VisitEnds(t, o) PROVE TypeOK'
  BY <1>7 DEF VisitEnds
<1>8. ASSUME NEW t \in Thread, InitInNode(t) \/ InitOutNode(t) PROVE TypeOK'
  <2>1. /\ FreeNode \in Node /\ mapped' \subseteq Node /\ freeNodes' \subseteq Node
        /\ pageCount' \in Nat
    BY <1>8, NodeTaken DEF InitInNode, InitOutNode, Unused
  <2>2. QED
    BY <1>8, <1>a, <2>1 DEF InitInNode, InitOutNode
<1>9. ASSUME NEW t \in Thread, RetiresNode(t) PROVE TypeOK'
  <2>1. inNode[t] \in Node
    BY <1>9, ReadyHasNode DEF RetiresNode
  <2>2. QED
    BY <1>9, <1>a, <1>b, <2>1 DEF RetiresNode, Retire, PostTask, Phase
<1>10. CASE RetiresBarrier
  BY <1>10, <1>a DEF RetiresBarrier, RetireBarrierNode, BarrierNodeRetired, Phase
<1>11. CASE GoesOn
  <2>1. queue' \in [Kind -> Nat]
    BY <1>11, <1>b, MarkStackAssumption DEF GoesOn
  <2>2. phase' \in Phase
    BY <1>11 DEF GoesOn, Phase
  <2>3. QED
    BY <1>11, <2>1, <2>2 DEF GoesOn
<1>12. ASSUME Epilogue, PoolIdle, phase \in {"redrain", "mark"}
       PROVE  /\ mapped' \subseteq Node /\ freeNodes' \subseteq Node /\ retiredNodes' \subseteq Node
              /\ pageCount' \in Nat /\ holds' \in [Node -> SUBSET Obj]
              /\ inNode' \in [Stack -> Node \cup {None}]
              /\ outNode' \in [Thread -> Node \cup {None}]
              /\ UNCHANGED <<hand, current, left, pool>>
  <2>1. \A t \in Thread : inNode[t] \in Node /\ outNode[t] \in Node
    BY <1>12, ReadyHasNode DEF PoolIdle, StacksHaveNodes
  <2>2. CASE pageCount > MaxPages
    BY <1>12, <2>2, MarkStackAssumption DEF Epilogue
  <2>3. CASE ~(pageCount > MaxPages)
    BY <1>12, <2>1, <2>3 DEF Epilogue
  <2>4. QED
    BY <2>2, <2>3
<1>13. CASE FinalizerEpilogue \/ FastTerminateConMarkPhase
  BY <1>12, <1>13 DEF FinalizerEpilogue, FastTerminateConMarkPhase, Phase
<1>14. CASE SweepEnds
  BY <1>14 DEF SweepEnds, Phase
<1>15. CASE UNCHANGED vars
  BY <1>15 DEF vars
<1>16. QED
  BY StepKinds, <1>1, <1>2, <1>3, <1>4, <1>5, <1>6, <1>7, <1>8, <1>9, <1>10, <1>11, <1>13,
     <1>14, <1>15

-----------------------------------------------------------------------------
(* Who works, and which stacks have nodes.                                 *)

\* Where nobody has anything to do, nobody does anything.
LEMMA IdlePool ==
  ASSUME Working, \/ PoolIdle
                  \/ phase \in {"idle", "prologue", "shapes", "retire", "final", "retain", "sweep"}
  PROVE  \A t \in Thread : task[t] = "none" /\ current[t] = None /\ left[t] = {}
  BY DEF Working, PoolIdle, PoolRuns

LEMMA WorkingKept ==
  ASSUME TypeOK, Working, [Next]_vars
  PROVE  Working'
<1> USE DEF Working, PoolRuns, ClientWaits
<1>a. /\ task \in [Thread -> Kind \cup {"none"}] /\ queue \in [Kind -> Nat]
      /\ current \in [Thread -> Node \cup {None}] /\ left \in [Thread -> SUBSET Obj]
      /\ "execute" \in Kind /\ "root" \in Kind /\ "scan" \in Kind
  BY DEF TypeOK, Kind
<1>1. ASSUME NEW s \in Stack, RefillNode(s) PROVE Working'
  <2>1. queue'["scan"] = queue["scan"]
    BY <1>1, <1>a DEF RefillNode, PostInNode
  <2>2. QED
    BY <1>1, <2>1 DEF RefillNode, visits
<1>2. ASSUME NEW s \in Stack, NEW o \in Obj, Pushes(s, o) PROVE Working'
  BY <1>2 DEF Pushes, PushBack, visits, pool
<1>3. ASSUME NEW t \in Thread, ThreadMoves(t) PROVE Working'
  <2>1. ASSUME NEW k \in Kind, TakeTask(t, k) PROVE Working'
    BY <2>1, <1>a DEF TakeTask, visits
  <2>2. CASE ScanEnds(t)
    BY <2>2, <1>a DEF ScanEnds, visits
  <2>3. CASE ExecuteEnds(t)
    BY <2>3, <1>a DEF ExecuteEnds, Executes, visits
  <2>4. QED
    BY <1>3, <2>1, <2>2, <2>3 DEF ThreadMoves
<1>4. ASSUME NEW t \in Thread, PopOwnNode(t) PROVE Working'
  <2>1. inNode[t] # None
    BY <1>4, ReadyHasNode, MarkStackAssumption DEF PopOwnNode, Executes
  <2>2. /\ task[t] = "execute" /\ UNCHANGED <<task, queue, phase, marked, visited>>
        /\ current' = [current EXCEPT ![t] = inNode[t]]
        /\ left' = [left EXCEPT ![t] = holds[inNode[t]]]
    BY <1>4 DEF PopOwnNode, Executes, StartNode, pool
  <2>3. QED
    BY <1>a, <2>1, <2>2
<1>5. ASSUME NEW t \in Thread, FinishNode(t) PROVE Working'
  BY <1>5, <1>a DEF FinishNode, pool
<1>6. ASSUME NEW t \in Thread, NEW n \in Node, PopOtherNode(t, n) PROVE Working'
  <2>1. n # None
    BY MarkStackAssumption
  <2>2. /\ task[t] = "execute" /\ UNCHANGED <<task, queue, phase, marked, visited>>
        /\ current' = [current EXCEPT ![t] = n] /\ left' = [left EXCEPT ![t] = holds[n]]
    BY <1>6 DEF PopOtherNode, Executes, StartNode, pool
  <2>3. QED
    BY <1>a, <2>1, <2>2
<1>7. ASSUME NEW t \in Thread, NEW o \in Obj, VisitEnds(t, o) PROVE Working'
  BY <1>7, <1>a DEF VisitEnds, pool
<1>8. ASSUME NEW t \in Thread, InitInNode(t) \/ InitOutNode(t) PROVE Working'
  BY <1>8 DEF InitInNode, InitOutNode, visits, pool
<1>9. ASSUME NEW t \in Thread, RetiresNode(t) PROVE Working'
  <2>1. queue'["scan"] = queue["scan"] /\ UNCHANGED <<visits, task, marked>>
    BY <1>9, <1>a DEF RetiresNode, Retire, PostTask
  <2>2. QED
    BY <1>9, <2>1 DEF RetiresNode, visits
<1>10. CASE RetiresBarrier
  BY <1>10 DEF RetiresBarrier, RetireBarrierNode, visits
<1>11. CASE GoesOn
  <2>1. queue["scan"] \in Nat /\ (PoolIdle => queue["scan"] = 0)
    BY <1>a DEF PoolIdle
  <2>2. queue'["scan"] > 0 => phase' = "collect"
    BY <1>11, <1>a, <2>1, MarkStackAssumption DEF GoesOn
  <2>3. \/ \A t \in Thread : task[t] = "none"
        \/ phase = "remark" /\ phase' = "wait"
    BY <1>11, IdlePool DEF GoesOn
  <2>4. QED
    BY <1>11, <2>2, <2>3 DEF GoesOn, visits
<1>12. CASE FinalizerEpilogue \/ FastTerminateConMarkPhase
  <2>1. \A t \in Thread : task[t] = "none"
    BY <1>12 DEF FinalizerEpilogue, FastTerminateConMarkPhase, PoolIdle
  <2>2. queue["scan"] = 0
    BY <1>12, <1>a DEF FinalizerEpilogue, FastTerminateConMarkPhase, PoolIdle
  <2>3. QED
    BY <1>12, <2>1, <2>2 DEF FinalizerEpilogue, FastTerminateConMarkPhase, Epilogue, pool
<1>13. CASE SweepEnds
  BY <1>13 DEF SweepEnds, pool
<1>14. CASE UNCHANGED vars
  BY <1>14 DEF vars, visits, pool
<1>15. QED
  BY StepKinds, <1>1, <1>2, <1>3, <1>4, <1>5, <1>6, <1>7, <1>8, <1>9, <1>10, <1>11, <1>12,
     <1>13, <1>14

LEMMA StacksKept ==
  ASSUME TypeOK, Working, StacksHaveNodes, Places, [Next]_vars
  PROVE  StacksHaveNodes'
<1> USE DEF StacksHaveNodes
<1>a. /\ inNode \in [Stack -> Node \cup {None}] /\ outNode \in [Thread -> Node \cup {None}]
      /\ hand \in [Stack -> Obj \cup {None}]
      /\ Barrier \in Stack /\ Barrier \notin Thread /\ Thread \subseteq Stack
      /\ None \notin Obj \cup Node
  BY MarkStackAssumption DEF TypeOK, Thread, Stack
<1>1. ASSUME NEW s \in Stack, RefillNode(s) PROVE StacksHaveNodes'
  BY <1>1, <1>a DEF RefillNode, NeedsNode, pages, visits
<1>2. ASSUME NEW s \in Stack, NEW o \in Obj, Pushes(s, o) PROVE StacksHaveNodes'
  <2>1. /\ phase \notin {"idle", "prologue", "sweep"}
        /\ s = Barrier => phase \in {"mark", "final"}
    <3>1. CASE s \in Thread /\ (task[s] \in {"scan", "root"} \/ left[s] # {})
      <4>1. phase \in {"collect", "mark", "remark", "wait", "drain", "redrain"}
        BY <3>1, AtWork
      <4>2. QED
        BY <1>a, <3>1, <4>1
    <3>2. CASE s = Client /\ phase \in {"shapes", "remark", "retain"}
      BY <3>2, <1>a, MarkStackAssumption
    <3>3. CASE s = Barrier /\ phase \in {"mark", "final"}
      BY <3>3
    <3>4. QED
      BY <1>2, <3>1, <3>2, <3>3 DEF Pushes
  <2>2. QED
    BY <1>2, <1>a, <2>1 DEF Pushes, PushBack, pool
<1>3. ASSUME NEW t \in Thread, ThreadMoves(t) PROVE StacksHaveNodes'
  BY <1>3 DEF ThreadMoves, TakeTask, ScanEnds, ExecuteEnds, stacks
<1>4. ASSUME NEW t \in Thread, PopOwnNode(t) PROVE StacksHaveNodes'
  <2>1. outNode[t] \in Node /\ inNode[t] \in Node
    BY <1>4, AtWork, ReadyHasNode DEF PopOwnNode, Executes
  <2>2. QED
    BY <1>4, <1>a, <2>1 DEF PopOwnNode, StartNode, pool
<1>5. ASSUME NEW t \in Thread, FinishNode(t) PROVE StacksHaveNodes'
  BY <1>5 DEF FinishNode, pool, stacks
<1>6. ASSUME NEW t \in Thread, NEW n \in Node, PopOtherNode(t, n) PROVE StacksHaveNodes'
  BY <1>6 DEF PopOtherNode, StartNode, pool
<1>7. ASSUME NEW t \in Thread, NEW o \in Obj, VisitEnds(t, o) PROVE StacksHaveNodes'
  BY <1>7 DEF VisitEnds, pool, stacks
<1>8. ASSUME NEW t \in Thread, InitInNode(t) \/ InitOutNode(t) PROVE StacksHaveNodes'
  BY <1>8, <1>a DEF InitInNode, InitOutNode, pool
<1>9. ASSUME NEW t \in Thread, RetiresNode(t) PROVE StacksHaveNodes'
  BY <1>9, <1>a DEF RetiresNode, Retire
<1>10. CASE RetiresBarrier
  <2>1. hand[Barrier] = None
    BY <1>10, <1>a DEF RetiresBarrier, RetireBarrierNode, Ready
  <2>2. QED
    BY <1>10, <1>a, <2>1 DEF RetiresBarrier, RetireBarrierNode
<1>11. CASE GoesOn
  BY <1>11 DEF GoesOn, stacks, Ready
<1>12. ASSUME Epilogue, PoolIdle, hand[Barrier] = None
       PROVE  /\ \A s \in Stack : hand'[s] = None /\ inNode'[s] = None
  <2>1. \A t \in Thread : hand[t] = None
    BY <1>12 DEF PoolIdle, Ready
  <2>2. \A s \in Stack : s \in Thread \/ s = Barrier
    BY DEF Stack
  <2>3. QED
    BY <1>12, <2>1, <2>2 DEF Epilogue
<1>13. CASE FinalizerEpilogue
  BY <1>12, <1>13, <1>a DEF FinalizerEpilogue
<1>14. CASE FastTerminateConMarkPhase
  BY <1>12, <1>14, <1>a DEF FastTerminateConMarkPhase, Ready
<1>15. CASE SweepEnds
  BY <1>15 DEF SweepEnds, stacks
<1>16. CASE UNCHANGED vars
  BY <1>16 DEF vars, stacks
<1>17. QED
  BY StepKinds, <1>1, <1>2, <1>3, <1>4, <1>5, <1>6, <1>7, <1>8, <1>9, <1>10, <1>11, <1>13,
     <1>14, <1>15, <1>16

-----------------------------------------------------------------------------
(* Where the nodes are.                                                    *)

LEMMA PlacesKept ==
  ASSUME TypeOK, Working, StacksHaveNodes, Places, EntriesAreOwned, [Next]_vars
  PROVE  Places'
<1>a. /\ inNode \in [Stack -> Node \cup {None}] /\ outNode \in [Thread -> Node \cup {None}]
      /\ current \in [Thread -> Node \cup {None}] /\ holds \in [Node -> SUBSET Obj]
      /\ mapped \subseteq Node /\ None \notin Node
      /\ Barrier \in Stack /\ Barrier \notin Thread /\ Thread \subseteq Stack
  BY MarkStackAssumption DEF TypeOK, Thread, Stack
<1>0. CASE UNCHANGED <<mapped, freeNodes, retiredNodes, holds, inNode, outNode, current>>
  BY <1>0 DEF Places, Elsewhere
<1>1. ASSUME NEW s \in Stack, RefillNode(s) PROVE Places'
  <2>1. /\ mapped \subseteq mapped' /\ FreeNode \in mapped' /\ freeNodes' \subseteq mapped'
        /\ FreeNode \notin freeNodes' /\ Unused(FreeNode) /\ \A n \in freeNodes' : Unused(n)
    BY <1>1, NodeTaken DEF RefillNode
  <2>2. /\ inNode' = [inNode EXCEPT ![s] = FreeNode] /\ inNode[s] = None
        /\ \A n \in Node : n # FreeNode => holds'[n] = holds[n]
        /\ UNCHANGED <<retiredNodes, outNode, current>>
    BY <1>1, <1>a DEF RefillNode, NeedsNode, visits
  <2>3. QED
    BY <1>a, <2>1, <2>2 DEF Places, Elsewhere, Unused
<1>2. ASSUME NEW s \in Stack, NEW o \in Obj, Pushes(s, o) PROVE Places'
  <2>1. UNCHANGED <<mapped, freeNodes, outNode, current>>
    BY <1>2 DEF Pushes, PushBack, pages, visits
  <2>2. \/ /\ inNode[s] # None /\ UNCHANGED <<retiredNodes, inNode>>
           /\ holds' = [holds EXCEPT ![inNode[s]] = @ \cup {o}]
        \/ /\ retiredNodes' = retiredNodes \cup ({inNode[s]} \ {None}) /\ holds' = holds
           /\ inNode' = [inNode EXCEPT ![s] = None]
    BY <1>2 DEF Pushes, PushBack
  <2>3. QED
    BY <1>a, <2>1, <2>2 DEF Places, Elsewhere
<1>3. ASSUME NEW t \in Thread, ThreadMoves(t) PROVE Places'
  BY <1>3, <1>0 DEF ThreadMoves, TakeTask, ScanEnds, ExecuteEnds, pages, stacks, visits
<1>4. ASSUME NEW t \in Thread, PopOwnNode(t) PROVE Places'
  <2>1. outNode[t] \in Node /\ inNode[t] \in Node
    BY <1>4, AtWork, ReadyHasNode DEF PopOwnNode, Executes
  <2>2. /\ inNode' = [inNode EXCEPT ![t] = outNode[t]]
        /\ outNode' = [outNode EXCEPT ![t] = inNode[t]]
        /\ current' = [current EXCEPT ![t] = inNode[t]] /\ current[t] = None
        /\ UNCHANGED <<mapped, freeNodes, retiredNodes, holds>>
    BY <1>4 DEF PopOwnNode, Executes, StartNode, pages
  <2>3. QED
    BY <1>a, <2>1, <2>2 DEF Places, Elsewhere
<1>5. ASSUME NEW t \in Thread, FinishNode(t) PROVE Places'
  <2>1. /\ current[t] \in Node /\ current' = [current EXCEPT ![t] = None]
        /\ holds' = [holds EXCEPT ![current[t]] = {}]
        /\ freeNodes' = freeNodes \cup ({current[t]} \ {outNode[t]})
        /\ UNCHANGED <<mapped, retiredNodes, inNode, outNode>>
    BY <1>5, <1>a DEF FinishNode, FreedNode, ResetNode, stacks
  <2>2. QED
    BY <1>a, <2>1 DEF Places, Elsewhere
<1>6. ASSUME NEW t \in Thread, NEW n \in Node, PopOtherNode(t, n) PROVE Places'
  <2>1. /\ n \in retiredNodes \/ n = outNode[t]
        /\ current' = [current EXCEPT ![t] = n]
        /\ UNCHANGED <<mapped, freeNodes, holds, inNode, outNode>>
    BY <1>6 DEF PopOtherNode, OtherNodes, StartNode, pages
  <2>2. retiredNodes' = retiredNodes \ {n} /\ n # None
    BY <1>6, <1>a DEF PopOtherNode
  <2>3. QED
    BY <1>a, <2>1, <2>2 DEF Places, Elsewhere
<1>7. ASSUME NEW t \in Thread, NEW o \in Obj, VisitEnds(t, o) PROVE Places'
  BY <1>7, <1>0 DEF VisitEnds, pages, stacks
<1>8. ASSUME NEW t \in Thread, InitInNode(t) \/ InitOutNode(t) PROVE Places'
  <2>1. /\ mapped \subseteq mapped' /\ FreeNode \in mapped' /\ freeNodes' \subseteq mapped'
        /\ FreeNode \notin freeNodes' /\ Unused(FreeNode) /\ \A n \in freeNodes' : Unused(n)
    BY <1>8, NodeTaken DEF InitInNode, InitOutNode
  <2>2. current[t] = None
    BY <1>8, IdlePool DEF InitInNode, InitOutNode
  <2>3. CASE InitInNode(t)
    <3>1. /\ inNode' = [inNode EXCEPT ![t] = FreeNode]
          /\ UNCHANGED <<retiredNodes, holds, outNode, current>>
      BY <2>3 DEF InitInNode, visits
    <3>2. QED
      BY <1>a, <2>1, <3>1 DEF Places, Elsewhere, Unused
  <2>4. CASE InitOutNode(t)
    <3>1. /\ outNode' = [outNode EXCEPT ![t] = FreeNode] /\ outNode[t] = None
          /\ UNCHANGED <<retiredNodes, holds, inNode, current>>
      BY <2>4 DEF InitOutNode, visits
    <3>2. QED
      BY <1>a, <2>1, <2>2, <3>1 DEF Places, Elsewhere, Unused
  <2>5. QED
    BY <1>8, <2>3, <2>4
<1>9. ASSUME NEW s \in Stack, retiredNodes' = retiredNodes \cup ({inNode[s]} \ {None}),
             inNode' = [inNode EXCEPT ![s] = None],
             UNCHANGED <<mapped, freeNodes, holds, outNode, current>>
      PROVE  Places'
  BY <1>9, <1>a DEF Places, Elsewhere
<1>10. ASSUME NEW t \in Thread, RetiresNode(t) PROVE Places'
  <2>1. inNode[t] # None
    BY <1>10, <1>a, ReadyHasNode DEF RetiresNode
  <2>2. QED
    BY <1>9, <1>10, <1>a, <2>1 DEF RetiresNode, Retire, pages, visits
<1>11. CASE RetiresBarrier
  BY <1>9, <1>11, <1>a
     DEF RetiresBarrier, RetireBarrierNode, BarrierNodeRetired, pages, visits
<1>12. CASE GoesOn
  BY <1>0, <1>12 DEF GoesOn, pages, stacks, visits
<1>13. ASSUME Epilogue, PoolIdle, phase \in {"redrain", "mark"} PROVE Places'
  <2>1. \A t \in Thread : inNode[t] \in Node /\ outNode[t] \in Node
    BY <1>13, <1>a, ReadyHasNode DEF PoolIdle, StacksHaveNodes
  <2>2. \A t \in Thread : task[t] = "none" /\ current[t] = None
    BY <1>13, IdlePool
  <2>3. \A t \in Thread : holds[inNode[t]] = {} /\ holds[outNode[t]] = {}
    BY <1>13, <1>a, <2>1, <2>2 DEF EntriesAreOwned, Owned
  <2>4. /\ \A s \in Stack : inNode'[s] = None
        /\ \A t \in Thread : outNode'[t] = None /\ current'[t] = None
    BY <1>13, <2>2 DEF Epilogue
  <2>5. CASE pageCount > MaxPages
    <3>1. /\ InitialNodes \subseteq Node /\ mapped' = InitialNodes
          /\ freeNodes' = InitialNodes /\ retiredNodes' = {} /\ holds' = [n \in Node |-> {}]
      BY <1>13, <2>5, MarkStackAssumption DEF Epilogue
    <3>2. QED
      BY <2>4, <3>1 DEF Places, Elsewhere
  <2>6. CASE ~(pageCount > MaxPages)
    <3>1. /\ freeNodes' = freeNodes \cup ({inNode[t] : t \in Thread} \cup
                                          {outNode[t] : t \in Thread})
          /\ UNCHANGED <<mapped, retiredNodes, holds>>
      BY <1>13, <2>6 DEF Epilogue
    <3>2. \A n \in freeNodes' : n \in mapped /\ n \notin retiredNodes /\ holds[n] = {}
      BY <1>a, <2>1, <2>3, <3>1 DEF Places, Elsewhere
    <3>3. QED
      BY <2>4, <3>1, <3>2 DEF Places, Elsewhere
  <2>7. QED
    BY <2>5, <2>6
<1>14. CASE FinalizerEpilogue \/ FastTerminateConMarkPhase
  BY <1>13, <1>14 DEF FinalizerEpilogue, FastTerminateConMarkPhase
<1>15. CASE SweepEnds
  BY <1>0, <1>15 DEF SweepEnds, pages, stacks
<1>16. CASE UNCHANGED vars
  BY <1>0, <1>16 DEF vars, pages, stacks, visits
<1>17. QED
  BY StepKinds, <1>1, <1>2, <1>3, <1>4, <1>5, <1>6, <1>7, <1>8, <1>10, <1>11, <1>12, <1>14,
     <1>15, <1>16

-----------------------------------------------------------------------------
(* Where the entries are.                                                  *)

LEMMA OwnedKept ==
  ASSUME TypeOK, Working, StacksHaveNodes, Places, EntriesAreOwned, [Next]_vars
  PROVE  EntriesAreOwned'
<1>a. /\ inNode \in [Stack -> Node \cup {None}] /\ outNode \in [Thread -> Node \cup {None}]
      /\ current \in [Thread -> Node \cup {None}] /\ holds \in [Node -> SUBSET Obj]
      /\ hand \in [Stack -> Obj \cup {None}] /\ task \in [Thread -> Kind \cup {"none"}]
      /\ None \notin Node /\ None \notin Obj /\ Client \in Thread
      /\ Barrier \in Stack /\ Barrier \notin Thread /\ Thread \subseteq Stack
  BY MarkStackAssumption DEF TypeOK, Thread, Stack
<1>0. CASE UNCHANGED <<holds, hand, inNode, outNode, current, task, phase>>
  BY <1>0 DEF EntriesAreOwned, Owned
<1>1. ASSUME NEW s \in Stack, RefillNode(s) PROVE EntriesAreOwned'
  <2>1. Unused(FreeNode)
    BY <1>1, NodeTaken DEF RefillNode
  <2>2. /\ inNode' = [inNode EXCEPT ![s] = FreeNode] /\ inNode[s] = None
        /\ hand' = [hand EXCEPT ![s] = None]
        /\ holds' = [holds EXCEPT ![FreeNode] = @ \cup ({hand[s]} \ {None})]
        /\ UNCHANGED <<outNode, current, task, phase>>
    BY <1>1 DEF RefillNode, NeedsNode, visits
  <2>3. \A t \in Thread : Owned(t)' <=> Owned(t)
    BY <2>2 DEF Owned
  <2>4. holds'[FreeNode] # {} => hand[s] # None
    BY <1>a, <2>1, <2>2 DEF Unused
  <2>5. QED
    BY <1>a, <2>1, <2>2, <2>3, <2>4 DEF EntriesAreOwned, Unused
<1>2. ASSUME NEW s \in Stack, NEW o \in Obj, Pushes(s, o) PROVE EntriesAreOwned'
  <2>1. UNCHANGED <<outNode, current, task, phase>>
    BY <1>2 DEF Pushes, PushBack, visits, pool
  <2>2. \/ /\ inNode[s] # None /\ UNCHANGED <<hand, inNode>>
           /\ holds' = [holds EXCEPT ![inNode[s]] = @ \cup {o}]
        \/ /\ hand' = [hand EXCEPT ![s] = o] /\ holds' = holds
           /\ inNode' = [inNode EXCEPT ![s] = None]
    BY <1>2 DEF Pushes, PushBack
  <2>3. s \in Thread => Owned(s)
    BY <1>2, <1>a DEF Pushes, Working, Owned
  <2>4. QED
    BY <1>a, <2>1, <2>2, <2>3 DEF EntriesAreOwned, Owned, Places, Elsewhere
<1>3. ASSUME NEW t \in Thread, ThreadMoves(t) PROVE EntriesAreOwned'
  <2>1. UNCHANGED <<holds, hand, inNode, outNode, current, phase>>
    BY <1>3 DEF ThreadMoves, TakeTask, ScanEnds, ExecuteEnds, stacks, visits
  <2>2. \A r \in Thread : r # t => task'[r] = task[r]
    BY <1>3, <1>a DEF ThreadMoves, TakeTask, ScanEnds, ExecuteEnds
  <2>3. CASE ~ExecuteEnds(t)
    <3>1. Owned(t) => Owned(t)'
      BY <1>3, <1>a, <2>3 DEF ThreadMoves, TakeTask, ScanEnds, Owned, Working
    <3>2. QED
      BY <2>1, <2>2, <3>1 DEF EntriesAreOwned, Owned
  <2>4. CASE ExecuteEnds(t)
    <3>1. holds[inNode[t]] = {} /\ hand[t] = None
      BY <2>4 DEF ExecuteEnds, Executes, Ready
    <3>2. QED
      BY <2>1, <2>2, <3>1 DEF EntriesAreOwned, Owned
  <2>5. QED
    BY <2>3, <2>4
<1>4. ASSUME NEW t \in Thread, PopOwnNode(t) PROVE EntriesAreOwned'
  <2>1. /\ inNode' = [inNode EXCEPT ![t] = outNode[t]]
        /\ outNode' = [outNode EXCEPT ![t] = inNode[t]]
        /\ current' = [current EXCEPT ![t] = inNode[t]] /\ current[t] = None
        /\ task[t] = "execute" /\ UNCHANGED <<holds, hand, task, phase>>
    BY <1>4 DEF PopOwnNode, Executes, StartNode, pool
  <2>2. QED
    BY <1>a, <2>1 DEF EntriesAreOwned, Owned
<1>5. ASSUME NEW t \in Thread, FinishNode(t) PROVE EntriesAreOwned'
  <2>1. /\ current[t] \in Node /\ current' = [current EXCEPT ![t] = None]
        /\ holds' = [holds EXCEPT ![current[t]] = {}]
        /\ UNCHANGED <<hand, inNode, outNode, task, phase>>
    BY <1>5, <1>a DEF FinishNode, ResetNode, stacks, pool
  <2>2. QED
    BY <1>a, <2>1 DEF EntriesAreOwned, Owned
<1>6. ASSUME NEW t \in Thread, NEW n \in Node, PopOtherNode(t, n) PROVE EntriesAreOwned'
  <2>1. /\ current' = [current EXCEPT ![t] = n] /\ current[t] = None
        /\ UNCHANGED <<holds, hand, inNode, outNode, task, phase>>
    BY <1>6 DEF PopOtherNode, Executes, StartNode, pool
  <2>2. QED
    BY <1>a, <2>1 DEF EntriesAreOwned, Owned
<1>7. ASSUME NEW t \in Thread, NEW o \in Obj, VisitEnds(t, o) PROVE EntriesAreOwned'
  BY <1>7, <1>0 DEF VisitEnds, stacks, pool
<1>8. ASSUME NEW t \in Thread, InitInNode(t) \/ InitOutNode(t) PROVE EntriesAreOwned'
  <2>1. Unused(FreeNode)
    BY <1>8, NodeTaken DEF InitInNode, InitOutNode
  <2>2. CASE InitInNode(t)
    <3>1. /\ inNode' = [inNode EXCEPT ![t] = FreeNode]
          /\ UNCHANGED <<holds, hand, outNode, current, task, phase>>
      BY <2>2 DEF InitInNode, visits, pool
    <3>2. QED
      BY <1>a, <2>1, <3>1 DEF EntriesAreOwned, Owned, Unused
  <2>3. CASE InitOutNode(t)
    <3>1. /\ outNode' = [outNode EXCEPT ![t] = FreeNode]
          /\ UNCHANGED <<holds, hand, inNode, current, task, phase>>
      BY <2>3 DEF InitOutNode, visits, pool
    <3>2. QED
      BY <1>a, <2>1, <3>1 DEF EntriesAreOwned, Owned, Unused
  <2>4. QED
    BY <1>8, <2>2, <2>3
<1>9. ASSUME NEW t \in Thread, RetiresNode(t) PROVE EntriesAreOwned'
  <2>1. /\ inNode' = [inNode EXCEPT ![t] = None] /\ hand[t] = None
        /\ UNCHANGED <<holds, hand, outNode, current, task>>
    BY <1>9 DEF RetiresNode, Retire, Ready, visits
  <2>2. \A r \in Thread : r # t /\ Owned(r) => Owned(r)'
    BY <1>9, <2>1 DEF RetiresNode, Owned
  <2>3. QED
    BY <1>a, <2>1, <2>2 DEF EntriesAreOwned
<1>10. CASE RetiresBarrier
  <2>1. /\ inNode' = [inNode EXCEPT ![Barrier] = None]
        /\ UNCHANGED <<holds, hand, outNode, current, task>>
    BY <1>10 DEF RetiresBarrier, RetireBarrierNode, visits
  <2>2. \A r \in Thread : Owned(r) => Owned(r)'
    BY <1>10, <2>1 DEF RetiresBarrier, Owned
  <2>3. QED
    BY <1>a, <2>1, <2>2 DEF EntriesAreOwned
<1>11. CASE GoesOn
  <2>1. UNCHANGED <<holds, hand, inNode, outNode, current, task>>
    BY <1>11 DEF GoesOn, stacks, visits
  <2>2. ASSUME NEW t \in Thread, Owned(t), hand[t] # None \/ holds[inNode[t]] # {}
        PROVE  Owned(t)'
    BY <1>11, <2>1, <2>2 DEF GoesOn, Owned, PoolIdle, Ready
  <2>3. QED
    BY <2>1, <2>2 DEF EntriesAreOwned
<1>12. CASE FinalizerEpilogue \/ FastTerminateConMarkPhase
  <2>1. \A t \in Thread : hand[t] = None
    BY <1>12 DEF FinalizerEpilogue, FastTerminateConMarkPhase, PoolIdle, Ready
  <2>2. hand' = hand /\ \A t \in Thread : inNode'[t] = None /\ outNode'[t] = None
    BY <1>12, <1>a DEF FinalizerEpilogue, FastTerminateConMarkPhase, Epilogue
  <2>3. QED
    BY <2>1, <2>2 DEF EntriesAreOwned
<1>13. CASE SweepEnds
  BY <1>13 DEF SweepEnds, stacks, pool, EntriesAreOwned, Owned
<1>14. CASE UNCHANGED vars
  BY <1>14, <1>0 DEF vars, stacks, visits, pool
<1>15. QED
  BY StepKinds, <1>1, <1>2, <1>3, <1>4, <1>5, <1>6, <1>7, <1>8, <1>9, <1>10, <1>11, <1>12,
     <1>13, <1>14

\* A thread with a task to execute will find what is retired.
LEMMA WorkerExpects ==
  ASSUME NEW t \in Thread, task'[t] \in {"root", "execute"}
  PROVE  Expected'
  BY DEF Expected

LEMMA ExpectedKept ==
  ASSUME TypeOK, Working, StacksHaveNodes, Places, EntriesAreOwned, RetiredAreExpected,
         [Next]_vars
  PROVE  RetiredAreExpected'
<1>a. /\ inNode \in [Stack -> Node \cup {None}] /\ holds \in [Node -> SUBSET Obj]
      /\ hand \in [Stack -> Obj \cup {None}] /\ task \in [Thread -> Kind \cup {"none"}]
      /\ queue \in [Kind -> Nat] /\ "execute" \in Kind /\ "root" \in Kind
      /\ None \notin Node /\ None \notin Obj /\ Client \in Thread /\ RootTasks \in Nat \ {0}
      /\ Barrier \in Stack /\ Barrier \notin Thread /\ Thread \subseteq Stack
  BY MarkStackAssumption DEF TypeOK, Thread, Stack, Kind
<1>b. CASE Expected'
  BY <1>b DEF RetiredAreExpected
<1>1. ASSUME NEW s \in Stack, RefillNode(s) PROVE RetiredAreExpected'
  <2>1. Unused(FreeNode)
    BY <1>1, NodeTaken DEF RefillNode
  <2>2. /\ inNode' = [inNode EXCEPT ![s] = FreeNode] /\ inNode[s] = None
        /\ hand' = [hand EXCEPT ![s] = None]
        /\ holds' = [holds EXCEPT ![FreeNode] = @ \cup ({hand[s]} \ {None})]
        /\ UNCHANGED <<retiredNodes, task, phase>>
    BY <1>1 DEF RefillNode, NeedsNode
  <2>3. queue'["execute"] >= queue["execute"] /\ queue'["root"] = queue["root"]
    BY <1>1, <1>a DEF RefillNode, PostInNode
  <2>4. hand[Client] # None \/ (inNode[Client] # None /\ holds[inNode[Client]] # {}) =>
          hand'[Client] # None \/ (inNode'[Client] # None /\ holds'[inNode'[Client]] # {})
    BY <1>a, <2>1, <2>2 DEF Unused
  <2>5. hand[Barrier] # None \/ inNode[Barrier] # None =>
          hand'[Barrier] # None \/ inNode'[Barrier] # None
    BY <1>a, <2>1, <2>2 DEF Unused
  <2>6. queue["execute"] > 0 \/ queue["root"] > 0 =>
          queue'["execute"] > 0 \/ queue'["root"] > 0
    <3>1. queue["execute"] \in Nat /\ queue'["execute"] \in Nat
      BY <1>1, <1>a DEF RefillNode, PostInNode
    <3>2. QED
      BY <2>3, <3>1
  <2>7. Expected => Expected'
    BY <2>2, <2>4, <2>5, <2>6, Zenon DEF Expected
  <2>8. QED
    BY <2>2, <2>7 DEF RetiredAreExpected
<1>2. ASSUME NEW s \in Stack, NEW o \in Obj, Pushes(s, o) PROVE RetiredAreExpected'
  <2>1. UNCHANGED <<task, queue, phase>>
    BY <1>2 DEF Pushes, PushBack, pool
  <2>2. \/ inNode[s] # None /\ inNode' = inNode
           /\ holds' = [holds EXCEPT ![inNode[s]] = @ \cup {o}]
        \/ hand' = [hand EXCEPT ![s] = o]
    BY <1>2 DEF Pushes, PushBack
  <2>3. hand'[s] # None \/ (inNode'[s] # None /\ holds'[inNode'[s]] # {})
    BY <1>a, <2>2
  <2>4. CASE s \in Thread /\ (task[s] \in {"scan", "root"} \/ left[s] # {})
    BY <2>1, <2>4, <1>b DEF Working, Expected
  <2>5. CASE s = Client /\ phase \in {"shapes", "remark", "retain"}
    BY <2>1, <2>3, <2>5, <1>b DEF Expected
  <2>6. CASE s = Barrier /\ phase \in {"mark", "final"}
    BY <2>1, <2>3, <2>6, <1>b DEF Expected
  <2>7. QED
    BY <1>2, <2>4, <2>5, <2>6 DEF Pushes
<1>3. ASSUME NEW t \in Thread, ThreadMoves(t) PROVE RetiredAreExpected'
  <2>1. UNCHANGED <<retiredNodes, holds, hand, inNode, phase>>
    BY <1>3 DEF ThreadMoves, TakeTask, ScanEnds, ExecuteEnds, stacks
  <2>2. ASSUME NEW k \in Kind, TakeTask(t, k) PROVE RetiredAreExpected'
    <3>1. k = "scan" => phase = "collect"
      BY <2>2 DEF TakeTask, Working
    <3>2. k \in {"root", "execute"} => task'[t] \in {"root", "execute"}
      BY <2>2, <1>a DEF TakeTask
    <3>3. QED
      BY <1>b, <2>1, <3>1, <3>2, WorkerExpects DEF Kind, Expected
  <2>3. CASE ScanEnds(t)
    <3>1. task[t] = "scan" => phase = "collect"
      BY DEF Working
    <3>2. task[t] = "root" => task'[t] = "execute"
      BY <2>3, <1>a DEF ScanEnds
    <3>3. task[t] \in {"scan", "root"}
      BY <2>3 DEF ScanEnds
    <3>4. QED
      BY <1>b, <2>1, <3>1, <3>2, <3>3, WorkerExpects DEF Expected
  <2>4. CASE ExecuteEnds(t)
    <3>1. current[t] = None /\ OtherNodes(t) = {} /\ outNode[t] # None
      BY <2>4, AtWork, MarkStackAssumption DEF ExecuteEnds, Executes
    <3>2. retiredNodes = {}
      BY <3>1 DEF OtherNodes, EntriesAreOwned
    <3>3. QED
      BY <2>1, <3>2 DEF RetiredAreExpected
  <2>5. QED
    BY <1>3, <2>2, <2>3, <2>4 DEF ThreadMoves
<1>4. ASSUME NEW t \in Thread, task[t] = "execute", UNCHANGED task PROVE RetiredAreExpected'
  BY <1>4, <1>b, WorkerExpects
<1>5. ASSUME NEW t \in Thread, PopOwnNode(t) \/ FinishNode(t) PROVE RetiredAreExpected'
  BY <1>4, <1>5 DEF PopOwnNode, Executes, StartNode, FinishNode, pool, Working
<1>6. ASSUME NEW t \in Thread, NEW n \in Node, PopOtherNode(t, n) PROVE RetiredAreExpected'
  BY <1>4, <1>6 DEF PopOtherNode, Executes, StartNode, pool
<1>7. ASSUME NEW t \in Thread, NEW o \in Obj, VisitEnds(t, o) PROVE RetiredAreExpected'
  BY <1>4, <1>7 DEF VisitEnds, pool, Working
<1>8. ASSUME NEW t \in Thread, InitInNode(t) \/ InitOutNode(t) PROVE RetiredAreExpected'
  BY <1>8, <1>b DEF InitInNode, InitOutNode, pool, Expected
<1>9. ASSUME NEW t \in Thread, RetiresNode(t) PROVE RetiredAreExpected'
  BY <1>9, <1>a, <1>b DEF RetiresNode, Retire, PostTask, Expected
<1>10. CASE RetiresBarrier
  BY <1>10, <1>b DEF RetiresBarrier, Expected
<1>11. CASE GoesOn
  <2>1. UNCHANGED <<retiredNodes, hand, inNode, holds, task>>
    BY <1>11 DEF GoesOn, stacks
  <2>2. PoolIdle => queue["execute"] = 0 /\ queue["root"] = 0
                    /\ \A t \in Thread : task[t] = "none"
    BY <1>a DEF PoolIdle
  <2>3. CASE phase = "prologue"
    <3>1. phase' = "collect" \/ queue'["root"] > 0
      BY <1>11, <1>a, <2>3 DEF GoesOn
    <3>2. QED
      BY <1>b, <3>1 DEF Expected
  <2>4. CASE phase \in {"wait", "drain"}
    BY <1>11, <1>a, <2>1, <2>2, <2>4 DEF GoesOn, RetiredAreExpected, Expected
  <2>5. CASE phase \in {"remark", "retain"}
    <3>1. hand[Client] = None /\ holds[inNode[Client]] = {} /\ UNCHANGED queue
      BY <1>11, <2>5 DEF GoesOn, Ready
    <3>2. QED
      BY <2>1, <2>5, <3>1 DEF RetiredAreExpected, Expected
  <2>6. CASE phase = "final"
    <3>1. hand[Barrier] = None /\ inNode[Barrier] = None /\ UNCHANGED queue
      BY <1>11, <2>6 DEF GoesOn, Ready
    <3>2. QED
      BY <2>1, <2>6, <3>1 DEF RetiredAreExpected, Expected
  <2>7. CASE phase \in {"idle", "collect", "shapes", "retire"}
    BY <1>11, <1>b, <2>7 DEF GoesOn, Expected
  <2>8. QED
    BY <1>11, <2>3, <2>4, <2>5, <2>6, <2>7 DEF GoesOn
<1>12. CASE FinalizerEpilogue \/ FastTerminateConMarkPhase \/ SweepEnds
  BY <1>12, <1>b DEF FinalizerEpilogue, FastTerminateConMarkPhase, SweepEnds, Expected
<1>13. CASE UNCHANGED vars
  BY <1>13 DEF vars, stacks, pool, RetiredAreExpected, Expected
<1>14. QED
  BY StepKinds, <1>1, <1>2, <1>3, <1>5, <1>6, <1>7, <1>8, <1>9, <1>10, <1>11, <1>12, <1>13

\* When WaitFinish has returned for the last time, every marked object was visited.
LEMMA NothingIsLeft ==
  ASSUME StackInv, PoolIdle, phase = "redrain"
  PROVE  marked \ visited = {}
<1>1. \A t \in Thread : /\ task[t] = "none" /\ left[t] = {} /\ hand[t] = None
                        /\ inNode[t] \in Node
  BY IdlePool, ReadyHasNode DEF StackInv, PoolIdle
<1>2. \A t \in Thread : holds[inNode[t]] = {}
  BY <1>1, MarkStackAssumption DEF StackInv, EntriesAreOwned, Owned
<1>3. inNode[Barrier] = None /\ hand[Barrier] = None
  BY DEF StackInv, StacksHaveNodes
<1>4. queue["execute"] = 0 /\ queue["root"] = 0
  BY DEF PoolIdle, Kind
<1>5. retiredNodes = {}
  BY <1>1, <1>4 DEF StackInv, RetiredAreExpected, Expected
<1>6. \A o \in Obj : ~Carried(o)
  BY <1>1, <1>2, <1>3, <1>5, MarkStackAssumption DEF Carried, Stack
<1>7. QED
  BY <1>6 DEF StackInv, PendingIsCarried, TypeOK

LEMMA CarriedKept ==
  ASSUME StackInv, [Next]_vars
  PROVE  PendingIsCarried'
<1>a. /\ TypeOK /\ Working /\ StacksHaveNodes /\ Places /\ PendingIsCarried
      /\ inNode \in [Stack -> Node \cup {None}] /\ holds \in [Node -> SUBSET Obj]
      /\ hand \in [Stack -> Obj \cup {None}] /\ left \in [Thread -> SUBSET Obj]
      /\ marked \subseteq Obj
      /\ None \notin Node /\ None \notin Obj /\ Thread \subseteq Stack /\ Barrier \in Stack
  BY MarkStackAssumption DEF StackInv, TypeOK, Thread, Stack
<1>0. CASE UNCHANGED <<retiredNodes, holds, hand, inNode, left, marked, visited>>
  BY <1>0, <1>a DEF PendingIsCarried, Carried
<1>1. ASSUME NEW s \in Stack, RefillNode(s) PROVE PendingIsCarried'
  <2>1. FreeNode \in Node
    BY <1>1, <1>a, NodeTaken DEF RefillNode, Unused
  <2>2. /\ inNode' = [inNode EXCEPT ![s] = FreeNode] /\ inNode[s] = None
        /\ hand' = [hand EXCEPT ![s] = None]
        /\ holds' = [holds EXCEPT ![FreeNode] = @ \cup ({hand[s]} \ {None})]
        /\ UNCHANGED <<retiredNodes, left, marked, visited>>
    BY <1>1 DEF RefillNode, NeedsNode, visits
  <2>3. \A o \in Obj : Carried(o) => Carried(o)'
    BY <1>a, <2>1, <2>2 DEF Carried, Places
  <2>4. QED
    BY <1>a, <2>2, <2>3 DEF PendingIsCarried
<1>2. ASSUME NEW s \in Stack, NEW o \in Obj, Pushes(s, o) PROVE PendingIsCarried'
  <2>1. marked' = marked \cup {o} /\ UNCHANGED <<left, visited>>
    BY <1>2 DEF Pushes, PushBack, visits
  <2>2. \/ /\ inNode[s] # None /\ UNCHANGED <<retiredNodes, inNode, hand>>
           /\ holds' = [holds EXCEPT ![inNode[s]] = @ \cup {o}]
        \/ /\ retiredNodes' = retiredNodes \cup ({inNode[s]} \ {None}) /\ holds' = holds
           /\ hand[s] = None /\ hand' = [hand EXCEPT ![s] = o]
           /\ inNode' = [inNode EXCEPT ![s] = None]
    BY <1>2 DEF Pushes, PushBack
  <2>3. Carried(o)'
    <3>1. hand'[s] = o \/ (inNode'[s] # None /\ o \in holds'[inNode'[s]])
      BY <1>a, <2>2
    <3>2. QED
      BY <3>1 DEF Carried
  <2>4. ASSUME NEW p \in Obj, Carried(p) PROVE Carried(p)'
    <3>1. CASE /\ inNode[s] # None /\ UNCHANGED <<retiredNodes, inNode, hand>>
               /\ holds' = [holds EXCEPT ![inNode[s]] = @ \cup {o}]
      <4>1. \A n \in Node : p \in holds[n] => p \in holds'[n]
        BY <1>a, <3>1
      <4>2. retiredNodes \subseteq Node
        BY <1>a DEF TypeOK
      <4>3. QED
        BY <1>a, <2>1, <2>4, <3>1, <4>1, <4>2 DEF Carried
    <3>2. CASE /\ retiredNodes' = retiredNodes \cup ({inNode[s]} \ {None}) /\ holds' = holds
               /\ hand[s] = None /\ hand' = [hand EXCEPT ![s] = o]
               /\ inNode' = [inNode EXCEPT ![s] = None]
      BY <1>a, <2>1, <2>4, <3>2 DEF Carried
    <3>3. QED
      BY <2>2, <3>1, <3>2
  <2>5. QED
    BY <1>a, <2>1, <2>3, <2>4 DEF PendingIsCarried
<1>3. ASSUME NEW t \in Thread, ThreadMoves(t) PROVE PendingIsCarried'
  BY <1>0, <1>3 DEF ThreadMoves, TakeTask, ScanEnds, ExecuteEnds, stacks, visits
<1>4. ASSUME NEW t \in Thread, PopOwnNode(t) PROVE PendingIsCarried'
  <2>1. left[t] = {}
    BY <1>4, <1>a DEF PopOwnNode, Executes, Working
  <2>2. /\ inNode' = [inNode EXCEPT ![t] = outNode[t]]
        /\ left' = [left EXCEPT ![t] = holds[inNode[t]]]
        /\ UNCHANGED <<retiredNodes, holds, hand, marked, visited>>
    BY <1>4 DEF PopOwnNode, StartNode
  <2>3. \A o \in Obj : Carried(o) => Carried(o)'
    BY <1>a, <2>1, <2>2 DEF Carried
  <2>4. QED
    BY <1>a, <2>2, <2>3 DEF PendingIsCarried
<1>5. ASSUME NEW t \in Thread, FinishNode(t) PROVE PendingIsCarried'
  <2>1. /\ current[t] \in Node
        /\ holds' = [holds EXCEPT ![current[t]] = {}]
        /\ UNCHANGED <<retiredNodes, inNode, hand, left, marked, visited>>
    BY <1>5, <1>a DEF FinishNode, ResetNode, stacks, TypeOK
  <2>2. Elsewhere(current[t])
    BY <1>5, <1>a DEF FinishNode, Places
  <2>3. \A o \in Obj : Carried(o) => Carried(o)'
    BY <1>a, <2>1, <2>2 DEF Carried, Elsewhere, Places, TypeOK
  <2>4. QED
    BY <1>a, <2>1, <2>3 DEF PendingIsCarried
<1>6. ASSUME NEW t \in Thread, NEW n \in Node, PopOtherNode(t, n) PROVE PendingIsCarried'
  <2>1. left[t] = {}
    BY <1>6, <1>a DEF PopOtherNode, Executes, Working
  <2>2. /\ retiredNodes' = retiredNodes \ {n} /\ left' = [left EXCEPT ![t] = holds[n]]
        /\ UNCHANGED <<inNode, holds, hand, marked, visited>>
    BY <1>6 DEF PopOtherNode, StartNode
  <2>3. \A o \in Obj : Carried(o) => Carried(o)'
    BY <1>a, <2>1, <2>2 DEF Carried
  <2>4. QED
    BY <1>a, <2>2, <2>3 DEF PendingIsCarried
<1>7. ASSUME NEW t \in Thread, NEW o \in Obj, VisitEnds(t, o) PROVE PendingIsCarried'
  <2>1. /\ left' = [left EXCEPT ![t] = @ \ {o}] /\ visited' = visited \cup ({o} \cap marked)
        /\ UNCHANGED <<retiredNodes, inNode, holds, hand, marked>>
    BY <1>7 DEF VisitEnds, stacks
  <2>2. \A p \in Obj \ {o} : Carried(p) => Carried(p)'
    BY <1>a, <2>1 DEF Carried
  <2>3. QED
    BY <1>a, <2>1, <2>2 DEF PendingIsCarried
<1>8. ASSUME NEW t \in Thread, InitInNode(t) \/ InitOutNode(t) PROVE PendingIsCarried'
  <2>1. CASE InitInNode(t)
    <3>1. /\ inNode' = [inNode EXCEPT ![t] = FreeNode] /\ inNode[t] = None
          /\ UNCHANGED <<retiredNodes, holds, hand, left, marked, visited>>
      BY <2>1 DEF InitInNode, visits
    <3>2. \A o \in Obj : Carried(o) => Carried(o)'
      BY <1>a, <3>1 DEF Carried
    <3>3. QED
      BY <1>a, <3>1, <3>2 DEF PendingIsCarried
  <2>2. CASE InitOutNode(t)
    BY <1>0, <2>2 DEF InitOutNode, visits
  <2>3. QED
    BY <1>8, <2>1, <2>2
<1>9. ASSUME NEW s \in Stack, retiredNodes' = retiredNodes \cup ({inNode[s]} \ {None}),
             inNode' = [inNode EXCEPT ![s] = None],
             UNCHANGED <<holds, hand, left, marked, visited>>
      PROVE  PendingIsCarried'
  <2>1. \A o \in Obj : Carried(o) => Carried(o)'
    BY <1>9, <1>a DEF Carried
  <2>2. QED
    BY <1>9, <1>a, <2>1 DEF PendingIsCarried
<1>10. ASSUME NEW t \in Thread, RetiresNode(t) PROVE PendingIsCarried'
  <2>1. inNode[t] # None
    BY <1>10, <1>a, ReadyHasNode DEF RetiresNode
  <2>2. QED
    BY <1>9, <1>10, <1>a, <2>1 DEF RetiresNode, Retire, visits
<1>11. CASE RetiresBarrier
  BY <1>9, <1>11, <1>a
     DEF RetiresBarrier, RetireBarrierNode, BarrierNodeRetired, visits
<1>12. CASE GoesOn
  BY <1>0, <1>12 DEF GoesOn, stacks, visits
<1>13. CASE FinalizerEpilogue
  BY <1>13, NothingIsLeft DEF FinalizerEpilogue, PendingIsCarried
<1>14. CASE SweepEnds \/ FastTerminateConMarkPhase
  BY <1>14 DEF SweepEnds, FastTerminateConMarkPhase, PendingIsCarried
<1>15. CASE UNCHANGED vars
  BY <1>0, <1>15 DEF vars, stacks, visits
<1>16. QED
  BY <1>a, StepKinds, <1>1, <1>2, <1>3, <1>4, <1>5, <1>6, <1>7, <1>8, <1>10, <1>11, <1>12,
     <1>13, <1>14, <1>15

LEMMA InitialStacks ==
  ASSUME Init
  PROVE  StackInv
<1>1. TypeOK
  BY MarkStackAssumption DEF Init, TypeOK, Phase, Thread, Stack
<1>2. Working
  BY DEF Init, Working, Kind
<1>3. StacksHaveNodes
  BY DEF Init, StacksHaveNodes, Stack
<1>4. Places
  BY MarkStackAssumption DEF Init, Places, Thread, Stack
<1>5. EntriesAreOwned
  BY DEF Init, EntriesAreOwned, Thread, Stack
<1>6. RetiredAreExpected /\ PendingIsCarried
  BY DEF Init, RetiredAreExpected, PendingIsCarried
<1>7. QED
  BY <1>1, <1>2, <1>3, <1>4, <1>5, <1>6 DEF StackInv

LEMMA StackKept ==
  ASSUME StackInv, [Next]_vars
  PROVE  StackInv'
<1>1. TypeOK' /\ Working' /\ StacksHaveNodes' /\ Places'
  BY TypeKept, WorkingKept, StacksKept, PlacesKept DEF StackInv
<1>2. EntriesAreOwned' /\ RetiredAreExpected' /\ PendingIsCarried'
  BY OwnedKept, ExpectedKept, CarriedKept DEF StackInv
<1>3. QED
  BY <1>1, <1>2 DEF StackInv

LEMMA StackAlways == Spec => []StackInv
<1>1. Init => StackInv
  BY InitialStacks
<1>2. StackInv /\ [Next]_vars => StackInv'
  BY StackKept
<1>3. QED
  BY <1>1, <1>2, PTL DEF Spec

\* Every variable of the mark stack keeps its type; a counter of queued tasks never falls
\* below zero.
THEOREM StacksTyped == Spec => []TypeOK
<1>1. StackInv => TypeOK
  BY DEF StackInv
<1>2. QED
  BY <1>1, StackAlways, PTL

\* No two threads fill, visit or reset the same node, and PageList hands out none with
\* entries.
THEOREM NodesAreSeparate == Spec => []NodesInOnePlace
<1>1. ASSUME StackInv PROVE NodesInOnePlace
  <2>0. Places /\ None \notin Node /\ Thread \subseteq Stack /\ freeNodes \subseteq Node
    BY <1>1, MarkStackAssumption DEF StackInv, Thread, Stack, TypeOK
  <2>1. freeNodes \cup retiredNodes \cup InNodes \cup OutNodes \subseteq mapped
    BY <2>0 DEF Places, InNodes, OutNodes
  <2>2. /\ freeNodes \cap retiredNodes = {}
        /\ (freeNodes \cup retiredNodes) \cap (InNodes \cup OutNodes) = {}
        /\ InNodes \cap OutNodes = {}
    BY <2>0 DEF Places, Elsewhere, InNodes, OutNodes
  <2>3. /\ \A s, r \in Stack : inNode[s] = inNode[r] => s = r \/ inNode[s] = None
        /\ \A t, r \in Thread : outNode[t] = outNode[r] => t = r \/ outNode[t] = None
        /\ \A n \in freeNodes : holds[n] = {}
    BY <2>0 DEF Places
  <2>4. ASSUME NEW t \in Thread, NEW n \in Visiting(t)
        PROVE  /\ n \notin freeNodes \cup retiredNodes \cup InNodes \cup OutNodes
               /\ \A r \in Thread \ {t} : n \notin Visiting(r)
    <3>1. n = current[t] /\ current[t] \notin {None, outNode[t]}
      BY <2>4 DEF Visiting
    <3>2. /\ Elsewhere(n)
          /\ \A r \in Thread : outNode[r] # n /\ (current[r] = n => r = t)
      BY <2>0, <3>1 DEF Places
    <3>3. QED
      BY <3>2 DEF Elsewhere, InNodes, OutNodes, Visiting
  <2>5. QED
    BY <2>1, <2>2, <2>3, <2>4 DEF NodesInOnePlace
<1>2. QED
  BY <1>1, StackAlways, PTL

\* What was marked and not yet visited is on its way to a visit, whoever has the node.
THEOREM MarkedIsNeverLost == Spec => []NothingLost
<1>1. ASSUME StackInv PROVE NothingLost
  <2>1. None \notin Node /\ marked \subseteq Obj /\ PendingIsCarried
    BY <1>1, MarkStackAssumption DEF StackInv, TypeOK
  <2>2. ASSUME NEW o \in marked \ visited PROVE o \in Entries
    BY <2>1 DEF PendingIsCarried, Carried, Entries, InNodes
  <2>3. QED
    BY <2>2 DEF NothingLost
<1>2. QED
  BY <1>1, StackAlways, PTL

-----------------------------------------------------------------------------
(* The refinement.                                                         *)

LEMMA StepIsPromised ==
  ASSUME StackInv, [Next]_vars
  PROVE  [Promise!Next]_(Promise!vars)
<1>a. TypeOK /\ Working /\ visited \subseteq marked /\ StacksHaveNodes
  BY DEF StackInv, Working
<1>0. ASSUME UNCHANGED <<marked, visited>>, phase # "sweep", phase' # "sweep"
      PROVE  UNCHANGED Promise!vars
  BY <1>0 DEF Promise!vars
<1>1. ASSUME NEW s \in Stack, RefillNode(s) PROVE UNCHANGED Promise!vars
  BY <1>1 DEF RefillNode, visits, Promise!vars
<1>2. ASSUME NEW s \in Stack, NEW o \in Obj, Pushes(s, o) PROVE Promise!Next
  <2>1. phase # "sweep"
    <3>1. CASE s \in Thread /\ (task[s] \in {"scan", "root"} \/ left[s] # {})
      BY <1>a, <3>1, AtWork
    <3>2. QED
      BY <1>2, <3>1 DEF Pushes
  <2>2. o \notin marked /\ marked' = marked \cup {o} /\ UNCHANGED <<visited, phase>>
    BY <1>2 DEF Pushes, PushBack, visits
  <2>3. Promise!Mark(o)
    BY <1>a, <2>1, <2>2 DEF Promise!Mark
  <2>4. QED
    BY <2>3 DEF Promise!Next
<1>3. ASSUME NEW t \in Thread, ThreadMoves(t) PROVE UNCHANGED Promise!vars
  BY <1>3 DEF ThreadMoves, TakeTask, ScanEnds, ExecuteEnds, visits, Promise!vars
<1>4. ASSUME NEW t \in Thread, PopOwnNode(t) \/ FinishNode(t) PROVE UNCHANGED Promise!vars
  BY <1>4 DEF PopOwnNode, FinishNode, StartNode, Promise!vars
<1>5. ASSUME NEW t \in Thread, NEW n \in Node, PopOtherNode(t, n) PROVE UNCHANGED Promise!vars
  BY <1>5 DEF PopOtherNode, StartNode, Promise!vars
<1>6. ASSUME NEW t \in Thread, NEW o \in Obj, VisitEnds(t, o)
      PROVE  [Promise!Next]_(Promise!vars)
  <2>1. visited' = visited \cup ({o} \cap marked) /\ UNCHANGED <<marked, phase>>
    BY <1>6 DEF VisitEnds
  <2>2. CASE o \in marked \ visited
    BY <2>1, <2>2 DEF Promise!Next, Promise!Visit
  <2>3. CASE o \notin marked \ visited
    <3>1. visited' = visited
      BY <2>1, <2>3
    <3>2. QED
      BY <2>1, <3>1 DEF Promise!vars
  <2>4. QED
    BY <2>2, <2>3
<1>7. ASSUME NEW t \in Thread, InitInNode(t) \/ InitOutNode(t) PROVE UNCHANGED Promise!vars
  BY <1>7 DEF InitInNode, InitOutNode, visits, Promise!vars
<1>8. ASSUME NEW t \in Thread, RetiresNode(t) PROVE UNCHANGED Promise!vars
  BY <1>0, <1>8 DEF RetiresNode, Retire, visits
<1>9. CASE RetiresBarrier
  BY <1>0, <1>9 DEF RetiresBarrier, RetireBarrierNode, visits
<1>10. CASE GoesOn
  BY <1>0, <1>10 DEF GoesOn, visits
<1>11. CASE FinalizerEpilogue
  <2>1. marked \ visited = {}
    BY <1>11, NothingIsLeft DEF FinalizerEpilogue
  <2>2. phase # "sweep" /\ phase' = "sweep" /\ UNCHANGED <<marked, visited>>
    BY <1>11 DEF FinalizerEpilogue
  <2>3. QED
    BY <2>1, <2>2 DEF Promise!Next, Promise!End
<1>12. CASE SweepEnds \/ FastTerminateConMarkPhase
  BY <1>12 DEF SweepEnds, FastTerminateConMarkPhase, Promise!Next, Promise!Reset
<1>13. CASE UNCHANGED vars
  BY <1>13 DEF vars, visits, Promise!vars
<1>14. QED
  BY <1>a, StepKinds, <1>1, <1>2, <1>3, <1>4, <1>5, <1>6, <1>7, <1>8, <1>9, <1>10, <1>11,
     <1>12, <1>13

\* The work ends, and the sweep begins, only when every marked object was visited: the mark
\* stack is the set that ConMark takes it to be.
THEOREM StackImplements == Spec => ImplementsWorklist
<1>1. Init => Promise!Init
  BY DEF Init, Promise!Init
<1>2. StackInv /\ [Next]_vars => [Promise!Next]_(Promise!vars)
  BY StepIsPromised
<1>3. QED
  BY <1>1, <1>2, StackAlways, PTL DEF Spec, ImplementsWorklist, Promise!Spec
=============================================================================
