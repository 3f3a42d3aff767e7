--------------------------- MODULE ConMarkProofs ---------------------------
(***************************************************************************)
(* What ConMark guarantees for any number of objects, fields and workers.  *)
(***************************************************************************)
EXTENDS ConMark, TLAPS

\* A worker that visits no object has no field left to visit.
IdleWorkersHaveNothingLeft ==
  \A w \in Workers : scanning[w].obj = Null => scanning[w].left = {}

TypeInv == TypeOK /\ IdleWorkersHaveNothingLeft

-----------------------------------------------------------------------------
(* The inductive invariant, for callbacks that do not change the heap.     *)

OnStack == gray \cup retired \cup node

\* What the interpreter holds outside the callback that a finalizer makes.
OuterRoots == IF calling THEN caller ELSE roots

\* A worker has field s of o still to visit.
StillToVisit(o, s) == \E w \in Workers : scanning[w].obj = o /\ s \in scanning[w].left

\* What the collector or the interpreter holds is allocated; so are the frames that remark
\* will read and, outside a sweep, whatever an allocated object refers to.
HeldIsAllocated ==
  /\ roots \cup watched \cup finalizerSet \cup marked \cup OnStack \subseteq alloc
  /\ unbarriered \in alloc \cup {Null}
  /\ \A w \in Workers : scanning[w].obj \in alloc \cup {Null}
  /\ phase = "mark" => async_obj_recoder \subseteq alloc
  /\ phase # "sweep" => \A o \in alloc, s \in Slot : ref[o][s] \in alloc \cup {Null}

\* What each phase leaves and finds of the mark stack, the flags and the barrier.
PhasesAreClean ==
  /\ calling => phase = "final" /\ caller \subseteq roots
  /\ phase \in {"idle", "undefined"} => marked = {} /\ node = {}
  /\ phase \notin {"mark", "remark", "drain"} => gray = {} /\ NoneScanning
  /\ phase \in {"remark", "drain", "sweep"} => node = {}
  /\ phase = "sweep" => retired = {}
  /\ phase = "mark" /\ finished => gray = {} /\ NoneScanning
  /\ phase # "mark" => unbarriered = Null
  /\ phase = "mark" => con_mark_state
  /\ con_mark_state => phase \in {"mark", "remark"}
  /\ phase \in {"final", "drain"} => should_mark_new_obj
  /\ phase \in {"idle", "mark"} => ~should_mark_new_obj
  /\ phase = "sweep" => should_mark_new_obj = concurrent

\* While objects are being marked, a field of a marked object leads to a marked one unless
\* the object is on a stack, or the field is still to visit, or its barrier has not run
\* yet, or remark is going to look at the frame again.
MarkedLeadToMarked ==
  phase \in {"mark", "remark", "final", "drain"} =>
    \A o \in marked \ OnStack, s \in Slot :
      \/ ref[o][s] \in marked \cup {Null, unbarriered}
      \/ StillToVisit(o, s)
      \/ phase = "mark" /\ o \in async_obj_recoder

RootsAreMarked == phase \in {"remark", "final", "drain"} => OuterRoots \subseteq marked

\* The finalizers of all dead objects have run when what they keep is visited.
WatchedIsMarked == phase = "drain" => watched \subseteq marked

\* The finalizers themselves mark objects without what they refer to, and a callback may
\* hold dead ones; what was marked as they began is closed under references still.
RootsAreKept ==
  phase = "final" =>
    \E K \in SUBSET marked : OuterRoots \subseteq K /\ \A o \in K : Fields(o) \subseteq K

\* While the sweep runs, the marked objects are closed under references.
SweepSpares ==
  phase = "sweep" =>
    /\ roots \cup watched \cup finalizerSet \subseteq marked
    /\ \A o \in marked, s \in Slot : ref[o][s] \in marked \cup {Null}

MarkingKeeps == RootsAreMarked /\ WatchedIsMarked /\ RootsAreKept /\ SweepSpares

SafetyInv == TypeInv /\ HeldIsAllocated /\ PhasesAreClean /\ MarkedLeadToMarked /\ MarkingKeeps

-----------------------------------------------------------------------------
(* The interpreter's actions keep the types.                               *)

LEMMA InterpreterTyped ==
  ASSUME TypeInv, Interpreter
  PROVE  TypeInv'
<1> USE ConMarkAssumption DEF TypeInv, TypeOK, IdleWorkersHaveNothingLeft, heap, finalizers,
        stacks, flags, control, Value
<1>1. ASSUME NEW o \in Obj, Alloc(o) PROVE TypeInv'
  BY <1>1 DEF Alloc, MarkNew, Empty
<1>2. ASSUME NEW o \in Obj, NEW s \in Slot, Load(o, s) PROVE TypeInv'
  BY <1>2 DEF Load
<1>3. ASSUME NEW o \in Obj, Drop(o) PROVE TypeInv'
  BY <1>3 DEF Drop
<1>4. ASSUME NEW o \in Obj, Deref(o) PROVE TypeInv'
  BY <1>4 DEF Deref
<1>5. ASSUME NEW o \in Obj, Watch(o) PROVE TypeInv'
  BY <1>5 DEF Watch
<1>6. ASSUME NEW o \in Obj, Unregister(o) PROVE TypeInv'
  BY <1>6 DEF Unregister, WithoutRecord
<1>7. ASSUME NEW o \in Obj, NEW v \in Obj, Register(o, v) PROVE TypeInv'
  BY <1>7 DEF Register
<1>8. ASSUME NEW o \in Obj, NEW s \in Slot, NEW v \in Value, HeapObjStore(o, s, v)
      PROVE  TypeInv'
  BY <1>8 DEF HeapObjStore
<1>9. ASSUME NEW o \in Obj, NEW s \in Slot, NEW v \in Value, SuspendFrame(o, s, v)
      PROVE  TypeInv'
  BY <1>9 DEF SuspendFrame, RecordFrame
<1>10. ASSUME WriteBarrier PROVE TypeInv'
  BY <1>10 DEF WriteBarrier, PushBarrierRefs
<1>11. ASSUME CallbackReturns PROVE TypeInv'
  BY <1>11 DEF CallbackReturns
<1>12. QED
  BY <1>1, <1>2, <1>3, <1>4, <1>5, <1>6, <1>7, <1>8, <1>9, <1>10, <1>11 DEF Interpreter

(* The workers and the collector keep the types.                           *)

LEMMA WorkerTyped ==
  ASSUME TypeInv, NEW w \in Workers, Worker(w)
  PROVE  TypeInv'
<1> USE ConMarkAssumption DEF TypeInv, TypeOK, IdleWorkersHaveNothingLeft, heap, finalizers,
        stacks, flags, control, Value
<1>1. ASSUME NEW o \in Obj, TakeEntry(w, o) PROVE TypeInv'
  BY <1>1 DEF TakeEntry
<1>2. ASSUME NEW s \in Slot, VisitField(w, s) PROVE TypeInv'
  <2>1. scanning[w].obj \in Obj
    BY <1>2 DEF VisitField
  <2>2. ref[scanning[w].obj][s] \in Value
    BY <2>1
  <2>3. gray' \subseteq Obj /\ marked' \subseteq Obj
    BY <1>2, <2>2 DEF VisitField, PushBack
  <2>4. /\ scanning' \in [Workers -> [obj : Value, left : SUBSET Slot]]
        /\ \A x \in Workers : scanning'[x].obj = Null => scanning'[x].left = {}
    BY <1>2, <2>1 DEF VisitField, NoScan
  <2>5. QED
    BY <1>2, <2>3, <2>4 DEF VisitField
<1>3. QED
  BY <1>1, <1>2 DEF Worker

LEMMA CollectorTyped ==
  ASSUME TypeInv, Collector \/ Triggers \/ NotifyMarkFinished
  PROVE  TypeInv'
<1> USE ConMarkAssumption DEF TypeInv, TypeOK, IdleWorkersHaveNothingLeft, heap, finalizers,
        stacks, flags, control, Value
<1>1. ScannedRoots \subseteq Obj
  BY DEF ScannedRoots, Fields
<1>2. ASSUME StartConcurrentMark PROVE TypeInv'
  BY <1>1, <1>2 DEF StartConcurrentMark, CollectRoots
<1>3. ASSUME StartConcurrentMarkOnReclaimed PROVE TypeInv'
  BY <1>3 DEF StartConcurrentMarkOnReclaimed
<1>4. ASSUME StartParallelMark PROVE TypeInv'
  BY <1>4 DEF StartParallelMark, CollectRoots
<1>5. ASSUME StartRemark PROVE TypeInv'
  BY <1>1, <1>5 DEF StartRemark, CollectRoots, RemarkRoots
<1>6. ASSUME EndRemark PROVE TypeInv'
  BY <1>6 DEF EndRemark
<1>7. ASSUME NEW o \in Obj, JSObjectFinalizer(o) PROVE TypeInv'
  <2>1. Held(o) \subseteq Obj
    BY DEF Held
  <2>2. KeptByFinalizer(o) \subseteq Obj
    BY <2>1 DEF KeptByFinalizer
  <2>3. marked' \subseteq Obj /\ node' \subseteq Obj /\ retired' \subseteq Obj
    BY <1>7, <2>2 DEF JSObjectFinalizer, PushBarrierRefs
  <2>4. ref' \in [Obj -> [Slot -> Value]]
    BY <1>7 DEF JSObjectFinalizer, WithoutRecord
  <2>5. roots' \subseteq Obj /\ caller' \subseteq Obj /\ calling' \in BOOLEAN
    BY <1>7, <2>1 DEF JSObjectFinalizer
  <2>6. QED
    BY <1>7, <2>3, <2>4, <2>5 DEF JSObjectFinalizer
<1>8. ASSUME NEW o \in Obj, FinalizationRegistryDataFinalizer(o) PROVE TypeInv'
  BY <1>8 DEF FinalizationRegistryDataFinalizer, WithoutRecord
<1>9. ASSUME DrainFinalizerObjects PROVE TypeInv'
  BY <1>9 DEF DrainFinalizerObjects
<1>10. ASSUME EndFinalizers PROVE TypeInv'
  BY <1>10 DEF EndFinalizers, RetainMarked
<1>11. ASSUME NEW o \in Obj, SweepSlot(o) PROVE TypeInv'
  BY <1>11 DEF SweepSlot, Empty
<1>12. ASSUME EndSweep PROVE TypeInv'
  BY <1>12 DEF EndSweep
<1>13. ASSUME FastTerminateConMarkPhase PROVE TypeInv'
  BY <1>13 DEF FastTerminateConMarkPhase
<1>14. ASSUME NotifyMarkFinished PROVE TypeInv'
  BY <1>14 DEF NotifyMarkFinished
<1>15. QED
  BY <1>2, <1>3, <1>4, <1>5, <1>6, <1>7, <1>8, <1>9, <1>10, <1>11, <1>12, <1>13, <1>14
     DEF Collector, Triggers

LEMMA InitIsTyped == Init => TypeInv
<1> SUFFICES ASSUME Init PROVE TypeInv
  OBVIOUS
<1>1. ref \in [Obj -> [Slot -> Value]]
  BY DEF Init, Empty, Value
<1>2. /\ scanning \in [Workers -> [obj : Value, left : SUBSET Slot]]
      /\ IdleWorkersHaveNothingLeft
  BY DEF Init, NoScan, Value, IdleWorkersHaveNothingLeft
<1>3. QED
  BY <1>1, <1>2 DEF Init, TypeInv, TypeOK, Value

LEMMA TypeInvIsInductive == Spec => []TypeInv
<1>1. TypeInv /\ [Next]_vars => TypeInv'
  <2> SUFFICES ASSUME TypeInv, [Next]_vars PROVE TypeInv'
    OBVIOUS
  <2>1. CASE UNCHANGED vars
    BY <2>1 DEF vars, heap, finalizers, stacks, flags, control, TypeInv, TypeOK,
                IdleWorkersHaveNothingLeft
  <2>2. CASE Next
    BY <2>2, InterpreterTyped, WorkerTyped, CollectorTyped DEF Next
  <2>3. QED
    BY <2>1, <2>2
<1>2. QED
  BY <1>1, InitIsTyped, PTL DEF Spec

-----------------------------------------------------------------------------
(* What was marked as the finalizers began stays closed under references   *)
(* whatever finalizers and callbacks do: no field of a marked object is    *)
(* stored to, and what the callback holds it gives up as it returns.       *)

LEMMA ClearingKeeps ==
  ASSUME TypeInv, RootsAreKept,
         phase' = "final" =>
           /\ phase = "final" /\ OuterRoots' \subseteq OuterRoots /\ marked \subseteq marked'
           /\ \A o \in marked, s \in Slot : ref'[o][s] \in {ref[o][s], Null}
  PROVE  RootsAreKept'
<1>1. SUFFICES ASSUME phase' = "final"
               PROVE  \E K \in SUBSET marked' :
                        OuterRoots' \subseteq K /\ \A o \in K : Fields(o)' \subseteq K
  BY DEF RootsAreKept
<1>2. PICK K \in SUBSET marked :
        OuterRoots \subseteq K /\ \A o \in K : Fields(o) \subseteq K
  BY <1>1 DEF RootsAreKept
<1>3. OuterRoots' \subseteq K
  BY <1>1, <1>2
<1>4. \A o \in K : Fields(o)' \subseteq K
  BY <1>1, <1>2 DEF Fields
<1>5. QED
  BY <1>1, <1>2, <1>3, <1>4

(* The interpreter's actions keep the objects that it can reach.           *)

LEMMA InterpreterSafe ==
  ASSUME CallbacksStore = FALSE, SafetyInv, Interpreter
  PROVE  SafetyInv'
<1> USE ConMarkAssumption DEF SafetyInv, TypeInv, TypeOK, HeldIsAllocated, PhasesAreClean,
        OnStack, NoneScanning, MarkingKeeps, RootsAreMarked, WatchedIsMarked, SweepSpares,
        OuterRoots, InterpreterRuns, MayStore, Value, heap, finalizers, stacks, flags, control
<1>0. TypeInv'
  BY InterpreterTyped
\* The new object has no fields yet; it is marked already from the finalizer phase on.
<1>1. ASSUME NEW o \in Obj, Alloc(o) PROVE SafetyInv'
  <2> USE <1>1 DEF Alloc, MarkNew, Empty
  <2>1. HeldIsAllocated' /\ PhasesAreClean'
    OBVIOUS
  <2>2. MarkedLeadToMarked'
    BY DEF MarkedLeadToMarked, StillToVisit
  <2>3. RootsAreKept'
    BY ClearingKeeps
  <2>4. MarkingKeeps'
    BY <2>3
  <2>5. QED
    BY <1>0, <2>1, <2>2, <2>4
\* What the interpreter gets at is allocated, and marked if the sweep runs.
<1>2. ASSUME NEW o \in Obj, NEW s \in Slot, Load(o, s) PROVE SafetyInv'
  BY <1>0, <1>2, ClearingKeeps DEF Load, MarkedLeadToMarked, StillToVisit
<1>3. ASSUME NEW o \in Obj, Drop(o) PROVE SafetyInv'
  BY <1>0, <1>3, ClearingKeeps DEF Drop, MarkedLeadToMarked, StillToVisit
<1>4. ASSUME NEW o \in Obj, Deref(o) PROVE SafetyInv'
  BY <1>0, <1>4, ClearingKeeps DEF Deref, MarkedLeadToMarked, StillToVisit
\* The rest changes the heap: no callback does.
<1>5. ASSUME NEW o \in Obj, Watch(o) PROVE SafetyInv'
  BY <1>0, <1>5, ClearingKeeps DEF Watch, MarkedLeadToMarked, StillToVisit
<1>6. ASSUME NEW o \in Obj, Unregister(o) PROVE SafetyInv'
  BY <1>0, <1>6, ClearingKeeps DEF Unregister, WithoutRecord, MarkedLeadToMarked, StillToVisit
\* The value stored is unbarriered now; nothing was before the store.
<1>7. ASSUME NEW o \in Obj, NEW v \in Obj, Register(o, v) PROVE SafetyInv'
  <2> USE <1>7 DEF Register
  <2>1. HeldIsAllocated' /\ PhasesAreClean'
    OBVIOUS
  <2>2. MarkedLeadToMarked' /\ MarkingKeeps'
    BY ClearingKeeps DEF MarkedLeadToMarked, StillToVisit
  <2>3. QED
    BY <1>0, <2>1, <2>2
<1>8. ASSUME NEW o \in Obj, NEW s \in Slot, NEW v \in Value, HeapObjStore(o, s, v)
      PROVE  SafetyInv'
  <2> USE <1>8 DEF HeapObjStore
  <2>1. HeldIsAllocated' /\ PhasesAreClean'
    OBVIOUS
  <2>2. MarkedLeadToMarked' /\ MarkingKeeps'
    BY ClearingKeeps DEF MarkedLeadToMarked, StillToVisit
  <2>3. QED
    BY <1>0, <2>1, <2>2
\* While marking runs the frame is recorded, so that remark looks at it.
<1>9. ASSUME NEW o \in Obj, NEW s \in Slot, NEW v \in Value, SuspendFrame(o, s, v)
      PROVE  SafetyInv'
  <2> USE <1>9 DEF SuspendFrame, RecordFrame
  <2>1. HeldIsAllocated' /\ PhasesAreClean'
    OBVIOUS
  <2>2. MarkedLeadToMarked' /\ MarkingKeeps'
    BY ClearingKeeps DEF MarkedLeadToMarked, StillToVisit
  <2>3. QED
    BY <1>0, <2>1, <2>2
\* The value whose barrier runs is marked, and on a stack if it was not marked before.
<1>10. ASSUME WriteBarrier PROVE SafetyInv'
  <2> USE <1>10 DEF WriteBarrier, PushBarrierRefs
  <2>1. phase = "mark" /\ unbarriered \in alloc
    OBVIOUS
  <2>2. OnStack' = OnStack \cup (marked' \ marked)
    OBVIOUS
  <2>3. HeldIsAllocated' /\ PhasesAreClean'
    BY <2>1
  <2>4. MarkedLeadToMarked'
    <3>1. marked' \ OnStack' \subseteq marked \ OnStack
      BY <2>2
    <3>2. marked' \cup {Null} = marked \cup {Null, unbarriered}
      OBVIOUS
    <3>3. QED
      BY <2>1, <3>1, <3>2 DEF MarkedLeadToMarked, StillToVisit
  <2>5. MarkingKeeps'
    BY <2>1 DEF RootsAreKept
  <2>6. QED
    BY <1>0, <2>3, <2>4, <2>5
\* What the callback holds, dead objects among it, is given up.
<1>11. ASSUME CallbackReturns PROVE SafetyInv'
  <2> USE <1>11 DEF CallbackReturns
  <2>1. HeldIsAllocated' /\ PhasesAreClean'
    OBVIOUS
  <2>2. MarkedLeadToMarked' /\ MarkingKeeps'
    BY ClearingKeeps DEF MarkedLeadToMarked, StillToVisit
  <2>3. QED
    BY <1>0, <2>1, <2>2
<1>12. QED
  BY <1>1, <1>2, <1>3, <1>4, <1>5, <1>6, <1>7, <1>8, <1>9, <1>10, <1>11 DEF Interpreter

(* So do the workers: an entry leaves a stack only to be visited, and a    *)
(* field is done with only when what it refers to is marked.               *)

LEMMA WorkerSafe ==
  ASSUME SafetyInv, NEW w \in Workers, Worker(w)
  PROVE  SafetyInv'
<1> USE ConMarkAssumption DEF SafetyInv, TypeInv, TypeOK, HeldIsAllocated, PhasesAreClean,
        OnStack, NoneScanning, MarkingKeeps, RootsAreMarked, WatchedIsMarked, SweepSpares,
        OuterRoots, WorkersRun, Value, heap, finalizers, stacks, flags, control
<1>0. TypeInv'
  BY WorkerTyped
<1>1. ASSUME NEW o \in Obj, TakeEntry(w, o) PROVE SafetyInv'
  <2> USE <1>1 DEF TakeEntry
  <2>1. HeldIsAllocated' /\ PhasesAreClean'
    OBVIOUS
  <2>2. \A x \in Obj, s \in Slot : StillToVisit(x, s) => StillToVisit(x, s)'
    BY DEF StillToVisit, IdleWorkersHaveNothingLeft
  <2>3. \A s \in Slot : StillToVisit(o, s)'
    BY DEF StillToVisit
  <2>4. MarkedLeadToMarked'
    BY <2>2, <2>3 DEF MarkedLeadToMarked
  <2>5. MarkingKeeps'
    BY DEF RootsAreKept
  <2>6. QED
    BY <1>0, <2>1, <2>4, <2>5
<1>2. ASSUME NEW s \in Slot, VisitField(w, s) PROVE SafetyInv'
  <2> USE <1>2 DEF VisitField
  <2> DEFINE o == scanning[w].obj
             c == ref[o][s]
  <2>1. o \in alloc /\ s \in scanning[w].left
    BY DEF IdleWorkersHaveNothingLeft
  <2>2. phase \in {"remark", "drain"} \/ (phase = "mark" /\ ~finished)
    BY <2>1
  <2>3. c \in alloc \cup {Null}
    BY <2>1, <2>2
  <2>4. /\ c \in marked' \cup {Null}
        /\ marked \subseteq marked' /\ marked' \subseteq marked \cup {c}
        /\ OnStack' = OnStack \cup (marked' \ marked)
    BY DEF PushBack
  <2>5. HeldIsAllocated'
    BY <2>3, <2>4 DEF PushBack, NoScan
  <2>6. PhasesAreClean'
    BY <2>2, <2>4 DEF PushBack
  <2>7. \A x \in Obj, t \in Slot :
          StillToVisit(x, t) => StillToVisit(x, t)' \/ (x = o /\ t = s)
    BY <2>1 DEF StillToVisit, NoScan
  <2>8. MarkedLeadToMarked'
    BY <2>2, <2>4, <2>7 DEF MarkedLeadToMarked
  <2>9. MarkingKeeps'
    BY <2>2, <2>4 DEF RootsAreKept
  <2>10. QED
    BY <1>0, <2>5, <2>6, <2>8, <2>9
<1>3. QED
  BY <1>1, <1>2 DEF Worker

(* So do the phases of the collector.                                      *)

LEMMA CollectorSafe ==
  ASSUME CallbacksStore = FALSE, SafetyInv, Collector \/ Triggers \/ NotifyMarkFinished
  PROVE  SafetyInv'
<1> USE ConMarkAssumption DEF SafetyInv, TypeInv, TypeOK, HeldIsAllocated, PhasesAreClean,
        OnStack, NoneScanning, MarkingKeeps, RootsAreMarked, WatchedIsMarked, SweepSpares,
        OuterRoots, AtSafepoint, Value, heap, finalizers, stacks, flags, control
<1>0. TypeInv'
  BY CollectorTyped
\* All that is marked as marking starts is on a stack.
<1>1. ASSUME StartConcurrentMark PROVE SafetyInv'
  <2> USE <1>1 DEF StartConcurrentMark, CollectRoots
  <2>1. ScannedRoots \subseteq alloc
    BY DEF ReadsReclaimed, ScannedRoots, Fields
  <2>2. marked' = ScannedRoots /\ gray' = ScannedRoots
    OBVIOUS
  <2>3. HeldIsAllocated' /\ PhasesAreClean'
    BY <2>1, <2>2 DEF ReadsReclaimed
  <2>4. MarkedLeadToMarked' /\ MarkingKeeps'
    BY <2>2 DEF MarkedLeadToMarked, RootsAreKept
  <2>5. QED
    BY <1>0, <2>3, <2>4
<1>2. ASSUME StartConcurrentMarkOnReclaimed PROVE SafetyInv'
  BY <1>0, <1>2 DEF StartConcurrentMarkOnReclaimed, MarkedLeadToMarked, RootsAreKept
<1>3. ASSUME StartParallelMark PROVE SafetyInv'
  <2> USE <1>3 DEF StartParallelMark, CollectRoots
  <2>1. marked' = roots /\ gray' = roots
    OBVIOUS
  <2>2. HeldIsAllocated' /\ PhasesAreClean'
    BY <2>1
  <2>3. MarkedLeadToMarked' /\ MarkingKeeps'
    BY <2>1 DEF MarkedLeadToMarked, RootsAreKept
  <2>4. QED
    BY <1>0, <2>2, <2>3
\* Remark marks what the recorded frames lead to, and has a task for every node.
<1>4. ASSUME StartRemark PROVE SafetyInv'
  <2> USE <1>4 DEF StartRemark, CollectRoots, RemarkRoots
  <2>1. ScannedRoots \subseteq alloc
    BY DEF ScannedRoots, Fields
  <2>2. marked' = marked \cup ScannedRoots /\ OnStack' = OnStack \cup (marked' \ marked)
    OBVIOUS
  <2>3. HeldIsAllocated' /\ PhasesAreClean'
    BY <2>1, <2>2
  <2>4. MarkedLeadToMarked'
    <3>1. marked' \ OnStack' = marked \ OnStack
      BY <2>2
    <3>2. \A o \in async_obj_recoder, s \in Slot : ref[o][s] \in marked' \cup {Null}
      BY <2>2 DEF ScannedRoots, Fields
    <3>3. QED
      BY <2>2, <3>1, <3>2 DEF MarkedLeadToMarked, StillToVisit
  <2>5. MarkingKeeps'
    BY <2>2 DEF ScannedRoots, RootsAreKept
  <2>6. QED
    BY <1>0, <2>3, <2>4, <2>5
\* No stack is left: what is marked is closed under references.
<1>5. ASSUME EndRemark PROVE SafetyInv'
  <2> USE <1>5 DEF EndRemark, AllVisited
  <2>1. OnStack = {} /\ unbarriered = Null
    OBVIOUS
  <2>2. HeldIsAllocated' /\ PhasesAreClean'
    OBVIOUS
  <2>3. MarkedLeadToMarked'
    BY DEF MarkedLeadToMarked, StillToVisit
  <2>4. RootsAreKept'
    <3>1. \A o \in marked : Fields(o) \subseteq marked
      BY <2>1 DEF Fields, MarkedLeadToMarked, StillToVisit
    <3>2. \A o \in marked : Fields(o)' \subseteq marked
      BY <3>1 DEF Fields
    <3>3. OuterRoots' \subseteq marked /\ marked \in SUBSET marked'
      OBVIOUS
    <3>4. QED
      BY ONLY <3>2, <3>3 DEF RootsAreKept
  <2>5. MarkingKeeps'
    BY <2>4
  <2>6. QED
    BY <1>0, <2>2, <2>3, <2>5
\* What a finalizer keeps is marked, and on a stack if it was not marked before.
<1>6. ASSUME NEW o \in Obj, JSObjectFinalizer(o) PROVE SafetyInv'
  <2> USE <1>6 DEF JSObjectFinalizer, PushBarrierRefs
  <2>1. KeptByFinalizer(o) \cup Held(o) \subseteq alloc
    BY DEF KeptByFinalizer, Held
  <2>2. OnStack' = OnStack \cup (marked' \ marked)
    OBVIOUS
  <2>3. \A x \in Obj, s \in Slot : ref'[x][s] \in {ref[x][s], Null}
    BY DEF WithoutRecord
  <2>4. /\ marked' = marked \cup KeptByFinalizer(o)
        /\ OnStack' \subseteq OnStack \cup KeptByFinalizer(o)
        /\ roots' \subseteq roots \cup Held(o) /\ OuterRoots' = OuterRoots
    OBVIOUS
  <2>5. HeldIsAllocated'
    BY <2>1, <2>3, <2>4
  <2>6. PhasesAreClean'
    OBVIOUS
  <2>7. MarkedLeadToMarked'
    <3>1. marked' \ OnStack' \subseteq marked \ OnStack
      BY <2>2
    <3>2. QED
      BY <2>3, <2>4, <3>1 DEF MarkedLeadToMarked, StillToVisit
  <2>8. MarkingKeeps'
    BY <2>3, <2>4, ClearingKeeps
  <2>9. QED
    BY <1>0, <2>5, <2>6, <2>7, <2>8
<1>7. ASSUME NEW o \in Obj, FinalizationRegistryDataFinalizer(o) PROVE SafetyInv'
  <2> USE <1>7 DEF FinalizationRegistryDataFinalizer
  <2>1. \A x \in Obj, s \in Slot : ref'[x][s] \in {ref[x][s], Null}
    BY DEF WithoutRecord
  <2>2. HeldIsAllocated' /\ PhasesAreClean'
    BY <2>1
  <2>3. MarkedLeadToMarked'
    BY <2>1 DEF MarkedLeadToMarked, StillToVisit
  <2>4. MarkingKeeps'
    BY <2>1, ClearingKeeps
  <2>5. QED
    BY <1>0, <2>2, <2>3, <2>4
<1>8. ASSUME DrainFinalizerObjects PROVE SafetyInv'
  BY <1>0, <1>8 DEF DrainFinalizerObjects, MarkedLeadToMarked, StillToVisit, RootsAreKept
\* No stack is left, so that the marked objects are closed under references.
<1>9. ASSUME EndFinalizers PROVE SafetyInv'
  <2> USE <1>9 DEF EndFinalizers, AllVisited, RetainMarked
  <2>1. OnStack = {} /\ unbarriered = Null
    OBVIOUS
  <2>2. \A o \in marked, s \in Slot : ref[o][s] \in marked \cup {Null}
    BY <2>1 DEF MarkedLeadToMarked, StillToVisit
  <2>3. MarkingKeeps'
    BY <2>2 DEF RootsAreKept
  <2>4. HeldIsAllocated' /\ PhasesAreClean' /\ MarkedLeadToMarked'
    BY DEF MarkedLeadToMarked
  <2>5. QED
    BY <1>0, <2>3, <2>4
<1>10. ASSUME NEW o \in Obj, SweepSlot(o) PROVE SafetyInv'
  <2> USE <1>10 DEF SweepSlot, Empty
  <2>1. HeldIsAllocated' /\ PhasesAreClean'
    OBVIOUS
  <2>2. SweepSpares'
    OBVIOUS
  <2>3. MarkedLeadToMarked' /\ MarkingKeeps'
    BY <2>2 DEF MarkedLeadToMarked, RootsAreKept
  <2>4. QED
    BY <1>0, <2>1, <2>3
\* All that is left is marked, so that what it refers to is left, too.
<1>11. ASSUME EndSweep PROVE SafetyInv'
  <2> USE <1>11 DEF EndSweep, AllSwept
  <2>1. alloc = marked
    OBVIOUS
  <2>2. HeldIsAllocated' /\ PhasesAreClean'
    BY <2>1
  <2>3. MarkedLeadToMarked' /\ MarkingKeeps'
    BY DEF MarkedLeadToMarked, RootsAreKept
  <2>4. QED
    BY <1>0, <2>2, <2>3
<1>12. ASSUME FastTerminateConMarkPhase PROVE SafetyInv'
  BY <1>0, <1>12 DEF FastTerminateConMarkPhase, MarkedLeadToMarked, RootsAreKept
<1>13. ASSUME NotifyMarkFinished PROVE SafetyInv'
  BY <1>0, <1>13 DEF NotifyMarkFinished, MarkedLeadToMarked, StillToVisit, RootsAreKept
<1>14. QED
  BY <1>1, <1>2, <1>3, <1>4, <1>5, <1>6, <1>7, <1>8, <1>9, <1>10, <1>11, <1>12, <1>13
     DEF Collector, Triggers

LEMMA SafetyInvIsInductive ==
  ASSUME CallbacksStore = FALSE
  PROVE  Spec => []SafetyInv
<1>1. Init => SafetyInv
  <2> SUFFICES ASSUME Init PROVE SafetyInv
    OBVIOUS
  <2>1. TypeInv
    BY InitIsTyped
  <2>2. HeldIsAllocated /\ PhasesAreClean
    BY DEF Init, HeldIsAllocated, PhasesAreClean, OnStack, NoneScanning, NoScan
  <2>3. MarkedLeadToMarked /\ MarkingKeeps
    BY DEF Init, MarkedLeadToMarked, MarkingKeeps, RootsAreMarked, WatchedIsMarked,
           RootsAreKept, SweepSpares
  <2>4. QED
    BY <2>1, <2>2, <2>3 DEF SafetyInv
<1>2. SafetyInv /\ [Next]_vars => SafetyInv'
  <2> SUFFICES ASSUME SafetyInv, [Next]_vars PROVE SafetyInv'
    OBVIOUS
  <2>1. CASE UNCHANGED vars
    <3> USE <2>1 DEF vars, heap, finalizers, stacks, flags, control, SafetyInv
    <3>1. TypeInv' /\ HeldIsAllocated' /\ PhasesAreClean' /\ MarkedLeadToMarked'
      BY DEF TypeInv, TypeOK, IdleWorkersHaveNothingLeft, HeldIsAllocated, PhasesAreClean,
             NoneScanning, OnStack, MarkedLeadToMarked, StillToVisit
    <3>2. RootsAreKept'
      BY ClearingKeeps DEF MarkingKeeps, OuterRoots
    <3>3. RootsAreMarked' /\ WatchedIsMarked' /\ SweepSpares'
      BY DEF MarkingKeeps, RootsAreMarked, WatchedIsMarked, SweepSpares, OuterRoots
    <3>4. QED
      BY <3>1, <3>2, <3>3 DEF MarkingKeeps
  <2>2. CASE Next
    BY <2>2, InterpreterSafe, WorkerSafe, CollectorSafe DEF Next
  <2>3. QED
    BY <2>1, <2>2
<1>3. QED
  BY <1>1, <1>2, PTL DEF Spec

-----------------------------------------------------------------------------
(* What the runs check on a few objects, for any number of them.           *)

\* Every variable keeps its type, whatever the bounds.
THEOREM TypeCorrect == Spec => []TypeOK
<1>1. TypeInv => TypeOK
  BY DEF TypeInv
<1>2. QED
  BY <1>1, TypeInvIsInductive, PTL

\* What the sweep depends on, with any number of objects and workers and any interleaving
\* of their visits with the interpreter's stores: an object that can be reached is marked.
THEOREM SweepIsSafe ==
  ASSUME CallbacksStore = FALSE
  PROVE  Spec => []ReachableIsMarked
<1>1. SafetyInv => ReachableIsMarked
  <2> SUFFICES ASSUME SafetyInv, phase = "sweep" PROVE Keeps(marked)
    BY DEF ReachableIsMarked
  <2>1. watched \cup roots \subseteq marked
    BY DEF SafetyInv, MarkingKeeps, SweepSpares
  <2>2. \A o \in marked : Fields(o) \subseteq marked
    BY DEF SafetyInv, MarkingKeeps, SweepSpares, Fields
  <2>3. QED
    BY <2>1, <2>2 DEF Keeps, KeepsRoots
<1>2. QED
  BY <1>1, SafetyInvIsInductive, PTL

\* What the interpreter can get at, through a WeakRef too, has not been reclaimed.
THEOREM NothingReachableIsReclaimed ==
  ASSUME CallbacksStore = FALSE
  PROVE  Spec => []ReachableIsAllocated
<1>1. SafetyInv => ReachableIsAllocated
  <2> SUFFICES ASSUME SafetyInv PROVE \E K \in SUBSET alloc : Keeps(K)
    BY DEF ReachableIsAllocated
  <2>1. CASE phase = "sweep"
    <3>1. marked \in SUBSET alloc
      BY DEF SafetyInv, HeldIsAllocated
    <3>2. Keeps(marked)
      BY <2>1 DEF SafetyInv, MarkingKeeps, SweepSpares, Keeps, KeepsRoots, Fields
    <3>3. QED
      BY <3>1, <3>2
  <2>2. CASE phase # "sweep"
    <3>1. Keeps(alloc)
      BY <2>2 DEF SafetyInv, HeldIsAllocated, Keeps, KeepsRoots, Fields
    <3>2. QED
      BY <3>1
  <2>3. QED
    BY <2>1, <2>2
<1>2. QED
  BY <1>1, SafetyInvIsInductive, PTL

\* No worker visits an object that was reclaimed; the entries that an abandoned marking left
\* in the nodes are allocated when they are visited.
THEOREM NoWorkerVisitsReclaimed ==
  ASSUME CallbacksStore = FALSE
  PROVE  Spec => []MarkStackIsAllocated
<1>1. SafetyInv => MarkStackIsAllocated
  BY DEF SafetyInv, HeldIsAllocated, OnStack, MarkStackIsAllocated
<1>2. QED
  BY <1>1, SafetyInvIsInductive, PTL

\* No finalizer is run, and no callback of a weak reference made, on what was reclaimed.
THEOREM NoFinalizerOfReclaimed ==
  ASSUME CallbacksStore = FALSE
  PROVE  Spec => []FinalizersAreAllocated
<1>1. SafetyInv => FinalizersAreAllocated
  BY DEF SafetyInv, HeldIsAllocated, FinalizersAreAllocated
<1>2. QED
  BY <1>1, SafetyInvIsInductive, PTL

-----------------------------------------------------------------------------
(* The refinement of Heap.                                                 *)

\* A set that keeps what the roots lead to keeps o out: o can be announced or freed.
LEMMA KeptOutIsUnreachable ==
  ASSUME TypeInv, NEW K \in SUBSET Obj, KeepsRoots(K), NEW o \in Obj \ K
  PROVE  Promise!Unreachable(o)
<1>1. Promise!Keeps(K)
  BY DEF Promise!Keeps, KeepsRoots, Fields, TypeInv, TypeOK, Value
<1>2. QED
  BY <1>1 DEF Promise!Unreachable

LEMMA InterpreterImplementsHeap ==
  ASSUME CallbacksStore = FALSE, SafetyInv, Interpreter
  PROVE  [Promise!Next]_(Promise!vars)
<1> USE DEF heap, Promise!vars
<1>1. ASSUME NEW o \in Obj, Alloc(o) PROVE Promise!Alloc(o)
  BY <1>1 DEF Alloc, Empty, Promise!Alloc, Promise!Empty
<1>2. ASSUME NEW o \in Obj, NEW s \in Slot, Load(o, s) PROVE Promise!Load(o, s)
  BY <1>2 DEF Load, Promise!Load
<1>3. ASSUME NEW o \in Obj, Drop(o) PROVE Promise!Drop
  BY <1>3 DEF Drop, Promise!Drop
<1>4. ASSUME NEW o \in Obj, Deref(o) PROVE Promise!Deref(o)
  BY <1>4 DEF Deref, Promise!Deref
<1>5. ASSUME NEW o \in Obj, Watch(o) PROVE Promise!Watch(o)
  BY <1>5 DEF Watch, Promise!Watch
<1>6. ASSUME NEW o \in Obj, Unregister(o) PROVE Promise!Forget(o)
  BY <1>6 DEF Unregister, WithoutRecord, Promise!Forget, Promise!WithoutRecord
<1>7. ASSUME NEW o \in Obj, NEW v \in Obj, Register(o, v)
      PROVE  Record \in Slot /\ Promise!Store(o, Record, v)
  BY <1>7 DEF Register, Promise!Store
<1>8. ASSUME NEW o \in Obj, NEW s \in Slot, NEW v \in Value,
             HeapObjStore(o, s, v) \/ SuspendFrame(o, s, v)
      PROVE  Promise!Store(o, s, v)
  BY <1>8 DEF HeapObjStore, SuspendFrame, Promise!Store
<1>9. ASSUME WriteBarrier PROVE UNCHANGED Promise!vars
  BY <1>9 DEF WriteBarrier
\* The interpreter gives up what the callback held.
<1>10. ASSUME CallbackReturns PROVE Promise!Drop
  BY <1>10 DEF CallbackReturns, Promise!Drop, SafetyInv, PhasesAreClean
<1>11. QED
  BY <1>1, <1>2, <1>3, <1>4, <1>5, <1>6, <1>7, <1>8, <1>9, <1>10
     DEF Interpreter, Value, Promise!Next

LEMMA CollectorImplementsHeap ==
  ASSUME CallbacksStore = FALSE, SafetyInv, Collector \/ Triggers \/ NotifyMarkFinished
  PROVE  [Promise!Next]_(Promise!vars)
<1> USE DEF heap, Promise!vars
\* What was reachable as the finalizers began is marked; a dead object is not.
<1>1. ASSUME NEW o \in Obj, JSObjectFinalizer(o) PROVE Promise!Announce(o)
  <2>1. PICK K \in SUBSET marked : KeepsRoots(K)
    BY <1>1 DEF JSObjectFinalizer, AtSafepoint, SafetyInv, MarkingKeeps, RootsAreKept,
                OuterRoots, KeepsRoots
  <2>2. o \in Obj \ K
    BY <1>1, <2>1 DEF JSObjectFinalizer, IsDead
  <2>3. Promise!Unreachable(o)
    BY <2>1, <2>2, KeptOutIsUnreachable DEF SafetyInv, TypeInv, TypeOK
  <2>4. roots' = roots \cup Promise!Held(o)
    BY <1>1 DEF JSObjectFinalizer, Held, Promise!Held
  <2>5. QED
    BY <1>1, <2>3, <2>4
       DEF JSObjectFinalizer, WithoutRecord, Promise!Announce, Promise!WithoutRecord
\* Nothing marked leads to what the sweep reclaims.
<1>2. ASSUME NEW o \in Obj, SweepSlot(o) PROVE Promise!Free(o)
  <2>1. KeepsRoots(marked) /\ watched \subseteq marked /\ o \in Obj \ marked
    BY <1>2 DEF SweepSlot, SafetyInv, MarkingKeeps, SweepSpares, KeepsRoots, Fields
  <2>2. Promise!Unreachable(o)
    BY <2>1, KeptOutIsUnreachable DEF SafetyInv, TypeInv, TypeOK
  <2>3. QED
    BY <1>2, <2>1, <2>2 DEF SweepSlot, Empty, Promise!Free, Promise!Empty
<1>3. ASSUME NEW o \in Obj, FinalizationRegistryDataFinalizer(o) PROVE Promise!Forget(o)
  BY <1>3 DEF FinalizationRegistryDataFinalizer, WithoutRecord, Promise!Forget,
              Promise!WithoutRecord
<1>4. ASSUME \/ StartConcurrentMark \/ StartConcurrentMarkOnReclaimed \/ StartParallelMark
             \/ StartRemark \/ EndRemark \/ DrainFinalizerObjects \/ EndFinalizers
             \/ EndSweep \/ FastTerminateConMarkPhase \/ NotifyMarkFinished
      PROVE  UNCHANGED Promise!vars
  BY <1>4 DEF StartConcurrentMark, StartConcurrentMarkOnReclaimed,
              StartParallelMark, StartRemark, EndRemark, DrainFinalizerObjects,
              EndFinalizers, EndSweep, FastTerminateConMarkPhase, NotifyMarkFinished
<1>5. QED
  BY <1>1, <1>2, <1>3, <1>4 DEF Collector, Triggers, Promise!Next

\* The collector keeps the promise: an object is reclaimed, or its death announced, only
\* when nothing that the interpreter can follow leads to it.
THEOREM ConMarkImplementsHeap ==
  ASSUME CallbacksStore = FALSE
  PROVE  Spec => ImplementsHeap
<1>1. Init => Promise!Init
  BY DEF Init, Empty, Promise!Init, Promise!Empty
<1>2. SafetyInv /\ [Next]_vars => [Promise!Next]_(Promise!vars)
  <2> SUFFICES ASSUME SafetyInv, [Next]_vars PROVE [Promise!Next]_(Promise!vars)
    OBVIOUS
  <2>1. CASE UNCHANGED vars
    BY <2>1 DEF vars, heap, Promise!vars
  <2>2. ASSUME NEW w \in Workers, Worker(w) PROVE UNCHANGED Promise!vars
    BY <2>2 DEF Worker, TakeEntry, VisitField, heap, Promise!vars
  <2>3. CASE Next
    BY <2>2, <2>3, InterpreterImplementsHeap, CollectorImplementsHeap DEF Next
  <2>4. QED
    BY <2>1, <2>3
<1>3. QED
  BY <1>1, <1>2, SafetyInvIsInductive, PTL DEF Spec, ImplementsHeap, Promise!Spec
=============================================================================
