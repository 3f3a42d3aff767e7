------------------------------ MODULE ConMark ------------------------------
(***************************************************************************)
(* A collection, concurrent or parallel, as MarkSweepCollector             *)
(* (src/src/gc/collector_ms.cc) runs it: marking by the worker threads     *)
(* while the interpreter keeps storing behind its write barrier, the final *)
(* remark, the finalizers, the sweep.                                      *)
(*                                                                         *)
(* The thread of the interpreter is the one that starts every phase; it    *)
(* stands still in "remark", "final" and "drain" and in the whole of a     *)
(* parallel collection.  That a phase which waits for the workers finds    *)
(* their work done is what ThreadPool.tla shows of WaitFinish.             *)
(* A suspended generator or async function keeps its frame in the heap, in *)
(* an object of Frame; the interpreter writes it with no barrier.          *)
(***************************************************************************)
EXTENDS Naturals, FiniteSets

CONSTANTS
  Obj,            \* the places of the heap an object can be allocated at
  Slot,           \* the fields of an object
  Null,           \* the value of a field that refers to no object
  Workers,        \* the threads that mark, the client of the pool among them
  Frame,          \* the objects that hold the frame of a suspended function
  Host,           \* the objects whose class has a finalizer of the embedder
  Native,         \* the objects whose class has a finalizer of the runtime
  Targets,        \* bound: the objects the program makes weak references to
  Record,         \* the field for what the object's FinalizationRegistry entry holds
  NodeSize,       \* the entries of a node of the mark stack
  CallbacksStore, \* whether the callbacks of FinalizationRegistry change the heap
  BusyMode        \* whether the pause suppression mode may be entered

ASSUME ConMarkAssumption ==
  /\ Null \notin Obj /\ Frame \subseteq Obj /\ Host \subseteq Obj
  /\ Native \subseteq Obj /\ Targets \subseteq Obj
  /\ NodeSize \in Nat \ {0}
  /\ CallbacksStore \in BOOLEAN /\ BusyMode \in BOOLEAN

VARIABLES
  alloc, ref, roots, watched,   \* as in Heap; watched is obj_finalizer_recoder
  finalizerSet,         \* the objects with a native finalizer
  async_obj_recoder,    \* the frames suspended while marking
  marked,               \* the mark bitmap
  gray,                 \* entries on the workers' stacks or in nodes with a task
  retired,              \* entries of full barrier nodes: no task will take them
  node,                 \* entries of the barrier node that is being filled
  scanning,             \* the object each worker visits and the fields left
  finished,             \* conMarkFinished: notify_func was called
  con_mark_state, should_mark_new_obj,
  unbarriered,          \* the value stored whose barrier has not run yet
  phase, concurrent,    \* where the collection is, and of which kind it is
  calling, caller       \* a finalizer calls back the interpreter; its roots before

heap == <<alloc, ref, roots, watched>>
finalizers == <<finalizerSet, async_obj_recoder>>
stacks == <<gray, retired, node, scanning>>
flags == <<con_mark_state, should_mark_new_obj>>
control == <<finished, phase, concurrent, calling, caller>>
vars == <<heap, finalizers, marked, stacks, flags, unbarriered, control>>

Value == Obj \cup {Null}
Empty == [s \in Slot |-> Null]
NoScan == [obj |-> Null, left |-> {}]
Fields(o) == {ref[o][s] : s \in Slot} \ {Null}

\* The held value of the entry that o is registered with, if it is.
Held(o) == {ref[o][s] : s \in Slot \cap {Record}} \ {Null}

TypeOK ==
  /\ alloc \subseteq Obj /\ roots \subseteq Obj /\ watched \subseteq Obj
  /\ ref \in [Obj -> [Slot -> Value]]
  /\ finalizerSet \subseteq Obj /\ async_obj_recoder \subseteq Frame
  /\ marked \subseteq Obj /\ gray \subseteq Obj /\ retired \subseteq Obj /\ node \subseteq Obj
  /\ scanning \in [Workers -> [obj : Value, left : SUBSET Slot]]
  /\ finished \in BOOLEAN /\ con_mark_state \in BOOLEAN /\ should_mark_new_obj \in BOOLEAN
  /\ unbarriered \in Value
  /\ phase \in {"idle", "mark", "remark", "final", "drain", "sweep", "undefined"}
  /\ concurrent \in BOOLEAN
  /\ calling \in BOOLEAN /\ caller \subseteq Obj

Init ==
  /\ alloc = {} /\ roots = {} /\ watched = {} /\ ref = [o \in Obj |-> Empty]
  /\ finalizerSet = {} /\ async_obj_recoder = {}
  /\ marked = {} /\ gray = {} /\ retired = {} /\ node = {}
  /\ scanning = [w \in Workers |-> NoScan]
  /\ con_mark_state = FALSE /\ should_mark_new_obj = FALSE
  /\ unbarriered = Null
  /\ finished = FALSE /\ phase = "idle" /\ concurrent = FALSE
  /\ calling = FALSE /\ caller = {}

-----------------------------------------------------------------------------
(* The interpreter: its own program between the phases, or a callback that *)
(* a finalizer makes.                                                      *)

InterpreterRuns ==
  /\ unbarriered = Null
  /\ \/ phase \in {"idle", "mark"}
     \/ phase = "sweep" /\ concurrent
     \/ calling

MayStore == InterpreterRuns /\ (calling => CallbacksStore)

\* Mutant: the new object stays unmarked.
NewUnmarked(o) == marked

\* NewObjInternal: the new object is marked from the finalizer phase on.
MarkNew(o) == IF should_mark_new_obj THEN marked \cup {o} ELSE marked

\* AllocateObj.  Every object comes up empty; a host object is watched from the start
\* (quickjs_gc.cc:3050), and SetRunSlotHasFinalizer follows for a class with a finalizer.
Alloc(o) ==
  /\ InterpreterRuns /\ o \notin alloc
  /\ alloc' = alloc \cup {o}
  /\ ref' = [ref EXCEPT ![o] = Empty]
  /\ roots' = roots \cup {o}
  /\ watched' = watched \cup ({o} \cap Host)
  /\ finalizerSet' = finalizerSet \cup ({o} \cap Native)
  /\ marked' = MarkNew(o)
  /\ UNCHANGED <<async_obj_recoder, stacks, flags, unbarriered, control>>

\* The interpreter reads a field, drops a value, calls WeakRef.deref.
Load(o, s) ==
  /\ InterpreterRuns /\ o \in roots /\ s # Record /\ ref[o][s] # Null
  /\ roots' = roots \cup {ref[o][s]}
  /\ UNCHANGED <<alloc, ref, watched, finalizers, marked, stacks, flags, unbarriered, control>>

Drop(o) ==
  /\ InterpreterRuns /\ o \in roots \ caller
  /\ roots' = roots \ {o}
  /\ UNCHANGED <<alloc, ref, watched, finalizers, marked, stacks, flags, unbarriered, control>>

Deref(o) ==
  /\ InterpreterRuns /\ o \in watched
  /\ roots' = roots \cup {o}
  /\ UNCHANGED <<alloc, ref, watched, finalizers, marked, stacks, flags, unbarriered, control>>

\* insert_weakref_record: o is the target of a new WeakRef or WeakMap entry.
Watch(o) ==
  /\ MayStore /\ o \in roots \cap Targets
  /\ watched' = watched \cup {o}
  /\ UNCHANGED <<alloc, ref, roots, finalizers, marked, stacks, flags, unbarriered, control>>

\* HeapObjStore stores first; the barrier is a step of its own, if marking runs.
HeapObjStore(o, s, v) ==
  /\ MayStore /\ o \in roots \ Frame /\ v \in roots \cup {Null}
  /\ s # Record
  /\ ref' = [ref EXCEPT ![o][s] = v]
  /\ unbarriered' = IF con_mark_state THEN v ELSE Null
  /\ UNCHANGED <<alloc, roots, watched, finalizers, marked, stacks, flags, control>>

\* FinalizationRegistry.register: o is watched, and its record leads to the held value.
Register(o, v) ==
  /\ MayStore /\ o \in (roots \cap Targets) \ Frame /\ v \in roots \ {o}
  /\ Record \in Slot /\ ref[o][Record] = Null
  /\ ref' = [ref EXCEPT ![o][Record] = v]
  /\ watched' = watched \cup {o}
  /\ unbarriered' = IF con_mark_state THEN v ELSE Null
  /\ UNCHANGED <<alloc, roots, finalizers, marked, stacks, flags, control>>

\* FinalizationRegistry.unregister.
WithoutRecord(o) == [ref EXCEPT ![o] = [s \in Slot |-> IF s = Record THEN Null ELSE @[s]]]

Unregister(o) ==
  /\ MayStore /\ Held(o) # {}
  /\ ref' = WithoutRecord(o)
  /\ UNCHANGED <<alloc, roots, watched, finalizers, marked, stacks, flags, unbarriered,
                 control>>

\* CombinedWriteBarrier: what was not marked yet goes to the barrier node; a full
\* node is retired first, and no task is posted for it.
PushBarrierRefs(S) ==
  /\ marked' = marked \cup S
  /\ LET new == S \ marked IN
     IF Cardinality(node \cup new) > NodeSize
       THEN node' = new /\ retired' = retired \cup node
       ELSE node' = node \cup new /\ UNCHANGED retired

WriteBarrier ==
  /\ unbarriered # Null
  /\ PushBarrierRefs({unbarriered})
  /\ unbarriered' = Null
  /\ UNCHANGED <<heap, finalizers, gray, scanning, flags, control>>

\* Mutant: the frame is not recorded.
RecordNothing(o) == async_obj_recoder

\* The frame is recorded when it is suspended while marking.
RecordFrame(o) ==
  IF con_mark_state THEN async_obj_recoder \cup {o} ELSE async_obj_recoder

\* async_func_resume: the function ran with its frame on the stack and is suspended
\* again; what it left in the frame was stored with no barrier.
SuspendFrame(o, s, v) ==
  /\ MayStore /\ o \in roots \cap Frame /\ v \in roots \cup {Null}
  /\ s # Record
  /\ ref' = [ref EXCEPT ![o][s] = v]
  /\ async_obj_recoder' = RecordFrame(o)
  /\ UNCHANGED <<alloc, roots, watched, finalizerSet, marked, stacks, flags, unbarriered,
                 control>>

-----------------------------------------------------------------------------
(* The workers.                                                            *)

WorkersRun == phase \in {"remark", "drain"} \/ (phase = "mark" /\ ~finished)
NoneScanning == \A w \in Workers : scanning[w].obj = Null

\* GCMarking::Execute pops the next entry, of its own nodes or of a retired one.
TakeEntry(w, o) ==
  /\ WorkersRun /\ scanning[w].obj = Null
  /\ o \in gray \cup retired
  /\ gray' = gray \ {o} /\ retired' = retired \ {o}
  /\ scanning' = [scanning EXCEPT ![w] = [obj |-> o, left |-> Slot]]
  /\ UNCHANGED <<heap, finalizers, marked, node, flags, unbarriered, control>>

\* Mutants: the object is on the mark stack but not marked; null is not looked for.
PushUnmarked(c) ==
  gray' = gray \cup ({c} \ ({Null} \cup marked)) /\ UNCHANGED marked
PushNull(c) ==
  IF c \in marked THEN UNCHANGED <<gray, marked>>
  ELSE gray' = gray \cup {c} /\ marked' = marked \cup {c}

\* GCWorkStack::push_back
PushBack(c) ==
  IF c = Null \/ c \in marked THEN UNCHANGED <<gray, marked>>
  ELSE gray' = gray \cup {c} /\ marked' = marked \cup {c}

\* VisitEntry reads one field of the object after the other.
VisitField(w, s) ==
  /\ s \in scanning[w].left
  /\ PushBack(ref[scanning[w].obj][s])
  /\ LET left == scanning[w].left \ {s} IN
     scanning' = [scanning EXCEPT ![w] =
                    IF left = {} THEN NoScan ELSE [obj |-> scanning[w].obj, left |-> left]]
  /\ UNCHANGED <<heap, finalizers, retired, node, flags, unbarriered, control>>

\* Every thread waits for a task: notify_func sets conMarkFinished.  Nodes that the
\* barrier retired since the list was last found empty stay there.
NotifyMarkFinished ==
  /\ phase = "mark" /\ ~finished /\ gray = {} /\ NoneScanning
  /\ finished' = TRUE
  /\ UNCHANGED <<heap, finalizers, marked, stacks, flags, unbarriered, phase, concurrent,
                 calling, caller>>

-----------------------------------------------------------------------------
(* The phases, all of them entered on the thread of the interpreter.       *)

AtSafepoint(p) == phase = p /\ unbarriered = Null /\ ~calling

\* Mutant: the suspended frames are left out.
ScanStacksOnly == roots

\* ParallelCollectRoots: the stack, handles, contexts, the runtime, the recorded frames.
ScannedRoots == roots \cup UNION {Fields(o) : o \in async_obj_recoder}

ReadsReclaimed == ~(async_obj_recoder \subseteq alloc)

CollectRoots(R) ==
  /\ marked' = marked \cup R
  /\ gray' = gray \cup (R \ marked)

\* ConcurrentMarkPhase
StartConcurrentMark ==
  /\ AtSafepoint("idle") /\ ~ReadsReclaimed
  /\ CollectRoots(ScannedRoots)
  /\ con_mark_state' = TRUE
  /\ phase' = "mark" /\ concurrent' = TRUE /\ finished' = FALSE
  /\ UNCHANGED <<heap, finalizers, retired, node, scanning, should_mark_new_obj, unbarriered,
                 calling, caller>>

\* Reading a recorded frame that was reclaimed is undefined behaviour.
StartConcurrentMarkOnReclaimed ==
  /\ (AtSafepoint("idle") /\ ReadsReclaimed) \/ phase = "undefined"
  /\ phase' = "undefined"
  /\ UNCHANGED <<heap, finalizers, marked, stacks, flags, unbarriered, finished, concurrent,
                 calling, caller>>

\* ParallelMarkPhase: neither the recorded frames nor the weak handles are roots.
StartParallelMark ==
  /\ AtSafepoint("idle")
  /\ CollectRoots(roots)
  /\ phase' = "remark" /\ concurrent' = FALSE
  /\ UNCHANGED <<heap, finalizers, retired, node, scanning, flags, unbarriered, finished,
                 calling, caller>>

RemarkRoots == ScannedRoots

\* TryEnsureConcurrentMarkIsFinished: PostFinalRemarkTask retires the barrier node,
\* posts a task for it and scans the roots again.
StartRemark ==
  /\ AtSafepoint("mark")
  /\ CollectRoots(RemarkRoots)
  /\ node' = {} /\ retired' = retired \cup node
  /\ phase' = "remark" /\ finished' = FALSE
  /\ UNCHANGED <<heap, finalizers, scanning, flags, unbarriered, concurrent, calling, caller>>

\* Mutant: the retired nodes are nobody's.
OwnNodesOnly == gray = {} /\ NoneScanning

\* What WaitFinish waits for.
AllVisited == gray = {} /\ retired = {} /\ NoneScanning

\* WaitFinish returns; ConMarkEpilogue, FinalizerPrologue.
EndRemark ==
  /\ AtSafepoint("remark") /\ AllVisited
  /\ con_mark_state' = FALSE /\ should_mark_new_obj' = TRUE
  /\ phase' = "final"
  /\ UNCHANGED <<heap, finalizers, marked, stacks, unbarriered, finished, concurrent,
                 calling, caller>>

\* AddObjectDuringFinalizer: the held value of a FinalizationRegistry, and the object
\* itself when a finalizer of the embedder is going to see it.
KeptByFinalizer(o) == Held(o) \cup ({o} \cap Host)

IsDead(o) == o \notin marked

\* DoOuterObjFinalizer, JSObjectFinalizer: the WeakRefs of a dead object are reset, the
\* embedder's finalizer is called, and the callback with the held value.
JSObjectFinalizer(o) ==
  /\ AtSafepoint("final") /\ o \in watched /\ IsDead(o)
  /\ watched' = watched \ {o}
  /\ ref' = WithoutRecord(o)
  /\ PushBarrierRefs(KeptByFinalizer(o))
  /\ IF Held(o) # {}
       THEN calling' = TRUE /\ caller' = roots /\ roots' = roots \cup Held(o)
       ELSE UNCHANGED <<roots, calling, caller>>
  /\ UNCHANGED <<alloc, finalizers, gray, scanning, flags, unbarriered, finished, phase,
                 concurrent>>

\* A registry may be dead too: its entries are taken off the targets that are left.
\* (The registry itself is not modelled; any object may be it.)
FinalizationRegistryDataFinalizer(o) ==
  /\ AtSafepoint("final") /\ watched \subseteq marked /\ Held(o) # {}
  /\ ref' = WithoutRecord(o)
  /\ UNCHANGED <<alloc, roots, watched, finalizers, marked, stacks, flags, unbarriered,
                 control>>

CallbackReturns ==
  /\ calling /\ unbarriered = Null
  /\ calling' = FALSE /\ roots' = caller /\ caller' = {}
  /\ UNCHANGED <<alloc, ref, watched, finalizers, marked, stacks, flags, unbarriered, finished,
                 phase, concurrent>>

\* Mutant: what the finalizers keep is not visited.
SkipDrain ==
  /\ AtSafepoint("final") /\ watched \subseteq marked
  /\ phase' = "drain" /\ node' = {}
  /\ UNCHANGED <<heap, finalizers, marked, gray, retired, scanning, flags, unbarriered,
                 finished, concurrent, calling, caller>>

\* HasObjsDuringFinalizer: the barrier node is retired and visited.
DrainFinalizerObjects ==
  /\ AtSafepoint("final") /\ watched \subseteq marked
  /\ phase' = "drain"
  /\ node' = {} /\ retired' = retired \cup node
  /\ UNCHANGED <<heap, finalizers, marked, gray, scanning, flags, unbarriered, finished,
                 concurrent, calling, caller>>

\* Mutant: the finalizer set keeps the dead.
RetainAll == finalizerSet

\* finalizerSet->RetainIf: a dead object is finalized and leaves the set.  (That what an
\* embedder's reference leads to is visited once more, with a wait, is left out.)
RetainMarked == finalizerSet \cap marked

\* The rest of DoFinalizerPhase and FinalizerEpilogue; then the sweep begins.
EndFinalizers ==
  /\ AtSafepoint("drain") /\ AllVisited
  /\ finalizerSet' = RetainMarked
  /\ async_obj_recoder' = IF concurrent THEN {} ELSE async_obj_recoder
  /\ should_mark_new_obj' = concurrent
  /\ phase' = "sweep"
  /\ UNCHANGED <<heap, marked, stacks, con_mark_state, unbarriered, finished, concurrent,
                 calling, caller>>

\* SweepSlot: an object that is not marked is reclaimed.
SweepSlot(o) ==
  /\ phase = "sweep" /\ o \in alloc \ marked
  /\ alloc' = alloc \ {o}
  /\ ref' = [ref EXCEPT ![o] = Empty]
  /\ UNCHANGED <<roots, watched, finalizers, marked, stacks, flags, unbarriered, control>>

AllSwept == alloc \subseteq marked

\* EnsureConcurrentSweepIsFinished, or the end of RunFullCollection.
EndSweep ==
  /\ AtSafepoint("sweep") /\ AllSwept
  /\ marked' = {}
  /\ should_mark_new_obj' = FALSE
  /\ phase' = "idle"
  /\ UNCHANGED <<heap, finalizers, stacks, con_mark_state, unbarriered, finished, concurrent,
                 calling, caller>>

\* FastTerminateConMarkPhase, when the pause suppression mode is on and the workers
\* are done.  The retired nodes go only if the page list has grown too large.
FastTerminateConMarkPhase ==
  /\ BusyMode /\ AtSafepoint("mark") /\ finished
  /\ marked' = {} /\ node' = {}
  /\ retired' \in {retired, {}}
  /\ con_mark_state' = FALSE
  /\ phase' = "idle" /\ finished' = FALSE
  /\ UNCHANGED <<heap, finalizers, gray, scanning, should_mark_new_obj, unbarriered,
                 concurrent, calling, caller>>

-----------------------------------------------------------------------------
Interpreter ==
  \/ \E o \in Obj :
       \/ Alloc(o) \/ Drop(o) \/ Deref(o) \/ Watch(o) \/ Unregister(o)
       \/ \E v \in Obj : Register(o, v)
       \/ \E s \in Slot :
            \/ Load(o, s)
            \/ \E v \in Value : HeapObjStore(o, s, v) \/ SuspendFrame(o, s, v)
  \/ WriteBarrier
  \/ CallbackReturns

Worker(w) ==
  \/ \E o \in Obj : TakeEntry(w, o)
  \/ \E s \in Slot : VisitField(w, s)

\* The collector, once it waits or works: nothing else has to happen first.
Collector ==
  \/ EndRemark \/ DrainFinalizerObjects \/ EndFinalizers
  \/ \E o \in Obj : JSObjectFinalizer(o) \/ SweepSlot(o)

Triggers ==
  \/ StartConcurrentMark \/ StartConcurrentMarkOnReclaimed \/ StartParallelMark
  \/ StartRemark \/ EndSweep
  \/ \E o \in Obj : FinalizationRegistryDataFinalizer(o)
  \/ FastTerminateConMarkPhase

Next ==
  \/ Interpreter \/ Collector \/ Triggers \/ NotifyMarkFinished
  \/ \E w \in Workers : Worker(w)

\* The workers go on while there is a task; the interpreter's thread goes on inside a
\* phase, and in a callback.
Fairness ==
  /\ WF_vars(\E w \in Workers : Worker(w))
  /\ WF_vars(Collector)
  /\ WF_vars(CallbackReturns)

Spec == Init /\ [][Next]_vars /\ Fairness

-----------------------------------------------------------------------------
(* Properties.                                                             *)

\* K holds the roots and whatever a member of K refers to.
KeepsRoots(K) == roots \subseteq K /\ \A o \in K : Fields(o) \subseteq K

\* And the objects that a WeakRef leads to.
Keeps(K) == watched \subseteq K /\ KeepsRoots(K)

\* Nothing the interpreter can get at has been reclaimed.
ReachableIsAllocated == \E K \in SUBSET alloc : Keeps(K)

\* Every object on a worker's stack, in a node or being visited is allocated, those in
\* nodes that an abandoned marking left behind included: no worker visits freed memory.
MarkStackIsAllocated ==
  gray \cup retired \cup node \cup ({scanning[w].obj : w \in Workers} \ {Null}) \subseteq alloc

\* The set and the recorders that the finalizer phase goes through hold no freed object.
FinalizersAreAllocated == finalizerSet \cup watched \subseteq alloc

\* What the sweep depends on: an object that can be reached is marked.
ReachableIsMarked == phase = "sweep" => \E K \in SUBSET marked : Keeps(K)

\* The wait for the workers in remark and for the objects kept by finalizers ends, and
\* so does the sweep.
CollectionReachesSweep == phase \in {"remark", "final", "drain"} ~> phase = "sweep"
SweepEnds == phase = "sweep" ~> AllSwept

\* The collector keeps the promise of Heap.tla.
Promise == INSTANCE Heap
ImplementsHeap == Promise!Spec

\* CheckConMark goes through all that the roots lead to as the finalizer phase ends, and
\* CheckGCWorkStack::push_back says of each object: "1. shoule be marked".
CheckConMark == phase = "sweep" => \E K \in SUBSET marked : KeepsRoots(K)

\* The frames it walks are among them: "2. should not be collected".
RecordedFramesAreAllocated == async_obj_recoder \subseteq alloc
=============================================================================
