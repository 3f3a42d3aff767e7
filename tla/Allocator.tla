----------------------------- MODULE Allocator -----------------------------
(***************************************************************************)
(* The allocator of the collected heap and its sweep, RosAllocImpl         *)
(* (src/src/gc/ros_allocator.cc): runs of slots of one size class, large   *)
(* objects of several pages, and the workers that sweep both while the     *)
(* mutator goes on allocating.                                             *)
(*                                                                         *)
(* A page is a set of cells; a slot is some of the cells of a page, a      *)
(* large object all those of neighbouring pages.  globalLock guards single *)
(* steps here; the lock of a class is held over several.  What the mutator *)
(* does to its local run and its local free list is one step with the      *)
(* allocation; a step ends where it takes pages, before it labels them.    *)
(* Which objects a collection marks is any choice: ConMark.tla is about    *)
(* that.  While should_mark_new_obj is set new objects are marked.         *)
(***************************************************************************)
EXTENDS RunList

CONSTANTS
  LastPage,    \* bound: the pages of the heap are 1..LastPage
  Cell,        \* the cells of a page
  SlotsIn,     \* for each size class, the cells of the slots of its runs
  LargeSizes,  \* bound: how many pages a large object may have
  Workers

Class == DOMAIN SlotsIn

ASSUME AllocatorAssumption ==
  /\ LastPage \in Nat /\ Page = 1..LastPage /\ LargeSizes \subseteq 1..LastPage
  /\ Cell # {} /\ \A c \in Class : UNION SlotsIn[c] = Cell /\ {} \notin SlotsIn[c]
  /\ \A c \in Class : \A s, t \in SlotsIn[c] : s = t \/ s \cap t = {}
  /\ None \notin Class \cup Workers /\ {"large", "large rem", "nothing"} \cap Class = {}

Slots(c, p) == {{p} \X s : s \in SlotsIn[c]}
PagesFrom(p, n) == {q \in Page : p <= q /\ q < p + n}
Large(p, n) == PagesFrom(p, n) \X Cell
LargeAt(p) == {Large(p, n) : n \in {k \in LargeSizes : p + k <= LastPage + 1}}
Object ==
  (UNION {Slots(c, p) : c \in Class, p \in Page}) \cup (UNION {LargeAt(p) : p \in Page})

VARIABLES
  label,       \* PageMap::map: what each page holds
  snapshot,    \* PageMap::mapSnapShot, or None when there is none
  freePages,   \* the pages in the tree of free regions
  mIdx,        \* the size class of the run that a page holds, or None
  freeList,    \* the free slots of each run, without those the mutator has
  localRuns,   \* the run of each class that the mutator allocates from, or None
  freeLists,   \* the free slots the mutator has, for each class
  nonFullRuns, \* the ThreeTierList of each class
  allocated,   \* the objects whose header has the allocated bit
  marked,      \* the mark bitmap
  phase,       \* "run", "final" (finalizers), "concurrent" or "parallel" (sweep)
  taken,       \* the pages the mutator has taken and not yet labelled
  pending,     \* the pages of the sweep that no worker has looked at
  at,          \* where each worker is in the sweep of a page
  runLocks     \* the worker that holds the lock of each class, or None

heap == <<label, snapshot, freePages>>
runs == <<mIdx, freeList, localRuns, freeLists, nonFullRuns>>
objects == <<allocated, marked>>
sweep == <<phase, pending, at, runLocks>>
vars == <<heap, runs, objects, taken, sweep>>

Label == {"free", "run", "large", "large rem", "swept"}
NoPages == [for |-> "nothing", page |-> None, count |-> 0]
Idle == [pc |-> "idle", page |-> None, wasFull |-> FALSE, locked |-> None, cleared |-> 0]

IsFull(p) == freeList[p] = {}
IsEmpty(p) == freeList[p] = Slots(mIdx[p], p)
IsLocal(p) == \E c \in Class : localRuns[c] = p

Init ==
  /\ label = [p \in Page |-> "free"] /\ snapshot = None /\ freePages = Page
  /\ mIdx = [p \in Page |-> None]
  /\ freeList = [p \in Page |-> {}]
  /\ localRuns = [c \in Class |-> None] /\ freeLists = [c \in Class |-> {}]
  /\ nonFullRuns = [c \in Class |-> EmptyList]
  /\ allocated = {} /\ marked = {}
  /\ phase = "run" /\ taken = NoPages /\ pending = {}
  /\ at = [w \in Workers |-> Idle]
  /\ runLocks = [c \in Class |-> None]

-----------------------------------------------------------------------------
(* The mutator: the thread of the interpreter. *)

MutatorRuns == taken = NoPages /\ phase # "parallel"

\* NewObjInternal and init_obj_header.
NewObject(o) ==
  /\ allocated' = allocated \cup {o}
  /\ marked' = IF phase = "run" THEN marked ELSE marked \cup {o}

\* ROSAllocMutator::Alloc: the lockless path.
AllocLocal(c) ==
  /\ MutatorRuns
  /\ \E o \in freeLists[c] :
       /\ NewObject(o)
       /\ freeLists' = [freeLists EXCEPT ![c] = @ \ {o}]
  /\ UNCHANGED <<heap, mIdx, freeList, localRuns, nonFullRuns, taken, sweep>>

\* Localise(p), and the slot o of it is allocated.
LocaliseAndAlloc(c, p, free) ==
  \E o \in free :
    /\ NewObject(o)
    /\ freeLists' = [freeLists EXCEPT ![c] = free \ {o}]
    /\ freeList' = [freeList EXCEPT ![p] = {}]
    /\ localRuns' = [localRuns EXCEPT ![c] = p]

\* The sweep has freed slots of the local run.
AllocRelocalised(c) ==
  /\ MutatorRuns /\ freeLists[c] = {}
  /\ localRuns[c] # None
  /\ LocaliseAndAlloc(c, localRuns[c], freeList[localRuns[c]])
  /\ UNCHANGED <<heap, mIdx, nonFullRuns, taken, sweep>>

\* The local run, if there is one, is used up and made global.
LocalUsedUp(c) ==
  /\ MutatorRuns /\ freeLists[c] = {}
  /\ localRuns[c] # None => IsFull(localRuns[c])

\* FetchOrAllocRun: the list is left alone while the workers sweep.
MayFetch == phase # "concurrent"

AllocFetched(c) ==
  /\ LocalUsedUp(c) /\ MayFetch
  /\ nonFullRuns[c].second # None
  /\ LocaliseAndAlloc(c, nonFullRuns[c].second, freeList[nonFullRuns[c].second])
  /\ nonFullRuns' = [nonFullRuns EXCEPT ![c] = Fetched(@)]
  /\ UNCHANGED <<heap, mIdx, taken, sweep>>

NoRunToFetch(c) == MayFetch => nonFullRuns[c].second = None

TakePages(for, p, n) ==
  /\ PagesFrom(p, n) \subseteq freePages
  /\ freePages' = freePages \ PagesFrom(p, n)
  /\ taken' = [for |-> for, page |-> p, count |-> n]

\* AllocRun takes a page.
TakeRunPage(c) ==
  /\ LocalUsedUp(c) /\ NoRunToFetch(c)
  /\ \E p \in Page : TakePages(c, p, 1)
  /\ localRuns' = [localRuns EXCEPT ![c] = None]
  /\ UNCHANGED <<label, snapshot, mIdx, freeList, freeLists, nonFullRuns, objects, sweep>>

\* No page, or a limit is reached: the local run is global nevertheless.
AllocRunFails(c) ==
  /\ LocalUsedUp(c) /\ NoRunToFetch(c)
  /\ localRuns' = [localRuns EXCEPT ![c] = None]
  /\ UNCHANGED <<heap, mIdx, freeList, freeLists, nonFullRuns, objects, taken, sweep>>

\* SetAsRunPage, RunSlots::Init, and the allocation of a slot of the new run.
NewRun(c) ==
  /\ taken.for = c
  /\ label' = [label EXCEPT ![taken.page] = "run"]
  /\ mIdx' = [mIdx EXCEPT ![taken.page] = c]
  /\ LocaliseAndAlloc(c, taken.page, Slots(c, taken.page))
  /\ taken' = NoPages
  /\ UNCHANGED <<snapshot, freePages, nonFullRuns, sweep>>

TakeLargePages ==
  /\ MutatorRuns
  /\ \E p \in Page, n \in LargeSizes :
       /\ p + n <= LastPage + 1
       /\ TakePages("large", p, n)
  /\ UNCHANGED <<label, snapshot, runs, objects, sweep>>

\* Mutant: the first page is labelled like the others, and last.
HeadLabelledLast == "large rem"

\* SetAsLargeObjPage: the first page, and then the others.
HeadLabel == "large"

LabelLargeHead ==
  /\ taken.for = "large" /\ taken.count > 1
  /\ label' = [label EXCEPT ![taken.page] = HeadLabel]
  /\ taken' = [taken EXCEPT !.for = "large rem"]
  /\ UNCHANGED <<snapshot, freePages, runs, objects, sweep>>

NewLargeObject ==
  /\ taken.for = IF taken.count > 1 THEN "large rem" ELSE "large"
  /\ LET p == taken.page n == taken.count
     IN  /\ label' = [q \in Page |-> IF q = p THEN "large"
                                     ELSE IF q \in PagesFrom(p, n) THEN "large rem" ELSE label[q]]
         /\ NewObject(Large(p, n))
  /\ taken' = NoPages
  /\ UNCHANGED <<snapshot, freePages, runs, sweep>>

-----------------------------------------------------------------------------
(* The collector, on the thread of the mutator. *)

\* Marking has ended; the finalizers allocate with should_mark_new_obj set.
Mark ==
  /\ phase = "run" /\ taken = NoPages
  /\ phase' = "final"
  /\ \E live \in SUBSET allocated : marked' = live
  /\ UNCHANGED <<heap, runs, allocated, taken, pending, at, runLocks>>

\* What FreeIterator finds in the run at p that is not marked.
Garbage(p) == {o \in Slots(mIdx[p], p) \cap allocated : o \notin marked}

\* ConSweepPrologue, SweepLocalRuns and ConcurrentSweep: the local runs are swept here and
\* their labels in the snapshot keep the workers away from them.
BeginConcurrentSweep ==
  /\ phase = "final" /\ taken = NoPages
  /\ phase' = "concurrent"
  /\ snapshot' = [p \in Page |-> IF IsLocal(p) THEN "swept" ELSE label[p]]
  /\ freeList' = [p \in Page |-> IF IsLocal(p) THEN freeList[p] \cup Garbage(p) ELSE freeList[p]]
  /\ allocated' = allocated \ UNION {Garbage(p) : p \in {q \in Page : IsLocal(q)}}
  /\ pending' = Page
  /\ UNCHANGED <<label, freePages, mIdx, localRuns, freeLists, nonFullRuns, marked, taken, at, runLocks>>

\* ParallelFreeAllIf: the mutator waits.
BeginParallelSweep ==
  /\ phase = "final" /\ taken = NoPages
  /\ phase' = "parallel" /\ pending' = Page
  /\ UNCHANGED <<heap, runs, objects, taken, at, runLocks>>

SweepIsDone == pending = {} /\ \A w \in Workers : at[w] = Idle

\* EnsureConcurrentSweepIsFinished.
EndConcurrentSweep ==
  /\ phase = "concurrent" /\ SweepIsDone /\ taken = NoPages
  /\ phase' = "run"
  /\ snapshot' = None /\ marked' = {}
  /\ UNCHANGED <<label, freePages, runs, allocated, taken, pending, at, runLocks>>

\* LocalRunIsEmpty, of the local runs.
EmptyLocalRuns == {c \in Class : localRuns[c] # None
                                 /\ Slots(c, localRuns[c]) \cap allocated = {}}

\* ParallelFreeAllIf returns; ResetBitmap and ReleaseEmptyLocalruns.
EndParallelSweep ==
  /\ phase = "parallel" /\ SweepIsDone
  /\ phase' = "run" /\ marked' = {}
  /\ LET released == {localRuns[c] : c \in EmptyLocalRuns}
     IN  /\ label' = [p \in Page |-> IF p \in released THEN "free" ELSE label[p]]
         /\ freePages' = freePages \cup released
         /\ mIdx' = [p \in Page |-> IF p \in released THEN None ELSE mIdx[p]]
         /\ freeList' = [p \in Page |-> IF p \in released THEN {} ELSE freeList[p]]
  /\ localRuns' = [c \in Class |-> IF c \in EmptyLocalRuns THEN None ELSE localRuns[c]]
  /\ freeLists' = [c \in Class |-> IF c \in EmptyLocalRuns THEN {} ELSE freeLists[c]]
  /\ UNCHANGED <<snapshot, nonFullRuns, allocated, taken, pending, at, runLocks>>

-----------------------------------------------------------------------------
(* The workers: ConcurrentFreeTask and FreeTask. *)

Goto(w, pc) == at' = [at EXCEPT ![w].pc = pc, ![w].wasFull = @ /\ pc = "update"]
Finish(w) == at' = [at EXCEPT ![w] = Idle]

\* Mutant: the labels as they are now.
CurrentLabel(p) == label[p]

\* GetTypeInConcurrent, or GetType while nothing but the sweep runs.
LabelToSweep(p) == IF phase = "concurrent" THEN snapshot[p] ELSE label[p]

\* Execute looks at the next page.  ConcurrentSweepRun asks first whether the run is in the
\* list, and then waits for the lock of its class.
LookAtPage(w) ==
  /\ at[w] = Idle
  /\ \E p \in pending :
       /\ pending' = pending \ {p}
       /\ at' = [at EXCEPT ![w] =
            CASE LabelToSweep(p) = "run" ->
                   [Idle EXCEPT !.page = p, !.wasFull = IsFull(p),
                      !.pc = IF phase = "concurrent" /\ p \in nonFullRuns[mIdx[p]].in
                             THEN "lock" ELSE "sweep"]
              [] LabelToSweep(p) = "large" /\ LargeAt(p) \cap marked = {} ->
                   [Idle EXCEPT !.page = p, !.pc = "clear large"]
              [] OTHER -> Idle]
  /\ UNCHANGED <<heap, runs, objects, phase, taken, runLocks>>

Lock(w) ==
  LET c == mIdx[at[w].page]
  IN  /\ at[w].pc = "lock" /\ runLocks[c] = None
      /\ runLocks' = [runLocks EXCEPT ![c] = w]
      /\ at' = [at EXCEPT ![w].pc = "sweep", ![w].locked = c]
      /\ UNCHANGED <<heap, runs, objects, phase, taken, pending>>

\* SweepSlot for each slot that is garbage.
SweepRun(w) ==
  LET p == at[w].page
  IN  /\ at[w].pc = "sweep"
      /\ allocated' = allocated \ Garbage(p)
      /\ freeList' = [freeList EXCEPT ![p] = @ \cup Garbage(p)]
      /\ Goto(w, "update")
      /\ UNCHANGED <<heap, mIdx, localRuns, freeLists, nonFullRuns, marked, phase, taken, pending, runLocks>>

\* The end of ConcurrentSweepRun for a run that was in the list.
UpdateLocked(w) ==
  LET p == at[w].page c == mIdx[p]
  IN  /\ at[w].pc = "update" /\ at[w].locked # None
      /\ IF IsEmpty(p)
           THEN /\ nonFullRuns' = [nonFullRuns EXCEPT ![c] = Erase(@, p)]
                /\ Goto(w, "free")
           ELSE Goto(w, "unlock") /\ UNCHANGED nonFullRuns
      /\ UNCHANGED <<heap, mIdx, freeList, localRuns, freeLists, objects, phase, taken, pending, runLocks>>

\* UpdateGlobalsAfterFree puts a run that was full in the list.
BackInList(p, wasFull) == wasFull /\ ~IsFull(p) /\ ~IsEmpty(p)

\* UpdateGlobalsAfterFree, under the lock of the class where it changes the list.
UpdateGlobals(w) ==
  LET p == at[w].page c == mIdx[p] in == p \in nonFullRuns[c].in
  IN  /\ at[w].pc = "update" /\ at[w].locked = None
      /\ \/ /\ IsLocal(p)
            /\ Finish(w) /\ UNCHANGED nonFullRuns
         \/ /\ ~IsLocal(p) /\ IsEmpty(p) /\ in
            /\ runLocks[c] = None
            /\ nonFullRuns' = [nonFullRuns EXCEPT ![c] = Erase(@, p)]
            /\ Goto(w, "free")
         \/ /\ ~IsLocal(p) /\ IsEmpty(p) /\ ~in
            /\ IF at[w].wasFull THEN Goto(w, "free") ELSE Finish(w)
            /\ UNCHANGED nonFullRuns
         \/ /\ ~IsLocal(p) /\ BackInList(p, at[w].wasFull)
            /\ runLocks[c] = None
            /\ \E tier \in Tier : nonFullRuns' = [nonFullRuns EXCEPT ![c] = Insert(@, p, tier)]
            /\ Finish(w)
         \/ /\ ~IsLocal(p) /\ ~IsEmpty(p) /\ ~BackInList(p, at[w].wasFull)
            /\ Finish(w) /\ UNCHANGED nonFullRuns
      /\ UNCHANGED <<heap, mIdx, freeList, localRuns, freeLists, objects, phase, taken, pending, runLocks>>

\* FreeRun: the run ends, and ClearRunPage, without a lock.
ClearRunPage(w) ==
  /\ at[w].pc = "free"
  /\ label' = [label EXCEPT ![at[w].page] = "free"]
  /\ mIdx' = [mIdx EXCEPT ![at[w].page] = None]
  /\ freeList' = [freeList EXCEPT ![at[w].page] = {}]
  /\ Goto(w, "region")
  /\ UNCHANGED <<snapshot, freePages, localRuns, freeLists, nonFullRuns, objects, phase, taken, pending, runLocks>>

\* FreeRun: FreeRegion, under globalLock.
FreeRunRegion(w) ==
  /\ at[w].pc = "region"
  /\ freePages' = freePages \cup {at[w].page}
  /\ IF at[w].locked # None THEN Goto(w, "unlock") ELSE Finish(w)
  /\ UNCHANGED <<label, snapshot, runs, objects, phase, taken, pending, runLocks>>

\* The class was recorded before FreeRun.
Unlock(w) ==
  /\ at[w].pc = "unlock"
  /\ runLocks' = [runLocks EXCEPT ![at[w].locked] = None]
  /\ Finish(w)
  /\ UNCHANGED <<heap, runs, objects, phase, taken, pending>>

\* ClearLargeObjPageAndCount: the labels are read and cleared one after the other.
ClearLargePage(w) ==
  LET p == at[w].page n == at[w].cleared
  IN  /\ at[w].pc = "clear large"
      /\ IF n = 0 \/ (p + n \in Page /\ label[p + n] = "large rem")
           THEN /\ label' = [label EXCEPT ![p + n] = "free"]
                /\ at' = [at EXCEPT ![w].cleared = n + 1]
           ELSE Goto(w, "large region") /\ UNCHANGED label
      /\ UNCHANGED <<snapshot, freePages, runs, objects, phase, taken, pending, runLocks>>

\* FreeLargeObj: the header is cleared and the pages that were counted are free.
FreeLargeRegion(w) ==
  LET p == at[w].page
  IN  /\ at[w].pc = "large region"
      /\ allocated' = allocated \ LargeAt(p)
      /\ freePages' = freePages \cup PagesFrom(p, at[w].cleared)
      /\ Finish(w)
      /\ UNCHANGED <<label, snapshot, runs, marked, phase, taken, pending, runLocks>>

-----------------------------------------------------------------------------
Next ==
  \/ \E c \in Class :
       \/ AllocLocal(c) \/ AllocRelocalised(c) \/ AllocFetched(c)
       \/ TakeRunPage(c) \/ AllocRunFails(c) \/ NewRun(c)
  \/ TakeLargePages \/ LabelLargeHead \/ NewLargeObject
  \/ Mark \/ BeginConcurrentSweep \/ BeginParallelSweep
  \/ EndConcurrentSweep \/ EndParallelSweep
  \/ \E w \in Workers :
       \/ LookAtPage(w) \/ Lock(w) \/ SweepRun(w) \/ UpdateLocked(w) \/ UpdateGlobals(w)
       \/ ClearRunPage(w) \/ FreeRunRegion(w) \/ Unlock(w)
       \/ ClearLargePage(w) \/ FreeLargeRegion(w)

Spec == Init /\ [][Next]_vars

-----------------------------------------------------------------------------
TypeOK ==
  /\ label \in [Page -> Label \ {"swept"}]
  /\ snapshot \in [Page -> Label] \cup {None}
  /\ freePages \subseteq Page /\ mIdx \in [Page -> Class \cup {None}]
  /\ freeList \in [Page -> SUBSET Object] /\ freeLists \in [Class -> SUBSET Object]
  /\ localRuns \in [Class -> Page \cup {None}]
  /\ nonFullRuns \in [Class -> Lists]
  /\ allocated \subseteq Object /\ marked \subseteq Object
  /\ phase \in {"run", "final", "concurrent", "parallel"}
  /\ pending \subseteq Page
  /\ runLocks \in [Class -> Workers \cup {None}]

TakenPages ==
  IF taken = NoPages THEN {} ELSE PagesFrom(taken.page, taken.count)

\* The pages that a worker is giving back.
GivenBack(w) ==
  IF at[w].pc \in {"clear large", "large region"} THEN PagesFrom(at[w].page, at[w].cleared)
  ELSE IF at[w].pc = "region" THEN {at[w].page} ELSE {}

\* The pages whose label is "free" are in the tree, or the mutator has taken them, or a
\* worker is about to put them into the tree; nobody gives back or takes a page twice.
Given(p) == \E w \in Workers : p \in GivenBack(w)
NotLabelled(p) == p \in TakenPages /\ (taken.for = "large rem" => p # taken.page)

PageIsOwned(p) ==
  /\ p \in freePages => ~Given(p) /\ p \notin TakenPages
  /\ Given(p) => p \notin TakenPages
  /\ label[p] = "free" <=> p \in freePages \/ Given(p) \/ NotLabelled(p)

FreePagesAreOwned ==
  /\ \A p \in Page : PageIsOwned(p)
  /\ \A v, w \in Workers : v # w => GivenBack(v) \cap GivenBack(w) = {}

Listed(p) == p \in nonFullRuns[mIdx[p]].in
Swept(p) == \E w \in Workers : at[w].page = p /\ at[w].pc # "unlock"

\* The slots of the run that the mutator has.
Mine(p) == IF localRuns[mIdx[p]] = p THEN freeLists[mIdx[p]] ELSE {}

\* A run is local, or in the list of its class, or full, or a worker has it; it is never
\* in a list and local, and the workers leave the local ones alone while the mutator runs.
\* None of its slots is lost and none is free twice.
RunInOnePlace(p) ==
  /\ Listed(p) => ~IsLocal(p) /\ ~IsFull(p)
  /\ ~IsLocal(p) /\ ~Listed(p) => IsFull(p) \/ Swept(p)
  /\ Swept(p) /\ phase = "concurrent" => ~IsLocal(p)
  /\ Slots(mIdx[p], p) = freeList[p] \cup Mine(p) \cup (allocated \cap Slots(mIdx[p], p))
  /\ freeList[p] \cap Mine(p) = {} /\ (freeList[p] \cup Mine(p)) \cap allocated = {}
RunsInOnePlace == \A p \in Page : label[p] = "run" => RunInOnePlace(p)

\* The lists hold runs of their class.
ListsHoldRuns ==
  \A c \in Class :
    /\ IsList(nonFullRuns[c])
    /\ \A p \in nonFullRuns[c].in : label[p] = "run" /\ mIdx[p] = c
    /\ localRuns[c] # None => label[localRuns[c]] = "run" /\ mIdx[localRuns[c]] = c

\* A lock is held by a worker that sweeps a run of the class.
LocksAreHeld ==
  \A c \in Class, w \in Workers : (runLocks[c] = w) = (at[w].locked = c)

(***************************************************************************)
(* The heap is in order between any two steps of the mutator and of the    *)
(* workers: each page is in one place, each slot is free once or in use,   *)
(* the lists are lists, the locks are those of the runs being swept, and   *)
(* there is a snapshot of the labels during a concurrent sweep only (a     *)
(* second one makes PrepareForConcurrentSweep crash).                      *)
(***************************************************************************)
HeapInOrder ==
  /\ TypeOK
  /\ FreePagesAreOwned
  /\ RunsInOnePlace
  /\ ListsHoldRuns
  /\ LocksAreHeld
  /\ phase # "concurrent" => snapshot = None

(***************************************************************************)
(* RosAllocImpl implements ObjectStore: two objects in use never share a   *)
(* cell, whatever runs and large objects the pages held before; a sweep    *)
(* reclaims the objects that were not marked and no others, those that the *)
(* mutator allocates meanwhile in particular, and has reclaimed them all   *)
(* when it ends.                                                           *)
(***************************************************************************)
Store == INSTANCE ObjectStore WITH
  objects <- allocated, doomed <- IF phase = "run" THEN {} ELSE allocated \ marked
ImplementsStore == Store!Spec
=============================================================================
