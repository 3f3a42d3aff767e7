----------------------------- MODULE References -----------------------------
(***************************************************************************)
(* RefBase and Reference (src/src/napi/quickjs/js_native_api_QuickJS.cc)   *)
(* in the garbage-collected mode, on top of the handles of GlobalHandles:  *)
(* references with a count, which deletes who and when, the finalizers     *)
(* that a collection calls, and the closing of the environment.            *)
(*                                                                         *)
(* All of it is on one thread.  What interleaves are the native module's   *)
(* calls from within finalizers: GlobalRootsFinalizer calls them in the    *)
(* middle of a collection, ~napi_context__qjs in the middle of the closing *)
(* (where they may start a collection).                                    *)
(*                                                                         *)
(* Marking and sweeping are one step each; ConMark.tla has their detail.   *)
(* Modules use a reference they were given until they delete it, and       *)
(* remove a wrap only before its object dies or the environment closes.    *)
(* A finalizer that a collection calls allocates nothing, and does not     *)
(* close the environment.                                                  *)
(***************************************************************************)
EXTENDS GlobalHandles

CONSTANTS
  MaxCount,   \* bound: the count of a reference
  Available   \* whether modules count up, and get, only what is not about to be reclaimed

\* The code has no such condition.  It counts up what has no target, and in the middle of a
\* collection it gives out what nobody leads to, until the walk has come to the handle: if
\* modules do so, CountedIsPinned is violated, and held may contain reclaimed objects.
ASSUME ReferencesAssumption == MaxCount \in Nat \ {0} /\ Available \in BOOLEAN

VARIABLES
  alloc, held,  \* the objects that are allocated, and those JavaScript has
  marked,       \* the mark bitmap
  gc,           \* GlobalRootsFinalizer: "off", "walk", "call" while a callback runs, "return"
  dying,        \* the reference it finalizes
  closing,      \* ~napi_context__qjs: "no", "lists", "call", "return" or "closed"
  closed,       \* the reference that it finalizes
  reference     \* the fields of each reference, or Freed

heap == <<alloc, held, marked>>
collecting == <<gc, dying, iterator>>
ending == <<closing, closed>>
vars == <<space, heap, collecting, ending, reference>>

\* _refcount, _delete_self, _finalize_ran, whether _finalize_callback is not null, val_ of
\* _persistent, and whether the reference is linked in a list.  History: whether a module
\* has it and has not deleted it, whether it had a finalizer, how often that was called.
Freed == [linked |-> FALSE, refcount |-> 0, delete_self |-> FALSE, finalize_ran |-> FALSE,
          callback |-> FALSE, handle |-> NoNode, given |-> FALSE, wanted |-> FALSE, called |-> 0]

TypeOK ==
  /\ SpaceType
  /\ held \subseteq alloc /\ alloc \subseteq Obj /\ marked \subseteq Obj
  /\ gc \in {"off", "walk", "call", "return"}
  /\ closing \in {"no", "lists", "call", "return", "closed"}
  /\ {dying, closed} \subseteq Ref \cup {NoRef}
  /\ reference \in [Ref -> [
       linked : BOOLEAN, refcount : 0..MaxCount, delete_self : BOOLEAN, finalize_ran : BOOLEAN,
       callback : BOOLEAN, handle : Node \cup {NoNode}, given : BOOLEAN, wanted : BOOLEAN,
       called : 0..1]]

Init ==
  /\ SpaceInit
  /\ alloc = {} /\ held = {} /\ marked = {}
  /\ gc = "off" /\ dying = NoRef /\ closing = "no" /\ closed = NoRef
  /\ reference = [r \in Ref |-> Freed]

\* JavaScript runs, or a callback of the closing.
Running == gc = "off" /\ closing \in {"no", "call"}

\* The module runs.
InModule == Running \/ gc = "call"

Handle(r) == reference[r].handle
Target(r) == IF Handle(r) = NoNode THEN NoObj ELSE nodes[Handle(r)].object

-----------------------------------------------------------------------------
(* JavaScript, and what a module does with the objects it has.             *)

Allocate(o) ==
  /\ Running /\ o \notin alloc
  /\ alloc' = alloc \cup {o} /\ held' = held \cup {o}
  /\ UNCHANGED <<space, marked, collecting, ending, reference>>

Drop(o) ==
  /\ InModule /\ o \in held
  /\ held' = held \ {o}
  /\ UNCHANGED <<space, alloc, marked, collecting, ending, reference>>

\* The target is there, and is not about to be reclaimed.
HasTarget(r) == Handle(r) # NoNode /\ (gc = "off" \/ Target(r) \in marked)

napi_get_reference_value(r) ==
  /\ InModule /\ reference[r].given /\ Handle(r) # NoNode
  /\ Available => HasTarget(r)
  /\ held' = held \cup {Target(r)}
  /\ UNCHANGED <<space, alloc, marked, collecting, ending, reference>>

-----------------------------------------------------------------------------
(* The module.                                                             *)

\* A new Reference.  One that is going to delete itself is given to nobody.
New(r, o, initial, self, finalizer) ==
  LET n == Head(FreeNodes) IN
  /\ InModule /\ o \in held /\ ~reference[r].linked
  /\ CreateHandle(n, IF initial = 0 THEN Weak(o, r) ELSE Normal(o))
  /\ reference' = [reference EXCEPT ![r] =
       [linked |-> TRUE, refcount |-> initial, delete_self |-> self, finalize_ran |-> FALSE,
        callback |-> finalizer, handle |-> n, given |-> ~self, wanted |-> finalizer,
        called |-> 0]]
  /\ UNCHANGED <<heap, collecting, ending>>

napi_create_reference(r, o) == \E initial \in {0, 1} : New(r, o, initial, FALSE, FALSE)

\* Wrap with a result, and without one, as napi_add_finalizer and napi_create_external.
Wrap(r, o) ==
  New(r, o, 0, FALSE, TRUE) \/ \E finalizer \in BOOLEAN : New(r, o, 0, TRUE, finalizer)

\* Mutant: the deletion is never deferred.
FreedAtOnce(ref) == Freed

\* RefBase::Delete: a reference is freed unless its finalizer may still be to come.
Deleted(ref) ==
  IF ref.refcount # 0 \/ ref.delete_self \/ ref.finalize_ran
    THEN Freed ELSE [ref EXCEPT !.delete_self = TRUE]

Delete(r) ==
  /\ DestroyHandle(Handle(r))
  /\ reference' = [reference EXCEPT ![r] =
       Deleted([reference[r] EXCEPT !.handle = NoNode, !.given = FALSE])]
  /\ UNCHANGED <<heap, collecting, ending>>

napi_delete_reference(r) == InModule /\ reference[r].given /\ Delete(r)

\* Unwrap with RemoveWrap, of an object whose wrap deletes itself.
RemoveWrap(r) ==
  /\ InModule /\ closing = "no"
  /\ reference[r].linked /\ ~reference[r].given /\ Target(r) \in held
  /\ Delete(r)

\* Mutant: ClearWeak is forgotten.
StaysWeak(r) == SetHandle(Handle(r), Weak(Target(r), r))

MakeStrong(r) == SetHandle(Handle(r), Normal(Target(r)))

\* The count goes up even if there is no handle.
napi_reference_ref(r) ==
  /\ InModule /\ reference[r].given /\ reference[r].refcount < MaxCount
  /\ Available => HasTarget(r)
  /\ reference' = [reference EXCEPT ![r].refcount = @ + 1]
  /\ IF reference[r].refcount = 0 THEN MakeStrong(r) ELSE UNCHANGED space
  /\ UNCHANGED <<heap, collecting, ending>>

napi_reference_unref(r) ==
  /\ InModule /\ reference[r].given /\ reference[r].refcount > 0
  /\ reference' = [reference EXCEPT ![r].refcount = @ - 1]
  /\ IF reference[r].refcount = 1
       THEN SetHandle(Handle(r), Weak(Target(r), r)) ELSE UNCHANGED space
  /\ UNCHANGED <<heap, collecting, ending>>

-----------------------------------------------------------------------------
(* Finalize.                                                               *)

\* Mutant: the callback stays.
KeptCallback(ref) == [ref EXCEPT !.called = IF ref.callback THEN @ + 1 ELSE @]

\* The callback, if there is one, is forgotten before it is called.
TakenCallback(ref) ==
  [ref EXCEPT !.callback = FALSE, !.called = IF ref.callback THEN @ + 1 ELSE @]

\* Reference::Finalize up to the callback.
BeginFinalize(r, count) ==
  /\ DestroyHandle(Handle(r))
  /\ reference' = [reference EXCEPT ![r] =
       TakenCallback([reference[r] EXCEPT !.handle = NoNode, !.refcount = count])]

\* And after it.
EndFinalize(r, teardown) ==
  reference' = [reference EXCEPT ![r] =
    IF @.delete_self \/ teardown THEN Deleted(@) ELSE [@ EXCEPT !.finalize_ran = TRUE]]

CallOrReturn(r) == IF reference[r].callback THEN "call" ELSE "return"

-----------------------------------------------------------------------------
(* A collection.                                                           *)

StartCollection ==
  /\ Running /\ alloc # {}
  /\ marked' = held \cup StrongTargets
  /\ gc' = "walk" /\ iterator' = FirstNode
  /\ UNCHANGED <<space, alloc, held, dying, ending, reference>>

IsDead(n) == nodes[n].state = "WEAK" /\ nodes[n].object \notin marked

PassNode ==
  /\ gc = "walk" /\ iterator # NoNode /\ ~IsDead(iterator)
  /\ iterator' = NextNode
  /\ UNCHANGED <<space, heap, gc, dying, ending, reference>>

\* FinalizeCallback destroys the handle before anything else.
FinalizeNode ==
  LET r == nodes[iterator].ref IN
  /\ gc = "walk" /\ iterator # NoNode /\ IsDead(iterator)
  /\ BeginFinalize(r, reference[r].refcount)
  /\ gc' = CallOrReturn(r) /\ dying' = r
  /\ UNCHANGED <<heap, iterator, ending>>

FinalizerReturns ==
  /\ gc \in {"call", "return"}
  /\ EndFinalize(dying, FALSE)
  /\ gc' = "walk" /\ dying' = NoRef /\ iterator' = NextNode
  /\ UNCHANGED <<space, heap, ending>>

Sweep ==
  /\ gc = "walk" /\ iterator = NoNode
  /\ alloc' = alloc \cap marked /\ marked' = {}
  /\ gc' = "off"
  /\ UNCHANGED <<space, held, dying, iterator, ending, reference>>

-----------------------------------------------------------------------------
(* Closing.                                                                *)

Linked == {r \in Ref : reference[r].linked}
HadFinalizer == {r \in Linked : reference[r].wanted}

BeginClosing ==
  /\ gc = "off" /\ closing = "no"
  /\ closing' = "lists"
  /\ UNCHANGED <<space, heap, collecting, closed, reference>>

\* FinalizeAll: the references with a callback first, of them the newest (here, any).
CloseNext(r) ==
  /\ gc = "off" /\ closing = "lists"
  /\ r \in IF HadFinalizer # {} THEN HadFinalizer ELSE Linked
  /\ BeginFinalize(r, 0)
  /\ closing' = CallOrReturn(r) /\ closed' = r
  /\ UNCHANGED <<heap, collecting>>

CloseReturns ==
  /\ gc = "off" /\ closing \in {"call", "return"}
  /\ EndFinalize(closed, TRUE)
  /\ closing' = "lists" /\ closed' = NoRef
  /\ UNCHANGED <<space, heap, collecting>>

EndClosing ==
  /\ gc = "off" /\ closing = "lists" /\ Linked = {}
  /\ closing' = "closed"
  /\ UNCHANGED <<space, heap, collecting, closed, reference>>

\* The environment is gone.
Ended == closing = "closed" /\ UNCHANGED vars

-----------------------------------------------------------------------------
CollectionStep ==
  StartCollection \/ PassNode \/ FinalizeNode \/ FinalizerReturns \/ Sweep

ClosingStep ==
  BeginClosing \/ (\E r \in Ref : CloseNext(r)) \/ CloseReturns \/ EndClosing \/ Ended

ModuleStep ==
  \E r \in Ref :
    \/ \E o \in Obj : napi_create_reference(r, o) \/ Wrap(r, o)
    \/ napi_get_reference_value(r) \/ RemoveWrap(r) \/ napi_delete_reference(r)
    \/ napi_reference_ref(r) \/ napi_reference_unref(r)

Next ==
  \/ \E o \in Obj : Allocate(o) \/ Drop(o)
  \/ ModuleStep \/ CollectionStep \/ ClosingStep

Spec == Init /\ [][Next]_vars

-----------------------------------------------------------------------------
(* Properties.                                                             *)

\* The blocks and the free nodes are where the lists say; a node in use is the handle of
\* one reference that exists, weak exactly if the count is zero, with that reference as the
\* data of its callback; and a callback returns to a reference that still exists.
HandlesMatch ==
  /\ SpaceConsistent
  /\ \A n \in Node : InUse(n) => \E r \in Linked : Handle(r) = n
  /\ \A r \in Ref : Handle(r) # NoNode =>
       /\ InUse(Handle(r))
       /\ nodes[Handle(r)] = IF reference[r].refcount = 0
                               THEN Weak(Target(r), r) ELSE Normal(Target(r))
       /\ \A s \in Ref \ {r} : Handle(s) # Handle(r)
  /\ {dying, closed} \subseteq Linked \cup {NoRef}

\* napi_create_reference with a count, and napi_reference_ref, make a reference strong and
\* pin its object, until the environment is closed.
CountedIsPinned ==
  closing = "no" =>
    \A r \in Ref : reference[r].given /\ reference[r].refcount > 0 => Target(r) \in alloc

\* The collection finds every weak handle of what it is about to reclaim, whatever the
\* finalizers do to the blocks it walks over; an object with a count is not reclaimed; a
\* finalizer is called once, for what nobody leads to or when the environment closes.
PromisedReference(r) ==
  [target |-> Target(r), count |-> reference[r].refcount, given |-> reference[r].given,
   wanted |-> reference[r].wanted, called |-> reference[r].called,
   exists |-> reference[r].linked]

Promise == INSTANCE WeakReferences
  WITH alive <- alloc, refs <- [r \in Ref |-> PromisedReference(r)], closing <- closing # "no"
ImplementsReferences == Promise!Spec
=============================================================================
