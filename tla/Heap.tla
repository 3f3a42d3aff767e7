-------------------------------- MODULE Heap --------------------------------
(***************************************************************************)
(* What the collector promises the interpreter, with no marking, no        *)
(* threads and no phases: an object is reclaimed, or its death is          *)
(* announced, only when nothing the interpreter can follow leads to it.    *)
(* ConMark.tla is shown to implement this specification.                   *)
(***************************************************************************)
CONSTANTS
  Obj, Slot, Null,
  Host,    \* the objects whose death is always announced
  Record   \* the field that the announcement of an object's death clears

VARIABLES
  alloc,    \* the objects that are allocated
  ref,      \* ref[o][s]: what slot s of object o refers to
  roots,    \* what the interpreter holds outside the heap
  watched   \* the objects whose death is to be announced: a WeakRef refers to them

vars == <<alloc, ref, roots, watched>>

Empty == [s \in Slot |-> Null]

TypeOK ==
  /\ alloc \subseteq Obj
  /\ ref \in [Obj -> [Slot -> Obj \cup {Null}]]
  /\ roots \subseteq Obj
  /\ watched \subseteq Obj

\* K contains the roots and everything its members refer to.
Keeps(K) ==
  /\ roots \subseteq K
  /\ \A o \in K, s \in Slot : ref[o][s] \in K \cup {Null}

\* No path leads from the roots to o: some set that keeps all of them is without o.
Unreachable(o) == \E K \in SUBSET Obj : Keeps(K) /\ o \notin K

Init ==
  /\ alloc = {} /\ roots = {} /\ watched = {}
  /\ ref = [o \in Obj |-> Empty]

Alloc(o) ==
  /\ o \notin alloc
  /\ alloc' = alloc \cup {o}
  /\ ref' = [ref EXCEPT ![o] = Empty]
  /\ roots' = roots \cup {o}
  /\ watched' = watched \cup ({o} \cap Host)

Load(o, s) ==
  /\ o \in roots /\ ref[o][s] # Null
  /\ roots' = roots \cup {ref[o][s]}
  /\ UNCHANGED <<alloc, ref, watched>>

Store(o, s, v) ==
  /\ o \in roots /\ v \in roots \cup {Null}
  /\ ref' = [ref EXCEPT ![o][s] = v]
  /\ watched' = IF s = Record THEN watched \cup {o} ELSE watched
  /\ UNCHANGED <<alloc, roots>>

Drop ==
  /\ roots' \in SUBSET roots
  /\ UNCHANGED <<alloc, ref, watched>>

Watch(o) ==
  /\ o \in roots
  /\ watched' = watched \cup {o}
  /\ UNCHANGED <<alloc, ref, roots>>

\* WeakRef.deref: from a watched object the interpreter may get back to the object.
Deref(o) ==
  /\ o \in watched
  /\ roots' = roots \cup {o}
  /\ UNCHANGED <<alloc, ref, watched>>

\* The record of an object is given up.
WithoutRecord(o) == [ref EXCEPT ![o] = [s \in Slot |-> IF s = Record THEN Null ELSE @[s]]]

Forget(o) ==
  /\ ref' = WithoutRecord(o)
  /\ UNCHANGED <<alloc, roots, watched>>

\* What the record of o refers to.
Held(o) == {ref[o][s] : s \in Slot \cap {Record}} \ {Null}

\* The death of o is announced: its WeakRefs are empty from now on, and the interpreter
\* is given what its record held.
Announce(o) ==
  /\ o \in watched /\ Unreachable(o)
  /\ watched' = watched \ {o}
  /\ ref' = WithoutRecord(o)
  /\ roots' = roots \cup Held(o)
  /\ UNCHANGED alloc

Free(o) ==
  /\ o \in alloc \ watched /\ Unreachable(o)
  /\ alloc' = alloc \ {o}
  /\ ref' = [ref EXCEPT ![o] = Empty]
  /\ UNCHANGED <<roots, watched>>

Next ==
  Drop \/ \E o \in Obj :
    \/ Alloc(o) \/ Watch(o) \/ Deref(o) \/ Forget(o) \/ Announce(o) \/ Free(o)
    \/ \E s \in Slot : Load(o, s) \/ \E v \in Obj \cup {Null} : Store(o, s, v)

Spec == Init /\ [][Next]_vars
=============================================================================
