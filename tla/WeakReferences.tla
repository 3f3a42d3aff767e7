--------------------------- MODULE WeakReferences ---------------------------
(***************************************************************************)
(* What a native module may rely on of its references, with no handles,    *)
(* lists or deferred deletions: an object is not reclaimed while a         *)
(* reference with a count leads to it, nor while a weak one still gives it *)
(* out; a weak one loses it only when nobody else can get at it, and the   *)
(* finalizer is called then, or when the environment is closed, but never  *)
(* twice.  References.tla is shown to implement this specification.        *)
(***************************************************************************)
EXTENDS Naturals

CONSTANTS Obj, Ref, NoObj

VARIABLES
  alive, held,  \* the objects there are, and those that JavaScript can get at
  refs,         \* of each reference what it gives out, its count, whether a module has it,
                \* whether it has a finalizer and whether that was called; or None
  closing       \* whether the environment is being closed

objects == <<alive, held>>
vars == <<objects, refs, closing>>

None == [target |-> NoObj, count |-> 0, given |-> FALSE, wanted |-> FALSE, called |-> 0,
         exists |-> FALSE]

Init ==
  /\ alive = {} /\ held = {} /\ closing = FALSE
  /\ refs = [r \in Ref |-> None]

\* JavaScript allocates, drops and gets objects, also from a reference.
Mutate ==
  /\ alive \subseteq alive' /\ held' \subseteq alive'
  /\ \A o \in held' \cap alive : o \in held \/ \E r \in Ref : refs[r].target = o
  /\ UNCHANGED <<refs, closing>>

Reclaim ==
  /\ alive' \subseteq alive /\ held \subseteq alive'
  /\ \A r \in Ref : refs[r].target \in alive' \cup {NoObj}
  /\ UNCHANGED <<held, refs, closing>>

\* r becomes one of what S says, and nothing else changes.
Becomes(r, S) ==
  /\ \E new \in S : refs' = [refs EXCEPT ![r] = new]
  /\ UNCHANGED <<objects, closing>>

\* With no count a reference may belong to its object alone, and is given to nobody.
Create(r) ==
  /\ ~refs[r].exists
  /\ Becomes(r, [target : held, count : {0}, given : BOOLEAN, wanted : BOOLEAN, called : {0},
                 exists : {TRUE}]
             \cup [target : held, count : {1}, given : {TRUE}, wanted : BOOLEAN, called : {0},
                   exists : {TRUE}])

Count(r) ==
  /\ refs[r].given
  /\ Becomes(r, {[refs[r] EXCEPT !.count = n] : n \in {refs[r].count + 1} \cup
                  (IF refs[r].count > 0 THEN {refs[r].count - 1} ELSE {})})

\* What is deleted gives nothing out, and is freed at once or later.
Delete(r) ==
  /\ refs[r].exists
  /\ Becomes(r, {None, [refs[r] EXCEPT !.target = NoObj, !.given = FALSE]})

\* A module that has a reference has it until it deletes it.
Free(r) ==
  /\ refs[r].exists /\ refs[r].target = NoObj
  /\ closing \/ ~refs[r].given
  /\ Becomes(r, {None})

\* The finalizer, if there is one and it was not called, is called.
Finalized(r) ==
  [refs[r] EXCEPT !.target = NoObj, !.called = IF refs[r].wanted THEN 1 ELSE 0]

\* Nobody leads to the object any more, and everybody who would like to know is told.
Die(r) ==
  LET o == refs[r].target IN
  /\ o \notin held \cup {NoObj}
  /\ \A s \in Ref : refs[s].target = o => refs[s].count = 0
  /\ refs[r].called = 0
  /\ Becomes(r, {Finalized(r)})

BeginClose ==
  /\ ~closing /\ closing' = TRUE
  /\ UNCHANGED <<objects, refs>>

Close(r) ==
  /\ closing /\ refs[r].exists
  /\ Becomes(r, {[Finalized(r) EXCEPT !.count = 0]})

Next ==
  \/ Mutate \/ Reclaim \/ BeginClose
  \/ \E r \in Ref : Create(r) \/ Count(r) \/ Delete(r) \/ Die(r) \/ Close(r) \/ Free(r)

Spec == Init /\ [][Next]_vars
=============================================================================
