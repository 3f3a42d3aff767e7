------------------------------ MODULE TaskPool ------------------------------
(***************************************************************************)
(* What MplThreadPool promises its client, the collector, with no threads, *)
(* no mutex and no condition variables: a submitted task is executed at    *)
(* most once, and WaitFinish does not return while a task is pending.      *)
(* ThreadPool.tla is shown to implement this specification.                *)
(***************************************************************************)
CONSTANT Tasks

VARIABLES
  taskState,  \* what became of each task
  client      \* "calling", "finishing" (inside WaitFinish) or "deleted"

vars == <<taskState, client>>

TaskStates == {"new", "queued", "running", "done", "dropped"}

TypeOK ==
  /\ taskState \in [Tasks -> TaskStates]
  /\ client \in {"calling", "finishing", "deleted"}

Pending == {t \in Tasks : taskState[t] \in {"queued", "running"}}

Init ==
  /\ taskState = [t \in Tasks |-> "new"]
  /\ client = "calling"

Move(t, from, to) ==
  /\ taskState[t] = from
  /\ taskState' = [taskState EXCEPT ![t] = to]
  /\ UNCHANGED client

\* The client, or a task that is being executed, submits t.
Submit(t) ==
  /\ client = "calling" \/ \E u \in Tasks : taskState[u] = "running"
  /\ Move(t, "new", "queued")

\* Some thread takes t, and ends it.
Begin(t) == Move(t, "queued", "running")
End(t) == Move(t, "running", "done")

CallWaitFinish ==
  /\ client = "calling"
  /\ client' = "finishing"
  /\ UNCHANGED taskState

ReturnFromWaitFinish ==
  /\ client = "finishing"
  /\ Pending = {}
  /\ client' = "calling"
  /\ UNCHANGED taskState

\* The pool is deleted: what nobody has begun is dropped.
Delete ==
  /\ client = "calling"
  /\ \A t \in Tasks : taskState[t] # "running"
  /\ client' = "deleted"
  /\ taskState' = [t \in Tasks |->
                     IF taskState[t] = "queued" THEN "dropped" ELSE taskState[t]]

Next ==
  \/ \E t \in Tasks : Submit(t) \/ Begin(t) \/ End(t)
  \/ CallWaitFinish
  \/ ReturnFromWaitFinish
  \/ Delete

Spec == Init /\ [][Next]_vars
=============================================================================
