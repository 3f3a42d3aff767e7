------------------------------ MODULE Mailbox ------------------------------
(***************************************************************************)
(* What a thread-safe function promises the threads that hold it, with no  *)
(* mutex, no runner and no tasks of the host: an item that it accepts is   *)
(* passed to the JS thread exactly once and in order, a blocking call      *)
(* returns when its item has been, and the finalizer comes last, once.     *)
(* NapiRuntime.tla is shown to implement this specification.               *)
(***************************************************************************)
EXTENDS Sequences, SequencesExt

CONSTANTS Items, Callers, NoItem

VARIABLES
  box,        \* what has been accepted and not been delivered, in order
  delivered,  \* what has been
  status,     \* "none", "open", "closed" or "finalized"
  blocked     \* the item each caller waits for

vars == <<box, delivered, status, blocked>>

Init ==
  /\ box = <<>> /\ delivered = <<>> /\ status = "none"
  /\ blocked = [c \in Callers |-> NoItem]

Open ==
  /\ status = "none" /\ status' = "open"
  /\ UNCHANGED <<box, delivered, blocked>>

Post(c, i, waits) ==
  /\ status = "open" /\ blocked[c] = NoItem
  /\ i \notin ToSet(box) \cup ToSet(delivered)
  /\ box' = Append(box, i)
  /\ blocked' = [blocked EXCEPT ![c] = IF waits THEN i ELSE NoItem]
  /\ UNCHANGED <<delivered, status>>

Deliver ==
  /\ box # <<>> /\ status # "finalized"
  /\ delivered' = Append(delivered, Head(box))
  /\ box' = Tail(box)
  /\ UNCHANGED <<status, blocked>>

Return(c) ==
  /\ blocked[c] \in ToSet(delivered)
  /\ blocked' = [blocked EXCEPT ![c] = NoItem]
  /\ UNCHANGED <<box, delivered, status>>

Close ==
  /\ status = "open" /\ status' = "closed"
  /\ UNCHANGED <<box, delivered, blocked>>

Finalize ==
  /\ status = "closed" /\ box = <<>>
  /\ status' = "finalized"
  /\ UNCHANGED <<box, delivered, blocked>>

Next ==
  \/ Open \/ Deliver \/ Close \/ Finalize
  \/ \E c \in Callers :
       Return(c) \/ \E i \in Items, waits \in BOOLEAN : Post(c, i, waits)

Spec == Init /\ [][Next]_vars
=============================================================================
