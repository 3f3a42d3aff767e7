----------------------------- MODULE PointerSet -----------------------------
(***************************************************************************)
(* The open-addressing table of gc/pointer_set.h: linear probing, erasing  *)
(* by shifting back, traversals whose callbacks insert.  The collector     *)
(* keeps the objects with a finalizer in one, the reference-counted mode   *)
(* all allocations.                                                        *)
(*                                                                         *)
(* A table is a function from 0..capacity-1 to pointers and nullptr.  Of   *)
(* the old table of a traversal, what it has not yet passed on is kept;    *)
(* the callback is running with the first of that.                         *)
(***************************************************************************)
EXTENDS Integers, FiniteSets

CONSTANTS
  Ptr,               \* pointers
  nullptr,
  HashValue,         \* the values Hash may have; one of its functions is taken
  kInitialCapacity,
  MaxReserve         \* bound: the size that TryReserve is called with

ASSUME PtrAssumption == nullptr \notin Ptr /\ HashValue \subseteq Nat
\* The masks rely on it.
ASSUME CapacityAssumption ==
  /\ kInitialCapacity \in Nat \ {0, 1}
  /\ \E k \in 1..kInitialCapacity : kInitialCapacity = 2 ^ k

VARIABLES
  Hash,         \* does not change
  slots_,
  size_,
  old_slots,
  traversal     \* "none", "RetainIf" or "Drain"

vars == <<Hash, slots_, size_, old_slots, traversal>>

-----------------------------------------------------------------------------
(* Tables.                                                                 *)

Table(capacity) == [k \in 0..capacity - 1 |-> nullptr]

Capacity(slots) == Cardinality(DOMAIN slots)

Occupied(slots) == {k \in DOMAIN slots : slots[k] # nullptr}

Stored(slots) == {slots[k] : k \in Occupied(slots)}

\* The slots of a table that hold a pointer, which ForEach, RetainIf and Drain go through
\* from the first on.
Entries(slots) == [k \in Occupied(slots) |-> slots[k]]

FirstSlot(entries) == CHOOSE k \in DOMAIN entries : \A l \in DOMAIN entries : k <= l

\* (to - from) & mask
Distance(slots, from, to) == (to - from) % Capacity(slots)

Home(slots, p) == Hash[p] % Capacity(slots)

\* Of the slots that hold p or nothing, the first from the home of p on.
FindSlot(slots, p) ==
  LET ends == {k \in DOMAIN slots : slots[k] \in {nullptr, p}} IN
  CHOOSE k \in ends : \A l \in ends :
    Distance(slots, Home(slots, p), k) <= Distance(slots, Home(slots, p), l)

ContainsPtr(slots, p) == slots # Table(0) /\ slots[FindSlot(slots, p)] = p

Put(slots, p) == [slots EXCEPT ![FindSlot(slots, p)] = p]

\* Rehash, TryGrow: what InstallTable leaves of the table in a new one.
InstallTable(slots, capacity) ==
  LET new[i \in 0..Capacity(slots)] ==
        IF i = 0 THEN Table(capacity)
        ELSE IF slots[i - 1] = nullptr THEN new[i - 1]
        ELSE Put(new[i - 1], slots[i - 1]) IN
  new[Capacity(slots)]

TwoTo[k \in Nat] == IF k = 0 THEN 1 ELSE 2 * TwoTo[k - 1]

\* TryGrow, CapacityFor: capacity doubled until it holds size pointers.
DoubledFrom(capacity, size) ==
  CHOOSE c \in {capacity * TwoTo[k] : k \in 0..size} :
    size <= c \div 2 /\ (c = capacity \/ size > c \div 4)

-----------------------------------------------------------------------------
(* Erase.                                                                  *)

\* (from + distance) & mask
Behind(slots, from, distance) == (from + distance) % Capacity(slots)

\* The length of the rest of the cluster behind k.
ClusterLength(slots, k) ==
  CHOOSE n \in 0..Capacity(slots) - 1 :
    /\ slots[Behind(slots, k, n + 1)] = nullptr
    /\ \A d \in 1..n : slots[Behind(slots, k, d)] # nullptr

\* Mutant: clusters do not wrap around the end of the table.
CrossesUnwrapped(slots, hole, i) == Home(slots, slots[i]) <= hole /\ hole < i

\* The probe for what is in slot i passes the hole.
Crosses(slots, hole, i) ==
  LET home == Home(slots, slots[i]) IN
  Distance(slots, home, hole) < Distance(slots, home, i)

ShiftBack(state, i) ==
  IF Crosses(state.slots, state.hole, i)
    THEN [slots |-> [state.slots EXCEPT ![state.hole] = state.slots[i]], hole |-> i]
    ELSE state

WithoutSlot(slots, k) ==
  LET length == ClusterLength(slots, k)
      shifted[d \in 0..length] ==
        IF d = 0 THEN [slots |-> slots, hole |-> k]
        ELSE ShiftBack(shifted[d - 1], Behind(slots, k, d)) IN
  [shifted[length].slots EXCEPT ![shifted[length].hole] = nullptr]

-----------------------------------------------------------------------------
(* The operations.                                                         *)

Init ==
  /\ Hash \in [Ptr -> HashValue]
  /\ slots_ = Table(0) /\ size_ = 0
  /\ old_slots = Entries(Table(0)) /\ traversal = "none"

MustGrow == size_ = Capacity(slots_) \div 2

\* The table when p is to be inserted, which it does not contain.
Grown ==
  IF MustGrow
    THEN InstallTable(slots_, IF slots_ = Table(0) THEN kInitialCapacity
                              ELSE 2 * Capacity(slots_))
    ELSE slots_

AddTo(p) ==
  IF ContainsPtr(slots_, p)
    THEN UNCHANGED <<slots_, size_>>
    ELSE slots_' = Put(Grown, p) /\ size_' = size_ + 1

\* By anybody, or by the callback of a traversal.
Insert(p) == AddTo(p) /\ UNCHANGED <<Hash, old_slots, traversal>>

\* If the new table cannot be allocated nothing changes.
TryReserve(size) ==
  /\ traversal = "none" /\ size > Capacity(slots_) \div 2
  /\ slots_' = InstallTable(slots_,
       DoubledFrom(IF slots_ = Table(0) THEN kInitialCapacity ELSE Capacity(slots_), size))
  /\ UNCHANGED <<Hash, size_, old_slots, traversal>>

Erase(p) ==
  /\ traversal = "none" /\ ContainsPtr(slots_, p)
  /\ slots_' = WithoutSlot(slots_, FindSlot(slots_, p))
  /\ size_' = size_ - 1
  /\ UNCHANGED <<Hash, old_slots, traversal>>

ClearTable == slots_' = Table(0) /\ size_' = 0

Clear == traversal = "none" /\ ClearTable /\ UNCHANGED <<Hash, old_slots, traversal>>

\* A table without pointers is freed and nothing is passed on.
RetainIf ==
  /\ traversal = "none" /\ size_ > 0
  /\ slots_' = Table(DoubledFrom(kInitialCapacity, size_)) /\ size_' = 0
  /\ old_slots' = Entries(slots_) /\ traversal' = "RetainIf"
  /\ UNCHANGED Hash

Drain ==
  /\ traversal = "none" /\ size_ > 0
  /\ ClearTable
  /\ old_slots' = Entries(slots_) /\ traversal' = "Drain"
  /\ UNCHANGED Hash

LaterEntries == [k \in DOMAIN old_slots \ {FirstSlot(old_slots)} |-> old_slots[k]]

NextEntry ==
  /\ old_slots' = LaterEntries
  /\ traversal' = IF DOMAIN LaterEntries = {} THEN "none" ELSE traversal
  /\ UNCHANGED Hash

KeepReturns ==
  /\ traversal = "RetainIf"
  /\ \E keep \in BOOLEAN :
       IF keep THEN AddTo(old_slots[FirstSlot(old_slots)]) ELSE UNCHANGED <<slots_, size_>>
  /\ NextEntry

\* Mutant: what the callbacks inserted stays.
StaysDrained == UNCHANGED <<slots_, size_>>

\* At the end of the loop all is dropped.
Drained == IF DOMAIN LaterEntries = {} THEN ClearTable ELSE UNCHANGED <<slots_, size_>>

FnReturns == traversal = "Drain" /\ Drained /\ NextEntry

Next ==
  \/ \E p \in Ptr : Insert(p) \/ Erase(p)
  \/ \E size \in 1..MaxReserve : TryReserve(size)
  \/ Clear \/ RetainIf \/ Drain \/ KeepReturns \/ FnReturns

Spec == Init /\ [][Next]_vars

-----------------------------------------------------------------------------
(* Properties.                                                             *)

\* The capacity is the initial one doubled, which the masks rely on, and at most half is
\* occupied, so that every probe ends and an insertion after an erasure, or a reservation,
\* never has to allocate; whatever was inserted, erased and shifted, ContainsPtr finds what
\* is stored, and it is stored once.
TableOK ==
  /\ slots_ \in [0..Capacity(slots_) - 1 -> Ptr \cup {nullptr}]
  /\ Capacity(slots_) = 0
     \/ \E k \in 0..Capacity(slots_) : Capacity(slots_) = kInitialCapacity * TwoTo[k]
  /\ size_ = Cardinality(Occupied(slots_)) /\ size_ <= Capacity(slots_) \div 2
  /\ \A p \in Stored(slots_) : ContainsPtr(slots_, p)
  /\ Cardinality(Stored(slots_)) = size_
  /\ DOMAIN old_slots \subseteq Nat /\ old_slots \in [DOMAIN old_slots -> Ptr]
  /\ traversal \in {"none", "RetainIf", "Drain"}
  /\ traversal = "none" <=> DOMAIN old_slots = {}

\* The table is the set that its users take it for, also while a traversal calls back.
Registered == INSTANCE RegisteredSet
  WITH members <- Stored(slots_), pending <- {old_slots[k] : k \in DOMAIN old_slots}

ImplementsSet == Registered!Spec
=============================================================================
