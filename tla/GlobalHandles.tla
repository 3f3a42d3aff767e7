--------------------------- MODULE GlobalHandles ---------------------------
(***************************************************************************)
(* GlobalHandles (src/src/gc/global-handles.cc): the nodes that persistent *)
(* handles are, in blocks that are never freed.  Free nodes are in a list, *)
(* blocks with a node in use in another, doubly linked; a block that       *)
(* leaves it keeps its links, because GlobalRootsFinalizer may stand on it *)
(* while the callback of a dead node destroys and creates handles.         *)
(*                                                                         *)
(* The operations are parts of steps of the module that extends this one.  *)
(***************************************************************************)
EXTENDS Naturals, FiniteSets, Sequences, SequencesExt

CONSTANTS
  Obj, Ref,       \* what handles refer to, and the data of their callbacks
  NoObj, NoRef,
  BlockSize,      \* kBlockSize
  MaxBlocks       \* bound: the blocks there is memory for

ASSUME GlobalHandlesAssumption ==
  /\ NoObj \notin Obj /\ NoRef \notin Ref
  /\ BlockSize \in Nat \ {0} /\ MaxBlocks \in Nat

VARIABLES
  nodes,          \* the state_, object_ and cb_arg of each node
  freeList,       \* first_free_ and what follows
  blocks,         \* blocks_
  usedNodes,      \* used_nodes_ of each block
  nextUsed, prevUsed, firstUsed,   \* the list of blocks in use
  hasCallbacks,   \* has_callbacks_
  iterator        \* the node GlobalRootsFinalizer has come to

space == <<nodes, freeList, blocks, usedNodes, nextUsed, prevUsed, firstUsed, hasCallbacks>>

Block == 1..MaxBlocks
NoBlock == 0
Node == Block \X (0..BlockSize - 1)
NoNode == <<NoBlock, 0>>

Free == [state |-> "FREE", object |-> NoObj, ref |-> NoRef]

SpaceType ==
  /\ nodes \in [Node -> [state : {"FREE", "NORMAL", "WEAK"}, object : Obj \cup {NoObj},
                         ref : Ref \cup {NoRef}]]
  /\ freeList \in Seq(Node) /\ blocks \in 0..MaxBlocks
  /\ usedNodes \in [Block -> 0..BlockSize]
  /\ {nextUsed, prevUsed} \subseteq [Block -> Block \cup {NoBlock}]
  /\ firstUsed \in Block \cup {NoBlock}
  /\ hasCallbacks \in BOOLEAN /\ iterator \in Node \cup {NoNode}

SpaceInit ==
  /\ nodes = [n \in Node |-> Free]
  /\ freeList = <<>> /\ blocks = 0
  /\ usedNodes = [b \in Block |-> 0]
  /\ nextUsed = [b \in Block |-> NoBlock] /\ prevUsed = [b \in Block |-> NoBlock]
  /\ firstUsed = NoBlock /\ hasCallbacks = FALSE /\ iterator = NoNode

InUse(n) == nodes[n].state # "FREE"
Normal(o) == [state |-> "NORMAL", object |-> o, ref |-> NoRef]
Weak(o, r) == [state |-> "WEAK", object |-> o, ref |-> r]

-----------------------------------------------------------------------------
(* NodeSpace.                                                              *)

\* The free nodes when one is asked for: a new block is taken if there is none.
FreeNodes ==
  IF freeList # <<>> THEN freeList
  ELSE [i \in 1..BlockSize |-> <<blocks + 1, i - 1>>]
HasMemory == freeList # <<>> \/ blocks < MaxBlocks

ListAdd(b) ==
  /\ firstUsed' = b
  /\ nextUsed' = [nextUsed EXCEPT ![b] = firstUsed]
  /\ prevUsed' = [c \in Block |->
       IF c = b THEN NoBlock ELSE IF c = firstUsed THEN b ELSE prevUsed[c]]

\* Mutant: the block that leaves the list forgets what came after it.
UnlinkedAndCleared(b) ==
  [c \in Block |-> IF c = b THEN NoBlock ELSE IF c = prevUsed[b] THEN nextUsed[b] ELSE nextUsed[c]]

Unlinked(b) == [c \in Block |-> IF c = prevUsed[b] THEN nextUsed[b] ELSE nextUsed[c]]

ListRemove(b) ==
  /\ nextUsed' = Unlinked(b)
  /\ prevUsed' = [c \in Block |-> IF c = nextUsed[b] THEN prevUsed[b] ELSE prevUsed[c]]
  /\ firstUsed' = IF b = firstUsed THEN nextUsed[b] ELSE firstUsed

\* Create, and SetWeak if the node is to be weak.
CreateHandle(n, content) ==
  /\ HasMemory /\ n = Head(FreeNodes)
  /\ freeList' = Tail(FreeNodes)
  /\ blocks' = IF freeList = <<>> THEN blocks + 1 ELSE blocks
  /\ nodes' = [nodes EXCEPT ![n] = content]
  /\ usedNodes' = [usedNodes EXCEPT ![n[1]] = @ + 1]
  /\ IF usedNodes[n[1]] = 0 THEN ListAdd(n[1]) ELSE UNCHANGED <<nextUsed, prevUsed, firstUsed>>
  /\ hasCallbacks' = (hasCallbacks \/ content.state = "WEAK")

\* Destroy of nothing does nothing.
DestroyHandle(n) ==
  IF n = NoNode THEN UNCHANGED space
  ELSE /\ freeList' = <<n>> \o freeList
       /\ nodes' = [nodes EXCEPT ![n] = Free]
       /\ usedNodes' = [usedNodes EXCEPT ![n[1]] = @ - 1]
       /\ IF usedNodes[n[1]] = 1
            THEN ListRemove(n[1]) ELSE UNCHANGED <<nextUsed, prevUsed, firstUsed>>
       /\ UNCHANGED <<blocks, hasCallbacks>>

\* SetWeak and ClearWeak.
SetHandle(n, content) ==
  IF n = NoNode THEN UNCHANGED space
  ELSE /\ nodes' = [nodes EXCEPT ![n] = content]
       /\ hasCallbacks' = (hasCallbacks \/ content.state = "WEAK")
       /\ UNCHANGED <<freeList, blocks, usedNodes, nextUsed, prevUsed, firstUsed>>

-----------------------------------------------------------------------------
(* What a collection asks of the handles.                                  *)

StrongTargets == {nodes[n].object : n \in {m \in Node : nodes[m].state = "NORMAL"}}

\* GlobalRootsFinalizer goes through nothing if there was never a callback.
FirstNode ==
  IF hasCallbacks /\ firstUsed # NoBlock THEN <<firstUsed, 0>> ELSE NoNode

NextNode ==
  IF iterator[2] + 1 < BlockSize THEN <<iterator[1], iterator[2] + 1>>
  ELSE <<nextUsed[iterator[1]], 0>>

-----------------------------------------------------------------------------
(* Properties.                                                             *)

UsedIn(b) == {n \in Node : n[1] = b /\ InUse(n)}
UsedBlocks == {b \in Block : UsedIn(b) # {}}

\* The blocks with a node in use are the list, linked in both directions; the free nodes
\* are in theirs, each once; the counters are exact.  (What the links of a block outside
\* of the list are does not matter, except to an iterator that stands on it.)
SpaceConsistent ==
  /\ \A b \in Block : usedNodes[b] = Cardinality(UsedIn(b))
  /\ IsInjective(freeList)
  /\ ToSet(freeList) = {n \in Node : n[1] <= blocks /\ ~InUse(n)}
  /\ (firstUsed = NoBlock) = (UsedBlocks = {})
  /\ \A b \in UsedBlocks :
       /\ b <= blocks
       /\ nextUsed[b] = NoBlock \/ (nextUsed[b] \in UsedBlocks /\ prevUsed[nextUsed[b]] = b)
       /\ IF b = firstUsed THEN prevUsed[b] = NoBlock
          ELSE prevUsed[b] \in UsedBlocks /\ nextUsed[prevUsed[b]] = b
=============================================================================
