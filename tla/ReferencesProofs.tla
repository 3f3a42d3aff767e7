-------------------------- MODULE ReferencesProofs --------------------------
(***************************************************************************)
(* A collection finds every handle of what it reclaims, whatever the       *)
(* finalizers do to the blocks it walks over, and a reference keeps what   *)
(* it promises, for any number of objects, references and blocks.          *)
(*                                                                         *)
(* For modules that count up, and get, only what is not about to be        *)
(* reclaimed: with Available = FALSE, TLC finds CountedIsPinned violated.  *)
(***************************************************************************)
EXTENDS References, SequenceTheorems, FiniteSetTheorems, TLAPS

-----------------------------------------------------------------------------
(* The blocks.                                                             *)

\* A set of blocks that nothing leads out of.
Closed(S) == \A b \in S : nextUsed[b] \in S \cup {NoBlock}

\* The links lead from x to b.
Reaches(x, b) == \A S \in SUBSET Block : x \in S \cup {NoBlock} /\ Closed(S) => b \in S

\* What each block and the free nodes are.
SpaceCounts == \A b \in Block : usedNodes[b] = Cardinality(UsedIn(b))
FreeListed ==
  /\ IsInjective(freeList)
  /\ ToSet(freeList) = {n \in Node : n[1] <= blocks /\ ~InUse(n)}

\* The list is linked in both directions, and leads to every block with a node in use.
BlocksLinked ==
  /\ firstUsed \in UsedBlocks \cup {NoBlock}
  /\ \A b \in UsedBlocks :
       /\ b <= blocks
       /\ nextUsed[b] = NoBlock \/ (nextUsed[b] \in UsedBlocks /\ prevUsed[nextUsed[b]] = b)
       /\ IF b = firstUsed THEN prevUsed[b] = NoBlock
          ELSE prevUsed[b] \in UsedBlocks /\ nextUsed[prevUsed[b]] = b
       /\ Reaches(firstUsed, b)

CallbacksKnown == hasCallbacks \/ \A n \in Node : nodes[n].state # "WEAK"

SpaceInv == SpaceType /\ SpaceCounts /\ FreeListed /\ BlocksLinked /\ CallbacksKnown

-----------------------------------------------------------------------------
(* The references.                                                         *)

\* A finalizer is called once, and a module that has a reference knows of its end.
RefsConsistent ==
  \A r \in Ref :
    /\ ~reference[r].linked => reference[r] = Freed
    /\ reference[r].given /\ reference[r].delete_self =>
         closing # "no" /\ ~reference[r].callback
    /\ reference[r].callback = (reference[r].wanted /\ reference[r].called = 0)
    /\ reference[r].called = 1 => reference[r].wanted
    /\ reference[r].callback => ~reference[r].finalize_ran

\* A node in use is the handle of one reference.
HandlesOwned ==
  /\ \A n \in Node : InUse(n) => \E r \in Linked : Handle(r) = n
  /\ \A r \in Ref :
       IF Handle(r) = NoNode THEN reference[r].refcount = 0
       ELSE /\ InUse(Handle(r)) /\ reference[r].called = 0
            /\ nodes[Handle(r)] = IF reference[r].refcount = 0
                                    THEN Weak(Target(r), r) ELSE Normal(Target(r))
            /\ \A s \in Ref \ {r} : Handle(s) # Handle(r)

\* The reference that is being finalized has lost its handle and its callback; until the
\* callback has returned nothing frees it.
Finalizing(r, running) ==
  /\ r \in Linked /\ Handle(r) = NoNode /\ ~reference[r].callback
  /\ running => /\ ~reference[r].finalize_ran
                /\ reference[r].given => ~reference[r].delete_self

FinalizedStay ==
  /\ IF gc \in {"call", "return"} THEN Finalizing(dying, gc = "call") ELSE dying = NoRef
  /\ IF closing \in {"call", "return"} THEN Finalizing(closed, closing = "call")
     ELSE closed = NoRef
  /\ dying = closed => dying = NoRef
  /\ gc # "off" => closing \in {"no", "call"}

-----------------------------------------------------------------------------
(* The collection.                                                         *)

\* Node n comes after the node i of block b.
Ahead(b, i, n) == (n[1] = b /\ n[2] >= i) \/ (b # NoBlock /\ Reaches(nextUsed[b], n[1]))

\* Whatever callbacks do, the walk will come to every handle of what is not marked.
DeadAreAhead ==
  \A n \in Node : IsDead(n) =>
    /\ gc = "walk" => Ahead(iterator[1], iterator[2], n)
    /\ gc \in {"call", "return"} => Ahead(iterator[1], iterator[2] + 1, n)

CollectionInv ==
  /\ \A n \in Node : InUse(n) => nodes[n].object \in alloc
  /\ gc # "off" => /\ held \subseteq marked /\ marked \subseteq alloc
                   /\ \A n \in Node : nodes[n].state = "NORMAL" => nodes[n].object \in marked
                   /\ DeadAreAhead
  /\ gc \in {"call", "return"} => iterator # NoNode

RefInv == TypeOK /\ SpaceInv /\ RefsConsistent /\ HandlesOwned /\ FinalizedStay /\ CollectionInv

-----------------------------------------------------------------------------
(* Lemmas about sequences and links.                                       *)

\* The elements of a list, without its head.
LEMMA TailHas ==
  ASSUME NEW X, NEW s \in Seq(X), s # <<>>, IsInjective(s)
  PROVE  /\ Head(s) \in X /\ Tail(s) \in Seq(X) /\ IsInjective(Tail(s))
         /\ ToSet(Tail(s)) = ToSet(s) \ {Head(s)} /\ Head(s) \in ToSet(s)
<1>1. /\ Len(s) \in Nat \ {0} /\ DOMAIN s = 1..Len(s) /\ \A i \in 1..Len(s) : s[i] \in X
      /\ Head(s) = s[1]
  OBVIOUS
<1>2. /\ Tail(s) \in Seq(X) /\ Len(Tail(s)) = Len(s) - 1
      /\ DOMAIN Tail(s) = 1..(Len(s) - 1)
      /\ \A i \in 1..(Len(s) - 1) : Tail(s)[i] = s[i + 1]
  OBVIOUS
<1>3. \A i, j \in 1..Len(s) : s[i] = s[j] => i = j BY <1>1 DEF IsInjective
<1>4. IsInjective(Tail(s))
  <2> SUFFICES ASSUME NEW i \in 1..(Len(s) - 1), NEW j \in 1..(Len(s) - 1),
                      Tail(s)[i] = Tail(s)[j]
               PROVE  i = j
    BY <1>2 DEF IsInjective
  <2>1. i + 1 \in 1..Len(s) /\ j + 1 \in 1..Len(s) /\ s[i + 1] = s[j + 1] BY <1>1, <1>2
  <2> QED BY <1>3, <2>1
<1>5. ToSet(s) = {s[i] : i \in 1..Len(s)} /\ ToSet(Tail(s)) = {s[i] : i \in 2..Len(s)}
  <2>1. ToSet(s) = {s[i] : i \in 1..Len(s)} BY <1>1 DEF ToSet
  <2>2. ToSet(Tail(s)) = {Tail(s)[i] : i \in 1..(Len(s) - 1)} BY <1>2 DEF ToSet
  <2>3. \A i \in 2..Len(s) : i - 1 \in 1..(Len(s) - 1) /\ Tail(s)[i - 1] = s[i]
    BY <1>1, <1>2
  <2>4. \A i \in 1..(Len(s) - 1) : i + 1 \in 2..Len(s) /\ Tail(s)[i] = s[i + 1]
    BY <1>1, <1>2
  <2>5. ASSUME NEW y PROVE y \in ToSet(Tail(s)) <=> \E i \in 2..Len(s) : y = s[i]
    <3>1. y \in ToSet(Tail(s)) <=> \E i \in 1..(Len(s) - 1) : y = Tail(s)[i] BY <2>2
    <3> QED BY <2>3, <2>4, <3>1
  <2> QED BY <2>1, <2>5
<1>6. \A i \in 2..Len(s) : s[i] # s[1] BY <1>1, <1>3
<1>7. 1..Len(s) = {1} \cup 2..Len(s) BY <1>1
<1> QED BY <1>1, <1>2, <1>4, <1>5, <1>6, <1>7

\* The elements of a list, with a new head.
LEMMA ConsHas ==
  ASSUME NEW X, NEW s \in Seq(X), NEW x \in X, x \notin ToSet(s), IsInjective(s)
  PROVE  /\ <<x>> \o s \in Seq(X) /\ IsInjective(<<x>> \o s)
         /\ ToSet(<<x>> \o s) = ToSet(s) \cup {x}
<1> DEFINE t == <<x>> \o s
<1>1. /\ t \in Seq(X) /\ Len(t) = Len(s) + 1 /\ Len(s) \in Nat
      /\ DOMAIN t = 1..(Len(s) + 1) /\ DOMAIN s = 1..Len(s)
      /\ t[1] = x /\ \A i \in 1..Len(s) : t[i + 1] = s[i]
  OBVIOUS
<1> HIDE DEF t
<1>2. \A i \in 2..(Len(s) + 1) : i - 1 \in 1..Len(s) /\ t[i] = s[i - 1]
  <2> SUFFICES ASSUME NEW i \in 2..(Len(s) + 1)
               PROVE  i - 1 \in 1..Len(s) /\ t[i] = s[i - 1]
    OBVIOUS
  <2>1. i - 1 \in 1..Len(s) /\ (i - 1) + 1 = i BY <1>1
  <2> QED BY <1>1, <2>1
<1>3. \A i \in 1..Len(s) : s[i] # x BY <1>1 DEF ToSet
<1>4. \A i, j \in 1..Len(s) : s[i] = s[j] => i = j BY <1>1 DEF IsInjective
<1>5. IsInjective(t)
  <2> SUFFICES ASSUME NEW i \in 1..(Len(s) + 1), NEW j \in 1..(Len(s) + 1), t[i] = t[j]
               PROVE  i = j
    BY <1>1 DEF IsInjective
  <2>1. CASE i = 1 /\ j = 1 BY <2>1
  <2>2. CASE i # 1 /\ j # 1
    <3>1. i \in 2..(Len(s) + 1) /\ j \in 2..(Len(s) + 1) BY <1>1, <2>2
    <3>2. i - 1 = j - 1 BY <1>2, <1>4, <3>1
    <3> QED BY <3>1, <3>2
  <2>3. CASE i = 1 /\ j # 1
    <3>1. j \in 2..(Len(s) + 1) BY <1>1, <2>3
    <3> QED BY <1>1, <1>2, <1>3, <2>3, <3>1
  <2>4. CASE i # 1 /\ j = 1
    <3>1. i \in 2..(Len(s) + 1) BY <1>1, <2>4
    <3> QED BY <1>1, <1>2, <1>3, <2>4, <3>1
  <2> QED BY <2>1, <2>2, <2>3, <2>4
<1>6. ToSet(t) = ToSet(s) \cup {x}
  <2>1. ToSet(t) = {t[i] : i \in 1..(Len(s) + 1)} BY <1>1 DEF ToSet
  <2>2. ToSet(s) = {s[i] : i \in 1..Len(s)} BY <1>1 DEF ToSet
  <2>3. \A i \in 1..Len(s) : i + 1 \in 1..(Len(s) + 1) /\ 1 \in 1..(Len(s) + 1) BY <1>1
  <2>4. 1 \in 1..(Len(s) + 1) BY <1>1
  <2>5. \A i \in 1..(Len(s) + 1) : i = 1 \/ i \in 2..(Len(s) + 1) BY <1>1
  <2> QED BY <1>1, <1>2, <2>1, <2>2, <2>3, <2>4, <2>5
<1> QED BY <1>1, <1>5, <1>6 DEF t

\* The links lead from a block to itself, and further than what comes after it.
LEMMA ReachesNext ==
  ASSUME NEW x \in Block, NEW b \in Block, b # x, Reaches(x, b)
  PROVE  Reaches(nextUsed[x], b)
<1> SUFFICES ASSUME NEW S \in SUBSET Block, nextUsed[x] \in S \cup {NoBlock}, Closed(S)
             PROVE  b \in S
  BY DEF Reaches
<1>1. Closed(S \cup {x}) BY DEF Closed
<1>2. S \cup {x} \in SUBSET Block OBVIOUS
<1>3. b \in S \cup {x} BY <1>1, <1>2 DEF Reaches
<1> QED BY <1>3

\* Nothing leads anywhere.
LEMMA NothingReaches ==
  ASSUME NEW b
  PROVE  ~Reaches(NoBlock, b)
<1>1. Closed({}) /\ {} \in SUBSET Block BY DEF Closed
<1> QED BY <1>1 DEF Reaches

\* 0 is no block, and the first free node of a new block is one.
LEMMA BlocksAndNodes ==
  /\ NoBlock \notin Block /\ NoNode \notin Node
  /\ \A n \in Node : n[1] \in Block /\ n[2] \in 0..(BlockSize - 1) /\ n = <<n[1], n[2]>>
  /\ \A b \in Block : IsFiniteSet(UsedIn(b))
<1>1. NoBlock \notin Block BY GlobalHandlesAssumption DEF Block, NoBlock
<1>2. \A n \in Node : n[1] \in Block /\ n[2] \in 0..(BlockSize - 1) /\ n = <<n[1], n[2]>>
  BY DEF Node
<1>3. NoNode \notin Node
  <2>1. NoNode[1] = NoBlock BY DEF NoNode
  <2> QED BY <1>1, <1>2, <2>1
<1>4. ASSUME NEW b \in Block PROVE IsFiniteSet(UsedIn(b))
  <2>1. IsFiniteSet(Node)
    <3>1. IsFiniteSet(Block) BY GlobalHandlesAssumption, FS_Interval DEF Block
    <3>2. IsFiniteSet(0..(BlockSize - 1)) BY GlobalHandlesAssumption, FS_Interval
    <3> QED BY <3>1, <3>2, FS_Product DEF Node
  <2>2. UsedIn(b) \in SUBSET Node BY DEF UsedIn
  <2> QED BY <2>1, <2>2, FS_Subset
<1> QED BY <1>1, <1>2, <1>3, <1>4

\* A block that leaves the list is the only one that nothing leads to any more.
LEMMA RemoveKeepsReach ==
  ASSUME SpaceType, BlocksLinked, NEW c \in UsedBlocks, nextUsed' = Unlinked(c),
         NEW b \in Block, b # c
  PROVE  /\ \A x \in Block \cup {NoBlock} : Reaches(x, b) => Reaches(x, b)'
         /\ \A y \in Block : Reaches(nextUsed[y], b) => Reaches(nextUsed[y], b)'
<1>1. /\ nextUsed \in [Block -> Block \cup {NoBlock}] /\ c \in Block
      /\ prevUsed[c] \in Block \cup {NoBlock}
      /\ prevUsed[c] # NoBlock => nextUsed[prevUsed[c]] = c
  BY DEF SpaceType, BlocksLinked, UsedBlocks
<1>2. \A y \in Block : nextUsed'[y] = IF y = prevUsed[c] THEN nextUsed[c] ELSE nextUsed[y]
  BY DEF Unlinked
<1>3. ASSUME NEW x \in Block \cup {NoBlock}, Reaches(x, b)
      PROVE  Reaches(x, b)'
  <2> SUFFICES ASSUME NEW S \in SUBSET Block, x \in S \cup {NoBlock},
                      \A y \in S : nextUsed'[y] \in S \cup {NoBlock}
               PROVE  b \in S
    BY DEF Reaches, Closed
  <2>1. CASE nextUsed[c] \in S \cup {NoBlock}
    <3>1. Closed(S \cup {c})
      <4> SUFFICES ASSUME NEW y \in S \cup {c}
                   PROVE  nextUsed[y] \in S \cup {c} \cup {NoBlock}
        BY DEF Closed
      <4>1. CASE y = c BY <2>1, <4>1
      <4>2. CASE y = prevUsed[c] BY <1>1, <4>2, BlocksAndNodes
      <4>3. CASE y # c /\ y # prevUsed[c] BY <1>2, <4>3
      <4> QED BY <4>1, <4>2, <4>3
    <3>2. S \cup {c} \in SUBSET Block /\ x \in S \cup {c} \cup {NoBlock} BY <1>1
    <3>3. b \in S \cup {c} BY <1>3, <3>1, <3>2 DEF Reaches
    <3> QED BY <3>3
  <2>2. CASE nextUsed[c] \notin S \cup {NoBlock}
    <3>1. prevUsed[c] \notin S BY <1>2, <2>2
    <3>2. Closed(S) BY <1>2, <3>1 DEF Closed
    <3> QED BY <1>3, <3>2 DEF Reaches
  <2> QED BY <2>1, <2>2
<1>4. ASSUME NEW y \in Block, Reaches(nextUsed[y], b)
      PROVE  Reaches(nextUsed[y], b)'
  <2>1. PICK x \in Block \cup {NoBlock} : x = nextUsed'[y] /\ Reaches(x, b)
    <3>1. CASE y # prevUsed[c] BY <1>1, <1>2, <1>4, <3>1
    <3>2. CASE y = prevUsed[c]
      <4>1. nextUsed[y] = c BY <1>1, <3>2, BlocksAndNodes
      <4>2. Reaches(nextUsed[c], b) BY <1>1, <1>4, <4>1, ReachesNext
      <4> QED BY <1>1, <1>2, <3>2, <4>2
    <3> QED BY <3>1, <3>2
  <2>2. Reaches(x, b)' BY <1>3, <2>1
  <2> QED BY <2>1, <2>2 DEF Reaches
<1> QED BY <1>3, <1>4

\* A block that joins the list leads to all of it, and what lead to a block still does.
LEMMA AddKeepsReach ==
  ASSUME SpaceType, BlocksLinked, NEW c \in Block \ UsedBlocks, ListAdd(c),
         NEW b \in UsedBlocks
  PROVE  /\ Reaches(firstUsed, b)'
         /\ \A y \in Block : Reaches(nextUsed[y], b) => Reaches(nextUsed[y], b)'
<1>1. /\ nextUsed \in [Block -> Block \cup {NoBlock}] /\ UsedBlocks \subseteq Block
      /\ Reaches(firstUsed, b) /\ firstUsed \in UsedBlocks \cup {NoBlock}
      /\ \A y \in UsedBlocks : nextUsed[y] \in UsedBlocks \cup {NoBlock}
  BY DEF SpaceType, BlocksLinked, UsedBlocks
<1>2. /\ firstUsed' = c /\ nextUsed'[c] = firstUsed
      /\ \A y \in Block \ {c} : nextUsed'[y] = nextUsed[y]
  BY <1>1 DEF ListAdd
<1>3. ASSUME NEW S \in SUBSET Block, \A y \in S : nextUsed'[y] \in S \cup {NoBlock},
             c \in S
      PROVE  b \in S
  <2>1. firstUsed \in (S \cap UsedBlocks) \cup {NoBlock} BY <1>1, <1>2, <1>3
  <2>2. Closed(S \cap UsedBlocks) BY <1>1, <1>2, <1>3 DEF Closed
  <2>3. S \cap UsedBlocks \in SUBSET Block BY <1>1
  <2> QED BY <1>1, <2>1, <2>2, <2>3 DEF Reaches
<1>4. Reaches(firstUsed, b)'
  <2>1. c # NoBlock BY BlocksAndNodes
  <2> QED BY <1>2, <1>3, <2>1 DEF Reaches, Closed
<1>5. ASSUME NEW y \in Block, Reaches(nextUsed[y], b)
      PROVE  Reaches(nextUsed[y], b)'
  <2> SUFFICES ASSUME NEW S \in SUBSET Block, nextUsed'[y] \in S \cup {NoBlock},
                      \A z \in S : nextUsed'[z] \in S \cup {NoBlock}
               PROVE  b \in S
    BY DEF Reaches, Closed
  <2>1. CASE c \in S BY <1>3, <2>1
  <2>2. CASE c \notin S
    <3>1. Closed(S) BY <1>2, <2>2 DEF Closed
    <3>2. CASE y = c BY <1>1, <1>2, <3>1, <3>2 DEF Reaches
    <3>3. CASE y # c BY <1>2, <1>5, <3>1, <3>3 DEF Reaches
    <3> QED BY <3>2, <3>3
  <2> QED BY <2>1, <2>2
<1> QED BY <1>4, <1>5

-----------------------------------------------------------------------------
(* The operations on the blocks.                                           *)

\* What a node is set to.
Content == [state : {"NORMAL", "WEAK"}, object : Obj, ref : Ref \cup {NoRef}]

\* What used to lead to a block with a node in use still does.
ReachStays ==
  \A b \in UsedBlocks', y \in Block :
    b \in UsedBlocks /\ Reaches(nextUsed[y], b) => Reaches(nextUsed[y], b)'

\* A block has no more nodes than its size.
LEMMA BlockHolds ==
  ASSUME NEW b \in Block, NEW T \in SUBSET {m \in Node : m[1] = b}
  PROVE  IsFiniteSet(T) /\ Cardinality(T) \in 0..BlockSize
<1> DEFINE all == {b} \X (0..(BlockSize - 1))
<1>1. IsFiniteSet({b}) /\ Cardinality({b}) = 1 BY FS_Singleton
<1>2. IsFiniteSet(0..(BlockSize - 1)) /\ Cardinality(0..(BlockSize - 1)) = BlockSize
  <2>1. 0 \in Int /\ BlockSize - 1 \in Int /\ ~(0 > BlockSize - 1)
    BY GlobalHandlesAssumption
  <2>2. (BlockSize - 1) - 0 + 1 = BlockSize BY GlobalHandlesAssumption
  <2> QED BY <2>1, <2>2, FS_Interval
<1>3. IsFiniteSet(all) /\ Cardinality(all) = 1 * BlockSize
  <2> DEFINE one == {b}
             slots == 0..(BlockSize - 1)
  <2>1. IsFiniteSet(one) /\ Cardinality(one) = 1 BY <1>1
  <2>2. IsFiniteSet(slots) /\ Cardinality(slots) = BlockSize BY <1>2
  <2>3. all = one \X slots OBVIOUS
  <2> HIDE DEF one, slots, all
  <2>4. IsFiniteSet(one \X slots) /\ Cardinality(one \X slots) = Cardinality(one) * Cardinality(slots)
    BY <2>1, <2>2, FS_Product
  <2> QED BY <2>1, <2>2, <2>3, <2>4
<1>4. T \in SUBSET all BY BlocksAndNodes DEF Node
<1>5. IsFiniteSet(T) /\ Cardinality(T) <= Cardinality(all) BY <1>3, <1>4, FS_Subset
<1>6. Cardinality(T) \in Nat BY <1>5, FS_CardinalityType
<1> QED BY <1>3, <1>5, <1>6, GlobalHandlesAssumption

\* The free nodes, with those of a new block if there are none left.
LEMMA FreeNodesAre ==
  ASSUME SpaceInv, HasMemory,
         blocks' = IF freeList = <<>> THEN blocks + 1 ELSE blocks
  PROVE  /\ FreeNodes \in Seq(Node) /\ FreeNodes # <<>> /\ IsInjective(FreeNodes)
         /\ ToSet(FreeNodes) = {m \in Node : m[1] <= blocks' /\ ~InUse(m)}
         /\ blocks' \in 0..MaxBlocks
<1>1. freeList \in Seq(Node) /\ blocks \in 0..MaxBlocks BY DEF SpaceInv, SpaceType
<1>2. CASE freeList # <<>> BY <1>1, <1>2 DEF FreeNodes, SpaceInv, FreeListed
<1>3. CASE freeList = <<>>
  <2> DEFINE new == blocks + 1
  <2>1. /\ new \in Block /\ blocks' = new /\ blocks < MaxBlocks
        /\ FreeNodes = [i \in 1..BlockSize |-> <<new, i - 1>>]
    BY <1>1, <1>3, GlobalHandlesAssumption DEF HasMemory, FreeNodes, Block
  <2> HIDE DEF new
  <2>2. \A i \in 1..BlockSize : <<new, i - 1>> \in Node
    BY <2>1, GlobalHandlesAssumption DEF Node
  <2>3. FreeNodes \in Seq(Node) /\ DOMAIN FreeNodes = 1..BlockSize
    BY <2>1, <2>2, GlobalHandlesAssumption
  <2>4. FreeNodes # <<>>
    <3>1. Len(FreeNodes) = BlockSize BY <2>3, GlobalHandlesAssumption
    <3> QED BY <3>1, GlobalHandlesAssumption
  <2>5. IsInjective(FreeNodes)
    <3> SUFFICES ASSUME NEW i \in 1..BlockSize, NEW j \in 1..BlockSize,
                        <<new, i - 1>> = <<new, j - 1>>
                 PROVE  i = j
      BY <2>1, <2>3 DEF IsInjective
    <3>1. i - 1 = j - 1 OBVIOUS
    <3> QED BY <3>1, GlobalHandlesAssumption
  <2>6. ToSet(freeList) = {} BY <1>3 DEF ToSet
  <2>7. \A m \in Node : m[1] <= blocks => InUse(m)
    BY <2>6 DEF SpaceInv, FreeListed
  <2>8. \A m \in Node : m[1] = new => ~InUse(m)
    <3> SUFFICES ASSUME NEW m \in Node, m[1] = new, InUse(m) PROVE FALSE OBVIOUS
    <3>1. new \in UsedBlocks BY <2>1 DEF UsedBlocks, UsedIn
    <3>2. new <= blocks BY <3>1 DEF SpaceInv, BlocksLinked
    <3> QED BY <1>1, <3>2 DEF new
  <2>9. ToSet(FreeNodes) = {m \in Node : m[1] = new}
    <3>1. ToSet(FreeNodes) = {<<new, i - 1>> : i \in 1..BlockSize} BY <2>1, <2>3 DEF ToSet
    <3>2. ASSUME NEW m \in Node, m[1] = new
          PROVE  m \in {<<new, i - 1>> : i \in 1..BlockSize}
      <4>1. m = <<new, m[2]>> /\ m[2] \in 0..(BlockSize - 1) BY <3>2, BlocksAndNodes
      <4>2. m[2] + 1 \in 1..BlockSize /\ (m[2] + 1) - 1 = m[2]
        BY <4>1, GlobalHandlesAssumption
      <4>3. m = <<new, (m[2] + 1) - 1>> BY <4>1, <4>2
      <4> QED BY <4>2, <4>3
    <3>3. \A i \in 1..BlockSize : <<new, i - 1>>[1] = new OBVIOUS
    <3> QED BY <2>2, <3>1, <3>2, <3>3
  <2>10. \A m \in Node : m[1] <= new <=> m[1] <= blocks \/ m[1] = new
    BY <1>1, BlocksAndNodes DEF Block, new
  <2>11. ToSet(FreeNodes) = {m \in Node : m[1] <= blocks' /\ ~InUse(m)}
    BY <2>1, <2>7, <2>8, <2>9, <2>10
  <2>12. blocks' \in 0..MaxBlocks BY <1>1, <2>1, GlobalHandlesAssumption DEF new
  <2> QED BY <2>3, <2>4, <2>5, <2>11, <2>12
<1> QED BY <1>2, <1>3

\* A node that is created was free; its block is in the list from then on.
LEMMA CreateKeepsSpace ==
  ASSUME SpaceInv, UNCHANGED iterator, NEW n, NEW content \in Content,
         CreateHandle(n, content)
  PROVE  /\ SpaceInv' /\ ReachStays
         /\ n \in Node /\ ~InUse(n) /\ nodes' = [nodes EXCEPT ![n] = content]
<1> DEFINE c == n[1]
<1>1. /\ nodes \in [Node -> [state : {"FREE", "NORMAL", "WEAK"}, object : Obj \cup {NoObj},
                             ref : Ref \cup {NoRef}]]
      /\ blocks \in 0..MaxBlocks /\ usedNodes \in [Block -> 0..BlockSize]
      /\ nextUsed \in [Block -> Block \cup {NoBlock}]
      /\ prevUsed \in [Block -> Block \cup {NoBlock}]
      /\ firstUsed \in Block \cup {NoBlock} /\ hasCallbacks \in BOOLEAN
      /\ iterator \in Node \cup {NoNode}
  BY DEF SpaceInv, SpaceType
<1>2. /\ HasMemory /\ n = Head(FreeNodes) /\ freeList' = Tail(FreeNodes)
      /\ blocks' = IF freeList = <<>> THEN blocks + 1 ELSE blocks
      /\ nodes' = [nodes EXCEPT ![n] = content]
      /\ usedNodes' = [usedNodes EXCEPT ![c] = usedNodes[c] + 1]
      /\ IF usedNodes[c] = 0 THEN ListAdd(c) ELSE UNCHANGED <<nextUsed, prevUsed, firstUsed>>
      /\ hasCallbacks' = (hasCallbacks \/ content.state = "WEAK")
  BY DEF CreateHandle
<1>3. /\ FreeNodes \in Seq(Node) /\ FreeNodes # <<>> /\ IsInjective(FreeNodes)
      /\ ToSet(FreeNodes) = {m \in Node : m[1] <= blocks' /\ ~InUse(m)}
      /\ blocks' \in 0..MaxBlocks
  BY <1>2, FreeNodesAre
<1>4. /\ n \in Node /\ freeList' \in Seq(Node) /\ IsInjective(freeList')
      /\ ToSet(freeList') = ToSet(FreeNodes) \ {n} /\ n \in ToSet(FreeNodes)
  BY <1>2, <1>3, TailHas
<1>5. ~InUse(n) /\ c <= blocks' /\ c \in Block BY <1>3, <1>4, BlocksAndNodes
<1> HIDE DEF c
<1>6. /\ nodes' \in [Node -> [state : {"FREE", "NORMAL", "WEAK"}, object : Obj \cup {NoObj},
                             ref : Ref \cup {NoRef}]]
      /\ nodes'[n] = content /\ \A m \in Node \ {n} : nodes'[m] = nodes[m]
  BY <1>1, <1>2, <1>4 DEF Content
<1>7. content.state # "FREE" BY DEF Content
<1>8. \A m \in Node : InUse(m)' <=> m = n \/ InUse(m) BY <1>4, <1>6, <1>7 DEF InUse
<1>9. /\ UsedIn(c)' = UsedIn(c) \cup {n} /\ n \notin UsedIn(c)
      /\ \A b \in Block \ {c} : UsedIn(b)' = UsedIn(b)
  BY <1>4, <1>5, <1>8 DEF UsedIn, c
<1>10. UsedBlocks' = UsedBlocks \cup {c} BY <1>5, <1>9 DEF UsedBlocks
<1>11. /\ usedNodes'[c] = usedNodes[c] + 1 /\ usedNodes[c] = Cardinality(UsedIn(c))
       /\ \A b \in Block \ {c} : usedNodes'[b] = usedNodes[b]
  BY <1>1, <1>2, <1>5 DEF SpaceInv, SpaceCounts
<1>12. SpaceCounts'
  <2>1. IsFiniteSet(UsedIn(c)) BY <1>5, BlocksAndNodes
  <2>2. Cardinality(UsedIn(c) \cup {n}) = Cardinality(UsedIn(c)) + 1
    <3> HIDE DEF c
    <3>1. n \notin UsedIn(c) BY <1>9
    <3> QED BY <2>1, <3>1, FS_AddElement
  <2>3. Cardinality(UsedIn(c)') = Cardinality(UsedIn(c)) + 1 BY <1>9, <2>2
  <2> QED BY <1>9, <1>11, <2>3 DEF SpaceInv, SpaceCounts
<1>13. usedNodes' \in [Block -> 0..BlockSize]
  <2>1. UsedIn(c)' \in SUBSET {m \in Node : m[1] = c} BY DEF UsedIn
  <2>2. usedNodes'[c] \in 0..BlockSize
    BY <1>5, <1>12, <2>1, BlockHolds DEF SpaceCounts
  <2> QED BY <1>1, <1>2, <1>11, <2>2
<1>14. FreeListed'
  <2>1. ToSet(freeList)' = {m \in Node : m[1] <= blocks' /\ ~InUse(m)'}
    BY <1>3, <1>4, <1>8 DEF ToSet
  <2>2. IsInjective(freeList)' BY <1>4 DEF IsInjective
  <2> QED BY <2>1, <2>2 DEF FreeListed
<1>15. CallbacksKnown' BY <1>1, <1>2, <1>6 DEF SpaceInv, CallbacksKnown
<1>16. blocks <= blocks' BY <1>1, <1>2
<1>17. CASE usedNodes[c] = 0
  <2>1. c \notin UsedBlocks
    <3>1. UsedIn(c) = {} BY <1>5, <1>11, <1>17, BlocksAndNodes, FS_EmptySet
    <3> QED BY <3>1 DEF UsedBlocks
  <2>2. ListAdd(c) BY <1>2, <1>17
  <2>3. /\ firstUsed' = c /\ nextUsed'[c] = firstUsed /\ prevUsed'[c] = NoBlock
        /\ \A b \in Block \ {c} :
             /\ nextUsed'[b] = nextUsed[b]
             /\ prevUsed'[b] = IF b = firstUsed THEN c ELSE prevUsed[b]
        /\ nextUsed' \in [Block -> Block \cup {NoBlock}]
        /\ prevUsed' \in [Block -> Block \cup {NoBlock}]
    BY <1>1, <1>5, <2>2 DEF ListAdd
  <2>4. SpaceType' BY <1>1, <1>3, <1>4, <1>5, <1>6, <1>13, <1>2, <2>3 DEF SpaceType
  <2>5. /\ SpaceType /\ BlocksLinked /\ firstUsed \in UsedBlocks \cup {NoBlock}
        /\ UsedBlocks \subseteq Block
    BY DEF SpaceInv, BlocksLinked, UsedBlocks
  <2>6. ASSUME NEW b \in UsedBlocks
        PROVE  /\ Reaches(firstUsed, b)'
               /\ \A y \in Block : Reaches(nextUsed[y], b) => Reaches(nextUsed[y], b)'
    BY <1>5, <2>1, <2>2, <2>5, AddKeepsReach
  <2>7. ReachStays BY <2>6 DEF ReachStays
  <2>8. Reaches(firstUsed, c)' BY <1>5, <2>3, BlocksAndNodes DEF Reaches
  <2>9. BlocksLinked'
    <3> SUFFICES ASSUME NEW b \in UsedBlocks \cup {c}
                 PROVE  /\ b <= blocks'
                        /\ \/ nextUsed'[b] = NoBlock
                           \/ /\ nextUsed'[b] \in UsedBlocks \cup {c}
                              /\ prevUsed'[nextUsed'[b]] = b
                        /\ IF b = c THEN prevUsed'[b] = NoBlock
                           ELSE /\ prevUsed'[b] \in UsedBlocks \cup {c}
                                /\ nextUsed'[prevUsed'[b]] = b
                        /\ Reaches(firstUsed, b)'
      BY <1>10, <2>3 DEF BlocksLinked
    <3>1. CASE b = c
      <4>1. firstUsed # NoBlock => firstUsed # c /\ firstUsed \in Block
        BY <2>1, <2>5
      <4> QED BY <1>5, <2>3, <2>5, <2>8, <3>1, <4>1
    <3>2. CASE b # c
      <4>1. /\ b \in UsedBlocks /\ b \in Block /\ b <= blocks
            /\ nextUsed[b] = NoBlock \/
                 (nextUsed[b] \in UsedBlocks /\ prevUsed[nextUsed[b]] = b)
            /\ IF b = firstUsed THEN prevUsed[b] = NoBlock
               ELSE prevUsed[b] \in UsedBlocks /\ nextUsed[prevUsed[b]] = b
        BY <2>5, <3>2 DEF BlocksLinked
      <4>2. b <= blocks' BY <1>1, <1>3, <1>16, <4>1 DEF Block
      <4>3. \/ nextUsed'[b] = NoBlock
            \/ nextUsed'[b] \in UsedBlocks \cup {c} /\ prevUsed'[nextUsed'[b]] = b
        <5>1. nextUsed'[b] = nextUsed[b] BY <2>3, <3>2, <4>1
        <5>2. CASE nextUsed[b] # NoBlock
          <6>1. nextUsed[b] # firstUsed
            BY <2>5, <4>1, <5>2, BlocksAndNodes DEF BlocksLinked
          <6>2. nextUsed[b] # c BY <2>1, <4>1, <5>2
          <6> QED BY <2>3, <2>5, <4>1, <5>1, <5>2, <6>1, <6>2
        <5> QED BY <5>1, <5>2
      <4>4. prevUsed'[b] \in UsedBlocks \cup {c} /\ nextUsed'[prevUsed'[b]] = b
        <5>1. CASE b = firstUsed BY <2>3, <3>2, <4>1, <5>1
        <5>2. CASE b # firstUsed
          <6>1. prevUsed'[b] = prevUsed[b] /\ prevUsed[b] # c BY <2>1, <2>3, <3>2, <4>1, <5>2
          <6> QED BY <2>3, <2>5, <4>1, <5>2, <6>1
        <5> QED BY <5>1, <5>2
      <4> QED BY <2>6, <3>2, <4>1, <4>2, <4>3, <4>4
    <3> QED BY <3>1, <3>2
  <2> QED BY <1>2, <1>4, <1>5, <1>12, <1>14, <1>15, <2>4, <2>7, <2>9 DEF SpaceInv
<1>18. CASE usedNodes[c] # 0
  <2>1. c \in UsedBlocks
    <3>1. UsedIn(c) # {} BY <1>5, <1>11, <1>18, BlocksAndNodes, FS_EmptySet
    <3> QED BY <1>5, <3>1 DEF UsedBlocks
  <2>2. UsedBlocks' = UsedBlocks /\ UNCHANGED <<nextUsed, prevUsed, firstUsed>>
    BY <1>2, <1>10, <1>18, <2>1
  <2>3. \A x \in Block \cup {NoBlock}, b \in Block : Reaches(x, b) <=> Reaches(x, b)'
    BY <2>2 DEF Reaches, Closed
  <2>4. ReachStays
    BY <1>1, <2>2 DEF ReachStays, Reaches, Closed, UsedBlocks
  <2>5. SpaceType' BY <1>1, <1>2, <1>3, <1>4, <1>6, <1>13, <2>2 DEF SpaceType
  <2>6. BlocksLinked'
    <3>1. \A b \in UsedBlocks : b <= blocks'
      BY <1>1, <1>3, <1>16 DEF SpaceInv, BlocksLinked, UsedBlocks, Block
    <3>2. \A b \in UsedBlocks : Reaches(firstUsed, b)'
      BY <2>2 DEF SpaceInv, BlocksLinked, Reaches, Closed
    <3> QED BY <2>2, <3>1, <3>2 DEF SpaceInv, BlocksLinked
  <2> QED BY <1>2, <1>4, <1>5, <1>12, <1>14, <1>15, <2>4, <2>5, <2>6 DEF SpaceInv
<1> QED BY <1>17, <1>18

\* The list without a block that has no node in use any more.
LEMMA RemovedIsLinked ==
  ASSUME SpaceType, BlocksLinked, NEW c \in UsedBlocks, ListRemove(c),
         UsedBlocks' = UsedBlocks \ {c}, UNCHANGED blocks
  PROVE  BlocksLinked' /\ ReachStays
<1>1. /\ nextUsed \in [Block -> Block \cup {NoBlock}]
      /\ prevUsed \in [Block -> Block \cup {NoBlock}]
      /\ UsedBlocks \subseteq Block /\ c \in Block /\ NoBlock \notin Block
  BY BlocksAndNodes DEF SpaceType, UsedBlocks
<1>2. /\ nextUsed' = Unlinked(c)
      /\ \A b \in Block :
           /\ nextUsed'[b] = IF b = prevUsed[c] THEN nextUsed[c] ELSE nextUsed[b]
           /\ prevUsed'[b] = IF b = nextUsed[c] THEN prevUsed[c] ELSE prevUsed[b]
      /\ firstUsed' = IF c = firstUsed THEN nextUsed[c] ELSE firstUsed
  BY DEF ListRemove, Unlinked
<1>3. /\ firstUsed \in UsedBlocks \cup {NoBlock}
      /\ \A b \in UsedBlocks :
           /\ b <= blocks
           /\ nextUsed[b] = NoBlock \/
                (nextUsed[b] \in UsedBlocks /\ prevUsed[nextUsed[b]] = b)
           /\ IF b = firstUsed THEN prevUsed[b] = NoBlock
              ELSE prevUsed[b] \in UsedBlocks /\ nextUsed[prevUsed[b]] = b
           /\ Reaches(firstUsed, b)
  BY DEF BlocksLinked
<1>4. nextUsed[c] # c /\ prevUsed[c] # c
  <2> SUFFICES ASSUME nextUsed[c] = c PROVE FALSE BY <1>1, <1>3
  <2>1. prevUsed[c] = c /\ firstUsed # c BY <1>1, <1>3
  <2>2. Closed(UsedBlocks \ {c}) BY <1>1, <1>3, <2>1 DEF Closed
  <2>3. firstUsed \in (UsedBlocks \ {c}) \cup {NoBlock} BY <1>3, <2>1
  <2>4. UsedBlocks \ {c} \in SUBSET Block BY <1>1
  <2> QED BY <1>3, <2>2, <2>3, <2>4 DEF Reaches
<1>5. ASSUME NEW b \in Block, b # c
      PROVE  /\ \A x \in Block \cup {NoBlock} : Reaches(x, b) => Reaches(x, b)'
             /\ \A y \in Block : Reaches(nextUsed[y], b) => Reaches(nextUsed[y], b)'
  BY <1>2, <1>5, RemoveKeepsReach
<1>6. ReachStays BY <1>1, <1>5 DEF ReachStays
<1>7. firstUsed' \in (UsedBlocks \ {c}) \cup {NoBlock} BY <1>2, <1>3, <1>4
<1>8. ASSUME NEW b \in UsedBlocks \ {c}
      PROVE  /\ b <= blocks
             /\ \/ nextUsed'[b] = NoBlock
                \/ nextUsed'[b] \in UsedBlocks \ {c} /\ prevUsed'[nextUsed'[b]] = b
             /\ IF b = firstUsed' THEN prevUsed'[b] = NoBlock
                ELSE prevUsed'[b] \in UsedBlocks \ {c} /\ nextUsed'[prevUsed'[b]] = b
             /\ Reaches(firstUsed, b)'
  <2>1. b \in Block /\ b # c /\ b \in UsedBlocks /\ b <= blocks BY <1>1, <1>3
  <2>2. \/ nextUsed'[b] = NoBlock
        \/ nextUsed'[b] \in UsedBlocks \ {c} /\ prevUsed'[nextUsed'[b]] = b
    <3>1. CASE b = prevUsed[c]
      <4>1. nextUsed'[b] = nextUsed[c] BY <1>2, <2>1, <3>1
      <4> QED BY <1>1, <1>2, <1>3, <1>4, <2>1, <3>1, <4>1
    <3>2. CASE b # prevUsed[c] /\ nextUsed[b] # NoBlock
      <4>1. nextUsed'[b] = nextUsed[b] BY <1>2, <2>1, <3>2
      <4>2. /\ nextUsed[b] \in UsedBlocks /\ prevUsed[nextUsed[b]] = b
            /\ nextUsed[b] # c /\ nextUsed[b] # nextUsed[c]
        BY <1>1, <1>3, <2>1, <3>2
      <4> QED BY <1>1, <1>2, <4>1, <4>2
    <3>3. CASE b # prevUsed[c] /\ nextUsed[b] = NoBlock BY <1>2, <2>1, <3>3
    <3> QED BY <3>1, <3>2, <3>3
  <2>3. ASSUME b = firstUsed' PROVE prevUsed'[b] = NoBlock
    <3>1. CASE c = firstUsed BY <1>2, <1>3, <2>1, <2>3, <3>1
    <3>2. CASE c # firstUsed
      <4>1. b = firstUsed /\ prevUsed[b] = NoBlock BY <1>2, <1>3, <2>1, <2>3, <3>2
      <4>2. b # nextUsed[c] BY <1>1, <1>3, <2>1, <4>1
      <4> QED BY <1>2, <2>1, <4>1, <4>2
    <3> QED BY <3>1, <3>2
  <2>4. ASSUME b # firstUsed'
        PROVE  prevUsed'[b] \in UsedBlocks \ {c} /\ nextUsed'[prevUsed'[b]] = b
    <3>1. b # firstUsed BY <1>2, <2>1, <2>4
    <3>2. prevUsed[b] \in UsedBlocks /\ nextUsed[prevUsed[b]] = b BY <1>3, <2>1, <3>1
    <3>3. CASE b = nextUsed[c]
      <4>1. c # firstUsed BY <1>2, <2>4, <3>3
      <4>2. prevUsed[c] \in UsedBlocks /\ prevUsed[c] # c /\ prevUsed'[b] = prevUsed[c]
        BY <1>2, <1>3, <1>4, <2>1, <3>3, <4>1
      <4> QED BY <1>1, <1>2, <3>3, <4>2
    <3>4. CASE b # nextUsed[c]
      <4>1. /\ prevUsed'[b] = prevUsed[b] /\ prevUsed[b] # c
            /\ prevUsed[b] # prevUsed[c]
        <5>1. prevUsed'[b] = prevUsed[b] /\ prevUsed[b] # c BY <1>2, <2>1, <3>2, <3>4
        <5>2. prevUsed[b] # prevUsed[c]
          <6>1. CASE c = firstUsed BY <1>1, <1>3, <3>2, <6>1
          <6>2. CASE c # firstUsed BY <1>3, <2>1, <3>2, <6>2
          <6> QED BY <6>1, <6>2
        <5> QED BY <5>1, <5>2
      <4> QED BY <1>1, <1>2, <3>2, <4>1
    <3> QED BY <3>3, <3>4
  <2>5. Reaches(firstUsed, b)'
    <3>1. PICK x \in Block \cup {NoBlock} : x = firstUsed' /\ Reaches(x, b)
      <4>1. CASE c = firstUsed
        <5>1. Reaches(nextUsed[c], b) BY <1>1, <1>3, <2>1, <4>1, ReachesNext
        <5> QED BY <1>1, <1>2, <4>1, <5>1
      <4>2. CASE c # firstUsed BY <1>1, <1>2, <1>3, <2>1, <4>2
      <4> QED BY <4>1, <4>2
    <3>2. Reaches(x, b)' BY <1>5, <2>1, <3>1
    <3> QED BY <3>1, <3>2 DEF Reaches
  <2> QED BY <2>1, <2>2, <2>3, <2>4, <2>5
<1>9. BlocksLinked' BY <1>7, <1>8 DEF BlocksLinked
<1> QED BY <1>6, <1>9

\* A node that is destroyed is free; its block leaves the list with its last node.
LEMMA DestroyKeepsSpace ==
  ASSUME SpaceInv, UNCHANGED iterator, NEW n \in Node, InUse(n), DestroyHandle(n)
  PROVE  SpaceInv' /\ ReachStays /\ nodes' = [nodes EXCEPT ![n] = Free]
<1> DEFINE c == n[1]
<1>1. /\ nodes \in [Node -> [state : {"FREE", "NORMAL", "WEAK"}, object : Obj \cup {NoObj},
                             ref : Ref \cup {NoRef}]]
      /\ freeList \in Seq(Node)
      /\ blocks \in 0..MaxBlocks /\ usedNodes \in [Block -> 0..BlockSize]
      /\ nextUsed \in [Block -> Block \cup {NoBlock}]
      /\ prevUsed \in [Block -> Block \cup {NoBlock}]
      /\ firstUsed \in Block \cup {NoBlock} /\ hasCallbacks \in BOOLEAN
      /\ iterator \in Node \cup {NoNode}
  BY DEF SpaceInv, SpaceType
<1>2. /\ freeList' = <<n>> \o freeList
      /\ nodes' = [nodes EXCEPT ![n] = Free]
      /\ usedNodes' = [usedNodes EXCEPT ![c] = usedNodes[c] - 1]
      /\ IF usedNodes[c] = 1
           THEN ListRemove(c) ELSE UNCHANGED <<nextUsed, prevUsed, firstUsed>>
      /\ UNCHANGED <<blocks, hasCallbacks>>
  BY BlocksAndNodes DEF DestroyHandle
<1>3. c \in Block /\ n \in UsedIn(c) BY BlocksAndNodes DEF UsedIn
<1>4. c \in UsedBlocks /\ c <= blocks
  BY <1>3 DEF UsedBlocks, SpaceInv, BlocksLinked
<1> HIDE DEF c
<1>5. /\ Free \in [state : {"FREE", "NORMAL", "WEAK"}, object : Obj \cup {NoObj},
                   ref : Ref \cup {NoRef}]
      /\ Free.state = "FREE"
  BY DEF Free
<1>6. /\ nodes' \in [Node -> [state : {"FREE", "NORMAL", "WEAK"}, object : Obj \cup {NoObj},
                             ref : Ref \cup {NoRef}]]
      /\ nodes'[n] = Free /\ \A m \in Node \ {n} : nodes'[m] = nodes[m]
  BY <1>1, <1>2, <1>5
<1>7. \A m \in Node : InUse(m)' <=> m # n /\ InUse(m) BY <1>5, <1>6 DEF InUse
<1>8. /\ UsedIn(c)' = UsedIn(c) \ {n}
      /\ \A b \in Block \ {c} : UsedIn(b)' = UsedIn(b)
  BY <1>7 DEF UsedIn, c
<1>9. /\ usedNodes'[c] = usedNodes[c] - 1 /\ usedNodes[c] = Cardinality(UsedIn(c))
      /\ \A b \in Block \ {c} : usedNodes'[b] = usedNodes[b]
  BY <1>1, <1>2, <1>3 DEF SpaceInv, SpaceCounts
<1>10. IsFiniteSet(UsedIn(c)) /\ IsFiniteSet(UsedIn(c)') /\
       Cardinality(UsedIn(c)') = Cardinality(UsedIn(c)) - 1
  BY <1>3, <1>8, BlocksAndNodes, FS_RemoveElement
<1>11. SpaceCounts' BY <1>8, <1>9, <1>10 DEF SpaceInv, SpaceCounts
<1>12. usedNodes' \in [Block -> 0..BlockSize]
  <2>1. UsedIn(c)' \in SUBSET {m \in Node : m[1] = c} BY DEF UsedIn
  <2>2. usedNodes'[c] \in 0..BlockSize
    BY <1>3, <1>11, <2>1, BlockHolds DEF SpaceCounts
  <2> QED BY <1>1, <1>2, <1>9, <2>2
<1>13. freeList' \in Seq(Node) /\ FreeListed'
  <2>1. /\ IsInjective(freeList) /\ ToSet(freeList) = {m \in Node : m[1] <= blocks /\ ~InUse(m)}
    BY DEF SpaceInv, FreeListed
  <2>2. n \notin ToSet(freeList) BY <2>1
  <2>3. /\ <<n>> \o freeList \in Seq(Node) /\ IsInjective(<<n>> \o freeList)
        /\ ToSet(<<n>> \o freeList) = ToSet(freeList) \cup {n}
    BY <1>1, <2>1, <2>2, ConsHas
  <2>4. ToSet(freeList') = {m \in Node : m[1] <= blocks' /\ ~InUse(m)'}
    BY <1>2, <1>4, <1>7, <2>1, <2>3 DEF c
  <2>5. ToSet(freeList)' = ToSet(freeList') BY DEF ToSet
  <2>6. IsInjective(freeList)' BY <1>2, <2>3 DEF IsInjective
  <2> QED BY <1>2, <2>3, <2>4, <2>5, <2>6 DEF FreeListed
<1>14. CallbacksKnown' BY <1>1, <1>2, <1>5, <1>6 DEF SpaceInv, CallbacksKnown
<1>15. CASE usedNodes[c] = 1
  <2>1. UsedIn(c)' = {} BY <1>9, <1>10, <1>15, FS_EmptySet
  <2>2. UsedBlocks' = UsedBlocks \ {c} BY <1>8, <2>1 DEF UsedBlocks
  <2>3. ListRemove(c) BY <1>2, <1>15
  <2>4. BlocksLinked' /\ ReachStays
    BY <1>2, <1>4, <2>2, <2>3, RemovedIsLinked DEF SpaceInv
  <2>5. /\ nextUsed' \in [Block -> Block \cup {NoBlock}]
        /\ prevUsed' \in [Block -> Block \cup {NoBlock}]
        /\ firstUsed' \in Block \cup {NoBlock}
    BY <1>1, <1>3, <2>3 DEF ListRemove, Unlinked
  <2>6. SpaceType' BY <1>1, <1>2, <1>6, <1>12, <1>13, <2>5 DEF SpaceType
  <2> QED BY <1>2, <1>11, <1>13, <1>14, <2>4, <2>6 DEF SpaceInv
<1>16. CASE usedNodes[c] # 1
  <2>1. UsedIn(c)' # {}
    <3>1. usedNodes[c] \in Nat BY <1>1, <1>3, GlobalHandlesAssumption
    <3> QED BY <1>9, <1>10, <1>16, <3>1, FS_EmptySet
  <2>2. UsedBlocks' = UsedBlocks BY <1>3, <1>4, <1>8, <2>1 DEF UsedBlocks
  <2>3. UNCHANGED <<nextUsed, prevUsed, firstUsed>> BY <1>2, <1>16
  <2>4. ReachStays BY <2>3 DEF ReachStays, Reaches, Closed
  <2>5. BlocksLinked' BY <1>2, <2>2, <2>3 DEF SpaceInv, BlocksLinked, Reaches, Closed
  <2>6. SpaceType' BY <1>1, <1>2, <1>6, <1>12, <1>13, <2>3 DEF SpaceType
  <2> QED BY <1>2, <1>11, <1>13, <1>14, <2>4, <2>5, <2>6 DEF SpaceInv
<1> QED BY <1>15, <1>16

\* A node that is made weak or strong stays where it is.
LEMMA SetKeepsSpace ==
  ASSUME SpaceInv, UNCHANGED iterator, NEW n \in Node, InUse(n), NEW content \in Content,
         SetHandle(n, content)
  PROVE  SpaceInv' /\ ReachStays /\ nodes' = [nodes EXCEPT ![n] = content]
<1>1. /\ nodes \in [Node -> [state : {"FREE", "NORMAL", "WEAK"}, object : Obj \cup {NoObj},
                             ref : Ref \cup {NoRef}]]
      /\ hasCallbacks \in BOOLEAN
  BY DEF SpaceInv, SpaceType
<1>2. /\ nodes' = [nodes EXCEPT ![n] = content]
      /\ hasCallbacks' = (hasCallbacks \/ content.state = "WEAK")
      /\ UNCHANGED <<freeList, blocks, usedNodes, nextUsed, prevUsed, firstUsed>>
  BY BlocksAndNodes DEF SetHandle
<1>3. content.state # "FREE" BY DEF Content
<1>4. /\ nodes' \in [Node -> [state : {"FREE", "NORMAL", "WEAK"}, object : Obj \cup {NoObj},
                             ref : Ref \cup {NoRef}]]
      /\ nodes'[n] = content /\ \A m \in Node \ {n} : nodes'[m] = nodes[m]
  BY <1>1, <1>2 DEF Content
<1>5. \A m \in Node : InUse(m)' <=> InUse(m) BY <1>3, <1>4 DEF InUse
<1>6. \A b \in Block : UsedIn(b)' = UsedIn(b) BY <1>5 DEF UsedIn
<1>7. UsedBlocks' = UsedBlocks BY <1>6 DEF UsedBlocks
<1>8. SpaceType' BY <1>1, <1>2, <1>4 DEF SpaceInv, SpaceType
<1>9. SpaceCounts' BY <1>2, <1>6 DEF SpaceInv, SpaceCounts
<1>10. FreeListed' BY <1>2, <1>5 DEF SpaceInv, FreeListed, IsInjective, ToSet
<1>11. BlocksLinked' BY <1>2, <1>7 DEF SpaceInv, BlocksLinked, Reaches, Closed
<1>12. CallbacksKnown' BY <1>1, <1>2, <1>4 DEF SpaceInv, CallbacksKnown
<1>13. ReachStays BY <1>2 DEF ReachStays, Reaches, Closed
<1> QED BY <1>2, <1>8, <1>9, <1>10, <1>11, <1>12, <1>13 DEF SpaceInv

\* Nothing changes in the blocks.
LEMMA SameSpace ==
  ASSUME SpaceInv, UNCHANGED space, iterator' \in Node \cup {NoNode}
  PROVE  SpaceInv' /\ ReachStays
<1>1. \A m \in Node : InUse(m)' <=> InUse(m) BY DEF InUse, space
<1>2. \A b \in Block : UsedIn(b)' = UsedIn(b) BY <1>1 DEF UsedIn
<1>3. UsedBlocks' = UsedBlocks BY <1>2 DEF UsedBlocks
<1>4. SpaceType' BY DEF SpaceInv, SpaceType, space
<1>5. SpaceCounts' BY <1>2 DEF SpaceInv, SpaceCounts, space
<1>6. FreeListed' BY <1>1 DEF SpaceInv, FreeListed, IsInjective, ToSet, space
<1>7. BlocksLinked' BY <1>3 DEF SpaceInv, BlocksLinked, Reaches, Closed, space
<1>8. CallbacksKnown' BY DEF SpaceInv, CallbacksKnown, space
<1>9. ReachStays BY DEF ReachStays, Reaches, Closed, space
<1> QED BY <1>4, <1>5, <1>6, <1>7, <1>8, <1>9 DEF SpaceInv

-----------------------------------------------------------------------------
(* The operations on the handles of references.                            *)

\* What a reference is.
Record == [
  linked : BOOLEAN, refcount : 0..MaxCount, delete_self : BOOLEAN, finalize_ran : BOOLEAN,
  callback : BOOLEAN, handle : Node \cup {NoNode}, given : BOOLEAN, wanted : BOOLEAN,
  called : 0..1]

\* What the invariant says of the types.
LEMMA TypesAre ==
  ASSUME RefInv
  PROVE  /\ reference \in [Ref -> Record]
         /\ held \subseteq alloc /\ alloc \subseteq Obj /\ marked \subseteq Obj
         /\ NoObj \notin Obj /\ NoRef \notin Ref
         /\ gc \in {"off", "walk", "call", "return"}
         /\ closing \in {"no", "lists", "call", "return", "closed"}
         /\ dying \in Ref \cup {NoRef} /\ closed \in Ref \cup {NoRef}
         /\ iterator \in Node \cup {NoNode}
         /\ nodes \in [Node -> [state : {"FREE", "NORMAL", "WEAK"}, object : Obj \cup {NoObj},
                                ref : Ref \cup {NoRef}]]
BY GlobalHandlesAssumption DEF RefInv, TypeOK, SpaceType, Record

\* A node that is the handle of a reference is that of no other, and refers to an object.
LEMMA HandleIs ==
  ASSUME RefInv, NEW r \in Ref, Handle(r) # NoNode
  PROVE  /\ Handle(r) \in Node /\ InUse(Handle(r)) /\ r \in Linked
         /\ Target(r) = nodes[Handle(r)].object /\ Target(r) \in alloc
         /\ reference[r].called = 0
         /\ nodes[Handle(r)] = IF reference[r].refcount = 0
                                 THEN Weak(Target(r), r) ELSE Normal(Target(r))
         /\ \A s \in Ref \ {r} : Handle(s) # Handle(r)
<1>1. Handle(r) \in Node BY TypesAre DEF Handle, Record
<1>2. /\ InUse(Handle(r)) /\ reference[r].called = 0
      /\ nodes[Handle(r)] = IF reference[r].refcount = 0
                              THEN Weak(Target(r), r) ELSE Normal(Target(r))
      /\ \A s \in Ref \ {r} : Handle(s) # Handle(r)
  BY DEF RefInv, HandlesOwned
<1>3. Target(r) = nodes[Handle(r)].object BY DEF Target
<1>4. Target(r) \in alloc BY <1>1, <1>2, <1>3 DEF RefInv, CollectionInv
<1>5. r \in Linked
  <2>1. reference[r] # Freed BY DEF Handle, Freed
  <2> QED BY <2>1 DEF RefInv, RefsConsistent, Linked
<1> QED BY <1>1, <1>2, <1>3, <1>4, <1>5

\* Destroy does nothing with no handle.
LEMMA DestroyOrNot ==
  ASSUME SpaceInv, UNCHANGED iterator, NEW h \in Node \cup {NoNode},
         h # NoNode => InUse(h), DestroyHandle(h)
  PROVE  /\ SpaceInv' /\ ReachStays
         /\ \A m \in Node : nodes'[m] = IF m = h THEN Free ELSE nodes[m]
<1>1. CASE h = NoNode
  <2>1. UNCHANGED space BY <1>1 DEF DestroyHandle
  <2>2. iterator \in Node \cup {NoNode} BY DEF SpaceInv, SpaceType
  <2>3. SpaceInv' /\ ReachStays BY <2>1, <2>2, SameSpace
  <2> QED BY <1>1, <2>1, <2>3, BlocksAndNodes DEF space
<1>2. CASE h # NoNode
  <2>1. SpaceInv' /\ ReachStays /\ nodes' = [nodes EXCEPT ![h] = Free]
    BY <1>2, DestroyKeepsSpace
  <2>2. nodes = [m \in Node |-> nodes[m]] BY DEF SpaceInv, SpaceType
  <2> QED BY <1>2, <2>1, <2>2
<1> QED BY <1>1, <1>2

\* SetWeak and ClearWeak do nothing with no handle.
LEMMA SetOrNot ==
  ASSUME SpaceInv, UNCHANGED iterator, NEW h \in Node \cup {NoNode}, NEW content,
         h # NoNode => InUse(h) /\ content \in Content, SetHandle(h, content)
  PROVE  /\ SpaceInv' /\ ReachStays
         /\ \A m \in Node : nodes'[m] = IF m = h THEN content ELSE nodes[m]
<1>1. CASE h = NoNode
  <2>1. UNCHANGED space BY <1>1 DEF SetHandle
  <2>2. iterator \in Node \cup {NoNode} BY DEF SpaceInv, SpaceType
  <2>3. SpaceInv' /\ ReachStays BY <2>1, <2>2, SameSpace
  <2> QED BY <1>1, <2>1, <2>3, BlocksAndNodes DEF space
<1>2. CASE h # NoNode
  <2>1. SpaceInv' /\ ReachStays /\ nodes' = [nodes EXCEPT ![h] = content]
    BY <1>2, SetKeepsSpace
  <2>2. nodes = [m \in Node |-> nodes[m]] BY DEF SpaceInv, SpaceType
  <2> QED BY <1>2, <2>1, <2>2
<1> QED BY <1>1, <1>2

\* Whatever a callback does to one node, the collection is not disturbed.
LEMMA CollectionKept ==
  ASSUME RefInv, SpaceInv', ReachStays,
         UNCHANGED <<alloc, held, marked, gc, iterator>>,
         NEW h, \A m \in Node : m # h => nodes'[m] = nodes[m],
         h \in Node => \/ nodes'[h].state = "FREE"
                       \/ /\ nodes'[h].object \in alloc
                          /\ gc # "off" => nodes'[h].object \in marked
  PROVE  CollectionInv'
<1>1. \A n \in Node : InUse(n)' => nodes'[n].object \in alloc
  BY DEF RefInv, CollectionInv, InUse
<1>2. ASSUME gc # "off"
      PROVE  /\ \A n \in Node : nodes'[n].state = "NORMAL" => nodes'[n].object \in marked
             /\ DeadAreAhead'
  <2>1. \A n \in Node : IsDead(n)' => IsDead(n) /\ InUse(n) /\ InUse(n)'
    BY <1>2 DEF IsDead, InUse
  <2>2. DeadAreAhead'
    <3> SUFFICES ASSUME NEW n \in Node, IsDead(n)'
                 PROVE  /\ gc = "walk" => Ahead(iterator[1], iterator[2], n)'
                        /\ gc \in {"call", "return"} =>
                             Ahead(iterator[1], iterator[2] + 1, n)'
      BY DEF DeadAreAhead
    <3>1. IsDead(n) /\ InUse(n) /\ InUse(n)' BY <2>1
    <3>2. /\ gc = "walk" => Ahead(iterator[1], iterator[2], n)
          /\ gc \in {"call", "return"} => Ahead(iterator[1], iterator[2] + 1, n)
      BY <1>2, <3>1 DEF RefInv, CollectionInv, DeadAreAhead
    <3>3. n[1] \in Block /\ n[1] # NoBlock BY BlocksAndNodes
    <3>4. gc \in {"walk", "call", "return"} => iterator[1] \in Block
      <4>1. iterator \in Node \cup {NoNode} BY TypesAre
      <4>2. CASE iterator = NoNode
        <5>1. iterator[1] = NoBlock BY <4>2 DEF NoNode
        <5>2. ~Ahead(iterator[1], iterator[2], n) /\ ~Ahead(iterator[1], iterator[2] + 1, n)
          BY <3>3, <5>1 DEF Ahead
        <5> QED BY <3>2, <5>2
      <4>3. CASE iterator \in Node BY <4>3, BlocksAndNodes
      <4> QED BY <4>1, <4>2, <4>3
    <3>5. ASSUME gc \in {"walk", "call", "return"}, NEW i, Ahead(iterator[1], i, n)
          PROVE  (n[1] = iterator[1] /\ n[2] >= i) \/
                 (iterator[1] # NoBlock /\ Reaches(nextUsed[iterator[1]], n[1])')
      <4>1. iterator[1] \in Block BY <3>4, <3>5
      <4>2. n[1] \in UsedBlocks /\ n[1] \in UsedBlocks'
        BY <3>1, <3>3 DEF UsedBlocks, UsedIn
      <4> QED BY <3>5, <4>1, <4>2 DEF Ahead, ReachStays
    <3> QED BY <3>2, <3>5 DEF Ahead
  <2> QED BY <1>2, <2>2 DEF RefInv, CollectionInv
<1> QED BY <1>1, <1>2 DEF RefInv, CollectionInv

\* A reference loses its handle, and the others keep theirs.
LEMMA HandleLost ==
  ASSUME RefInv, NEW r \in Ref, NEW rec \in Record,
         reference' = [reference EXCEPT ![r] = rec], rec.handle = NoNode, rec.refcount = 0,
         \A m \in Node : nodes'[m] = IF m = Handle(r) THEN Free ELSE nodes[m]
  PROVE  /\ HandlesOwned' /\ reference' \in [Ref -> Record]
         /\ reference'[r] = rec /\ \A s \in Ref \ {r} : reference'[s] = reference[s]
         /\ Target(r)' = NoObj /\ \A s \in Ref \ {r} : Target(s)' = Target(s)
<1>1. /\ reference \in [Ref -> Record] /\ reference' \in [Ref -> Record]
      /\ reference'[r] = rec /\ \A s \in Ref \ {r} : reference'[s] = reference[s]
  BY TypesAre
<1>2. Handle(r)' = NoNode /\ \A s \in Ref \ {r} : Handle(s)' = Handle(s)
  BY <1>1 DEF Handle
<1>3. ASSUME NEW s \in Ref \ {r}, Handle(s) # NoNode
      PROVE  nodes'[Handle(s)] = nodes[Handle(s)] /\ Target(s)' = Target(s)
  <2>1. Handle(s) \in Node /\ Handle(s) # Handle(r) BY <1>3, HandleIs
  <2> QED BY <1>2, <1>3, <2>1 DEF Target
<1>4. Target(r)' = NoObj /\ \A s \in Ref \ {r} : Target(s)' = Target(s)
  BY <1>2, <1>3 DEF Target
<1>5. ASSUME NEW n \in Node, InUse(n)'
      PROVE  \E s \in Linked' : Handle(s)' = n
  <2>1. n # Handle(r) /\ InUse(n) BY <1>5 DEF InUse, Free
  <2>2. PICK s \in Linked : Handle(s) = n BY <2>1 DEF RefInv, HandlesOwned
  <2>3. s \in Ref \ {r} BY <2>1, <2>2 DEF Linked
  <2>4. s \in Linked' BY <1>1, <2>2, <2>3 DEF Linked
  <2> QED BY <1>2, <2>2, <2>3, <2>4
<1>6. ASSUME NEW s \in Ref
      PROVE  IF Handle(s)' = NoNode THEN reference'[s].refcount = 0
             ELSE /\ InUse(Handle(s))' /\ reference'[s].called = 0
                  /\ nodes'[Handle(s)'] = IF reference'[s].refcount = 0
                       THEN Weak(Target(s)', s) ELSE Normal(Target(s)')
                  /\ \A u \in Ref \ {s} : Handle(u)' # Handle(s)'
  <2>1. CASE s = r BY <1>1, <1>2, <2>1
  <2>2. CASE s # r /\ Handle(s) = NoNode
    BY <1>1, <1>2, <2>2 DEF RefInv, HandlesOwned
  <2>3. CASE s # r /\ Handle(s) # NoNode
    <3>1. /\ Handle(s) \in Node /\ InUse(Handle(s)) /\ reference[s].called = 0
          /\ nodes[Handle(s)] = IF reference[s].refcount = 0
                                  THEN Weak(Target(s), s) ELSE Normal(Target(s))
          /\ \A u \in Ref \ {s} : Handle(u) # Handle(s)
      BY <2>3, HandleIs
    <3>2. /\ Handle(s)' = Handle(s) /\ reference'[s] = reference[s]
          /\ nodes'[Handle(s)] = nodes[Handle(s)] /\ Target(s)' = Target(s)
      BY <1>1, <1>2, <1>3, <2>3
    <3>3. InUse(Handle(s))' BY <3>1, <3>2 DEF InUse
    <3>4. \A u \in Ref \ {s} : Handle(u)' # Handle(s)' BY <1>2, <2>3, <3>1, <3>2
    <3> QED BY <2>3, <3>1, <3>2, <3>3, <3>4
  <2> QED BY <2>1, <2>2, <2>3
<1>7. HandlesOwned' BY <1>5, <1>6 DEF HandlesOwned
<1> QED BY <1>1, <1>4, <1>7

-----------------------------------------------------------------------------
(* JavaScript and the module.                                              *)

\* Nothing changes in the blocks and the references.
LEMMA SameRefs ==
  ASSUME RefInv, UNCHANGED <<space, reference>>, iterator' \in Node \cup {NoNode},
         closing # "no" => closing' # "no"
  PROVE  /\ SpaceInv' /\ ReachStays /\ RefsConsistent' /\ HandlesOwned'
         /\ \A r \in Ref : Target(r)' = Target(r) /\ Handle(r)' = Handle(r)
         /\ Linked' = Linked
<1>1. SpaceInv' /\ ReachStays BY SameSpace DEF RefInv
<1>2. \A r \in Ref : Target(r)' = Target(r) /\ Handle(r)' = Handle(r)
  BY DEF Target, Handle, space
<1>3. Linked' = Linked BY DEF Linked
<1>4. RefsConsistent' BY DEF RefInv, RefsConsistent
<1>5. HandlesOwned'
  <2>1. nodes' = nodes /\ reference' = reference BY DEF space
  <2>2. HandlesOwned BY DEF RefInv
  <2>3. \A n \in Node : InUse(n)' <=> InUse(n) BY <2>1 DEF InUse
  <2>4. ASSUME NEW n \in Node, InUse(n)' PROVE \E r \in Linked' : Handle(r)' = n
    <3>1. PICK r \in Linked : Handle(r) = n BY <2>2, <2>3, <2>4 DEF HandlesOwned
    <3>2. r \in Ref BY DEF Linked
    <3> QED BY <1>2, <1>3, <3>1, <3>2
  <2>5. ASSUME NEW r \in Ref
        PROVE  IF Handle(r)' = NoNode THEN reference'[r].refcount = 0
               ELSE /\ InUse(Handle(r))' /\ reference'[r].called = 0
                    /\ nodes'[Handle(r)'] = IF reference'[r].refcount = 0
                         THEN Weak(Target(r)', r) ELSE Normal(Target(r)')
                    /\ \A u \in Ref \ {r} : Handle(u)' # Handle(r)'
    <3>1. IF Handle(r) = NoNode THEN reference[r].refcount = 0
          ELSE /\ InUse(Handle(r)) /\ reference[r].called = 0
               /\ nodes[Handle(r)] = IF reference[r].refcount = 0
                    THEN Weak(Target(r), r) ELSE Normal(Target(r))
               /\ \A u \in Ref \ {r} : Handle(u) # Handle(r)
      BY <2>2 DEF HandlesOwned
    <3>2. InUse(Handle(r))' <=> InUse(Handle(r)) BY <1>2, <2>1 DEF InUse
    <3> QED BY <1>2, <2>1, <3>1, <3>2
  <2> QED BY <2>4, <2>5 DEF HandlesOwned
<1> QED BY <1>1, <1>2, <1>3, <1>4, <1>5

\* What JavaScript allocates, drops and gets back from a reference is allocated, and marked
\* if a collection is on.
LEMMA MutatorKeeps ==
  ASSUME RefInv, Available = TRUE, NEW o,
         \/ o \in Obj /\ (Allocate(o) \/ Drop(o))
         \/ o \in Ref /\ napi_get_reference_value(o)
  PROVE  RefInv'
<1>1. UNCHANGED <<space, reference, marked, collecting, ending>>
  BY DEF Allocate, Drop, napi_get_reference_value
<1>2. UNCHANGED <<gc, dying, iterator, closing, closed>> BY <1>1 DEF collecting, ending
<1>3. /\ SpaceInv' /\ ReachStays /\ RefsConsistent' /\ HandlesOwned'
      /\ \A r \in Ref : Target(r)' = Target(r) /\ Handle(r)' = Handle(r)
      /\ Linked' = Linked
  BY <1>1, <1>2, TypesAre, SameRefs
<1>4. held' \subseteq alloc' /\ alloc' \subseteq Obj /\ alloc \subseteq alloc'
  <2>1. CASE o \in Obj /\ Allocate(o) BY <2>1, TypesAre DEF Allocate
  <2>2. CASE o \in Obj /\ Drop(o) BY <2>2, TypesAre DEF Drop
  <2>3. CASE o \in Ref /\ napi_get_reference_value(o)
    <3>1. Target(o) \in alloc BY <2>3, HandleIs DEF napi_get_reference_value
    <3> QED BY <2>3, <3>1, TypesAre DEF napi_get_reference_value
  <2> QED BY <2>1, <2>2, <2>3
<1>5. TypeOK'
  <2>1. SpaceType' BY <1>3 DEF SpaceInv
  <2> QED BY <1>1, <1>2, <1>4, <2>1, TypesAre DEF TypeOK, Record
<1>6. FinalizedStay'
  <2>1. FinalizedStay BY DEF RefInv
  <2>2. \A r, b : Finalizing(r, b)' <=> Finalizing(r, b)
    BY <1>1, <1>3 DEF Finalizing, Handle
  <2> QED BY <1>2, <2>1, <2>2 DEF FinalizedStay, Finalizing
<1>7. gc # "off" => alloc' = alloc /\ held' \subseteq marked
  <2> SUFFICES ASSUME gc # "off" PROVE alloc' = alloc /\ held' \subseteq marked OBVIOUS
  <2>1. held \subseteq marked BY DEF RefInv, CollectionInv
  <2>2. CASE o \in Obj /\ Allocate(o) BY <2>2 DEF Allocate, Running
  <2>3. CASE o \in Obj /\ Drop(o) BY <2>1, <2>3 DEF Drop
  <2>4. CASE o \in Ref /\ napi_get_reference_value(o)
    BY <2>1, <2>4 DEF napi_get_reference_value, HasTarget
  <2> QED BY <2>2, <2>3, <2>4
<1>8. /\ nodes' = nodes /\ nextUsed' = nextUsed /\ marked' = marked
      /\ gc' = gc /\ iterator' = iterator
  BY <1>1, <1>2 DEF space
<1>9. CollectionInv'
  <2>1. CollectionInv BY DEF RefInv
  <2>2. DeadAreAhead => DeadAreAhead'
    BY <1>8 DEF DeadAreAhead, IsDead, Ahead, Reaches, Closed
  <2> QED BY <1>4, <1>7, <1>8, <2>1, <2>2 DEF CollectionInv, InUse
<1> QED BY <1>3, <1>5, <1>6, <1>9 DEF RefInv

\* While a module runs, the references being finalized are not freed.
LEMMA FinalizedKept ==
  ASSUME RefInv, UNCHANGED <<gc, dying, closing, closed>>, NEW r \in Ref, NEW rec \in Record,
         reference'[r] = rec, \A s \in Ref \ {r} : reference'[s] = reference[s],
         r \in {dying, closed} =>
           /\ rec.linked /\ rec.handle = NoNode /\ ~rec.callback /\ ~rec.finalize_ran
           /\ rec.given => ~rec.delete_self
  PROVE  FinalizedStay'
<1>1. /\ IF gc \in {"call", "return"} THEN Finalizing(dying, gc = "call") ELSE dying = NoRef
      /\ IF closing \in {"call", "return"} THEN Finalizing(closed, closing = "call")
         ELSE closed = NoRef
      /\ dying = closed => dying = NoRef
      /\ gc # "off" => closing \in {"no", "call"}
  BY DEF RefInv, FinalizedStay
<1>2. ASSUME NEW s \in {dying, closed}, NEW b \in BOOLEAN, Finalizing(s, b)
      PROVE  Finalizing(s, b)'
  <2>1. s \in Ref BY <1>2 DEF Finalizing, Linked
  <2>2. CASE s = r BY <2>2 DEF Finalizing, Linked, Handle
  <2>3. CASE s # r
    <3>1. reference'[s] = reference[s] BY <2>1, <2>3
    <3> QED BY <1>2, <2>1, <3>1 DEF Finalizing, Linked, Handle
  <2> QED BY <2>2, <2>3
<1>3. gc \in {"call", "return"} =>
        (Finalizing(dying, gc = "call"))'
  <2> SUFFICES ASSUME gc \in {"call", "return"} PROVE (Finalizing(dying, gc = "call"))'
    OBVIOUS
  <2>1. PICK b \in BOOLEAN : b = (gc = "call") OBVIOUS
  <2>2. Finalizing(dying, b) BY <1>1, <2>1 DEF Finalizing
  <2>3. PICK s \in {dying, closed} : s = dying OBVIOUS
  <2>4. Finalizing(s, b)' BY <1>2, <2>2, <2>3 DEF Finalizing
  <2> QED BY <2>1, <2>3, <2>4 DEF Finalizing
<1>4. closing \in {"call", "return"} =>
        (Finalizing(closed, closing = "call"))'
  <2> SUFFICES ASSUME closing \in {"call", "return"}
               PROVE  (Finalizing(closed, closing = "call"))'
    OBVIOUS
  <2>1. PICK b \in BOOLEAN : b = (closing = "call") OBVIOUS
  <2>2. Finalizing(closed, b) BY <1>1, <2>1 DEF Finalizing
  <2>3. PICK s \in {dying, closed} : s = closed OBVIOUS
  <2>4. Finalizing(s, b)' BY <1>2, <2>2, <2>3 DEF Finalizing
  <2> QED BY <2>1, <2>3, <2>4 DEF Finalizing
<1> QED BY <1>1, <1>3, <1>4 DEF FinalizedStay

\* A new reference is that of a node that was free.
LEMMA NewKeeps ==
  ASSUME RefInv, NEW r \in Ref, NEW o, NEW initial \in {0, 1}, NEW self \in BOOLEAN,
         NEW finalizer \in BOOLEAN, New(r, o, initial, self, finalizer)
  PROVE  /\ RefInv' /\ o \in held /\ ~reference[r].linked
         /\ \A s \in Ref \ {r} : reference'[s] = reference[s] /\ Target(s)' = Target(s)
         /\ Target(r)' = o
         /\ reference'[r] =
              [linked |-> TRUE, refcount |-> initial, delete_self |-> self,
               finalize_ran |-> FALSE, callback |-> finalizer, handle |-> Handle(r)',
               given |-> ~self, wanted |-> finalizer, called |-> 0]
<1> DEFINE n == Head(FreeNodes)
           content == IF initial = 0 THEN Weak(o, r) ELSE Normal(o)
           rec == [linked |-> TRUE, refcount |-> initial, delete_self |-> self,
                   finalize_ran |-> FALSE, callback |-> finalizer, handle |-> n,
                   given |-> ~self, wanted |-> finalizer, called |-> 0]
<1>1. /\ o \in held /\ ~reference[r].linked /\ CreateHandle(n, content)
      /\ reference' = [reference EXCEPT ![r] = rec]
      /\ UNCHANGED <<heap, collecting, ending>>
  BY DEF New
<1>2. o \in Obj /\ o \in alloc BY <1>1, TypesAre
<1>3. content \in Content BY <1>2, TypesAre DEF Content, Weak, Normal
<1>4. content.object = o /\ content.state \in {"NORMAL", "WEAK"} BY DEF Weak, Normal
<1> HIDE DEF n, content
<1>5. UNCHANGED <<alloc, held, marked, gc, dying, iterator, closing, closed>>
  BY <1>1 DEF heap, collecting, ending
<1>6. /\ SpaceInv' /\ ReachStays
      /\ n \in Node /\ ~InUse(n) /\ nodes' = [nodes EXCEPT ![n] = content]
  BY <1>1, <1>3, <1>5, CreateKeepsSpace DEF RefInv
<1>7. nodes'[n] = content /\ \A m \in Node : m # n => nodes'[m] = nodes[m]
  BY <1>6, TypesAre
<1>8. rec \in Record BY <1>6, ReferencesAssumption DEF Record
<1>9. /\ reference' \in [Ref -> Record] /\ reference'[r] = rec
      /\ \A s \in Ref \ {r} : reference'[s] = reference[s]
  BY <1>1, <1>8, TypesAre
<1>10. rec.handle = n /\ rec.linked /\ rec.refcount = initial /\ rec.called = 0 OBVIOUS
<1>11. /\ ~(rec.given /\ rec.delete_self)
       /\ rec.callback = (rec.wanted /\ rec.called = 0) /\ ~rec.finalize_ran
  OBVIOUS
<1>12. rec = [linked |-> TRUE, refcount |-> initial, delete_self |-> self,
              finalize_ran |-> FALSE, callback |-> finalizer, handle |-> n,
              given |-> ~self, wanted |-> finalizer, called |-> 0]
  OBVIOUS
<1> HIDE DEF rec
<1>13. /\ Handle(r)' = n /\ Handle(r) = NoNode
       /\ \A s \in Ref \ {r} : Handle(s)' = Handle(s)
  <2>1. reference[r] = Freed BY <1>1 DEF RefInv, RefsConsistent
  <2> QED BY <1>9, <1>10, <2>1 DEF Handle, Freed
<1>14. \A s \in Ref : Handle(s) # NoNode => Handle(s) \in Node /\ Handle(s) # n
  BY <1>6, HandleIs
<1>15. n # NoNode BY <1>6, BlocksAndNodes
<1>16. Target(r)' = o BY <1>4, <1>7, <1>13, <1>15 DEF Target
<1>17. \A s \in Ref \ {r} : Target(s)' = Target(s) BY <1>7, <1>13, <1>14 DEF Target
<1>18. HandlesOwned'
  <2>1. ASSUME NEW m \in Node, InUse(m)' PROVE \E s \in Linked' : Handle(s)' = m
    <3>1. CASE m = n
      <4>1. r \in Linked' BY <1>9, <1>10 DEF Linked
      <4> QED BY <1>13, <3>1, <4>1
    <3>2. CASE m # n
      <4>1. InUse(m) BY <1>7, <2>1, <3>2 DEF InUse
      <4>2. PICK s \in Linked : Handle(s) = m BY <4>1 DEF RefInv, HandlesOwned
      <4>3. s \in Ref \ {r} BY <1>1, <4>2 DEF Linked
      <4>4. s \in Linked' BY <1>9, <4>2, <4>3 DEF Linked
      <4> QED BY <1>13, <4>2, <4>3, <4>4
    <3> QED BY <3>1, <3>2
  <2>2. ASSUME NEW s \in Ref
        PROVE  IF Handle(s)' = NoNode THEN reference'[s].refcount = 0
               ELSE /\ InUse(Handle(s))' /\ reference'[s].called = 0
                    /\ nodes'[Handle(s)'] = IF reference'[s].refcount = 0
                         THEN Weak(Target(s)', s) ELSE Normal(Target(s)')
                    /\ \A u \in Ref \ {s} : Handle(u)' # Handle(s)'
    <3>1. CASE s = r
      <4>1. InUse(Handle(r))' BY <1>4, <1>7, <1>13 DEF InUse
      <4>2. nodes'[n] = IF initial = 0 THEN Weak(o, r) ELSE Normal(o)
        BY <1>7 DEF content
      <4>3. \A u \in Ref \ {r} : Handle(u)' # n BY <1>13, <1>14, <1>15
      <4> QED BY <1>9, <1>10, <1>13, <1>15, <1>16, <3>1, <4>1, <4>2, <4>3
    <3>2. CASE s # r /\ Handle(s) = NoNode
      BY <1>9, <1>13, <3>2 DEF RefInv, HandlesOwned
    <3>3. CASE s # r /\ Handle(s) # NoNode
      <4>1. /\ Handle(s) \in Node /\ InUse(Handle(s)) /\ reference[s].called = 0
            /\ nodes[Handle(s)] = IF reference[s].refcount = 0
                                    THEN Weak(Target(s), s) ELSE Normal(Target(s))
            /\ \A u \in Ref \ {s} : Handle(u) # Handle(s)
        BY <3>3, HandleIs
      <4>2. /\ Handle(s)' = Handle(s) /\ reference'[s] = reference[s]
            /\ nodes'[Handle(s)] = nodes[Handle(s)] /\ Target(s)' = Target(s)
        BY <1>7, <1>9, <1>13, <1>14, <1>17, <3>3, <4>1
      <4>3. InUse(Handle(s))' BY <4>1, <4>2 DEF InUse
      <4>4. \A u \in Ref \ {s} : Handle(u)' # Handle(s)'
        BY <1>13, <1>14, <3>3, <4>1, <4>2
      <4> QED BY <3>3, <4>1, <4>2, <4>3, <4>4
    <3> QED BY <3>1, <3>2, <3>3
  <2> QED BY <2>1, <2>2 DEF HandlesOwned
<1>19. TypeOK'
  <2>1. SpaceType' BY <1>6 DEF SpaceInv
  <2> QED BY <1>5, <1>9, <2>1, TypesAre DEF TypeOK, Record
<1>20. RefsConsistent'
  <2> SUFFICES ASSUME NEW s \in Ref
               PROVE  /\ ~reference'[s].linked => reference'[s] = Freed
                      /\ reference'[s].given /\ reference'[s].delete_self =>
                           closing # "no" /\ ~reference'[s].callback
                      /\ reference'[s].callback =
                           (reference'[s].wanted /\ reference'[s].called = 0)
                      /\ reference'[s].called = 1 => reference'[s].wanted
                      /\ reference'[s].callback => ~reference'[s].finalize_ran
    BY <1>5 DEF RefsConsistent
  <2>1. CASE s = r BY <1>9, <1>10, <1>11, <2>1
  <2>2. CASE s # r BY <1>9, <2>2 DEF RefInv, RefsConsistent
  <2> QED BY <2>1, <2>2
<1>21. FinalizedStay'
  <2>1. r \notin {dying, closed}
    <3>1. r \notin Linked BY <1>1 DEF Linked
    <3>2. dying \in Linked \cup {NoRef} /\ closed \in Linked \cup {NoRef}
      BY DEF RefInv, FinalizedStay, Finalizing
    <3> QED BY <3>1, <3>2, TypesAre
  <2> QED BY <1>5, <1>8, <1>9, <2>1, FinalizedKept
<1>22. CollectionInv'
  <2>1. gc # "off" => o \in marked BY <1>1 DEF RefInv, CollectionInv
  <2> QED BY <1>2, <1>4, <1>5, <1>6, <1>7, <2>1, CollectionKept
<1>23. RefInv' BY <1>6, <1>18, <1>19, <1>20, <1>21, <1>22 DEF RefInv
<1> QED BY <1>1, <1>9, <1>12, <1>13, <1>16, <1>17, <1>23

\* One reference changes, and what it becomes is consistent.
LEMMA ConsistentKept ==
  ASSUME RefInv, NEW r \in Ref, NEW rec,
         reference'[r] = rec, \A s \in Ref \ {r} : reference'[s] = reference[s],
         closing # "no" => closing' # "no",
         ~rec.linked => rec = Freed,
         rec.given /\ rec.delete_self => closing' # "no" /\ ~rec.callback,
         rec.callback = (rec.wanted /\ rec.called = 0), rec.called = 1 => rec.wanted,
         rec.callback => ~rec.finalize_ran
  PROVE  RefsConsistent'
<1> SUFFICES ASSUME NEW s \in Ref
             PROVE  /\ ~reference'[s].linked => reference'[s] = Freed
                    /\ reference'[s].given /\ reference'[s].delete_self =>
                         closing' # "no" /\ ~reference'[s].callback
                    /\ reference'[s].callback =
                         (reference'[s].wanted /\ reference'[s].called = 0)
                    /\ reference'[s].called = 1 => reference'[s].wanted
                    /\ reference'[s].callback => ~reference'[s].finalize_ran
  BY DEF RefsConsistent
<1>1. CASE s = r BY <1>1
<1>2. CASE s # r BY <1>2 DEF RefInv, RefsConsistent
<1> QED BY <1>1, <1>2

\* What RefBase::Delete leaves of a reference.
Deferred(ref) == [ref EXCEPT !.handle = NoNode, !.given = FALSE, !.delete_self = TRUE]

\* A reference is deleted at once unless a finalizer is to come or runs.
LEMMA DeleteKeeps ==
  ASSUME RefInv, NEW r \in Ref, napi_delete_reference(r) \/ RemoveWrap(r)
  PROVE  /\ RefInv' /\ r \in Linked
         /\ \A s \in Ref \ {r} : reference'[s] = reference[s] /\ Target(s)' = Target(s)
         /\ Target(r)' = NoObj
         /\ reference'[r] \in {Freed, Deferred(reference[r])}
<1> DEFINE old == reference[r]
           cut == [old EXCEPT !.handle = NoNode, !.given = FALSE]
           rec == Deleted(cut)
<1>1. /\ DestroyHandle(Handle(r)) /\ reference' = [reference EXCEPT ![r] = rec]
      /\ UNCHANGED <<alloc, held, marked, gc, dying, iterator, closing, closed>>
  BY DEF napi_delete_reference, RemoveWrap, Delete, heap, collecting, ending
<1>2. old \in Record BY TypesAre
<1>3. old.linked
  BY DEF napi_delete_reference, RemoveWrap, RefInv, RefsConsistent, Freed
<1>4. /\ old.callback = (old.wanted /\ old.called = 0)
      /\ old.called = 1 => old.wanted
      /\ old.callback => ~old.finalize_ran
  BY DEF RefInv, RefsConsistent
<1>5. /\ cut.refcount = old.refcount /\ cut.delete_self = old.delete_self
      /\ cut.finalize_ran = old.finalize_ran
      /\ [cut EXCEPT !.delete_self = TRUE] = Deferred(old)
  BY <1>2 DEF Record, Deferred
<1>6. rec = IF old.refcount # 0 \/ old.delete_self \/ old.finalize_ran
              THEN Freed ELSE Deferred(old)
  BY <1>5 DEF Deleted
<1>7. /\ Deferred(old) \in Record /\ Deferred(old).handle = NoNode
      /\ Deferred(old).refcount = old.refcount /\ Deferred(old).linked
      /\ ~Deferred(old).given /\ Deferred(old).callback = old.callback
      /\ Deferred(old).wanted = old.wanted /\ Deferred(old).called = old.called
      /\ Deferred(old).finalize_ran = old.finalize_ran
  BY <1>2, <1>3 DEF Record, Deferred
<1>8. /\ Freed \in Record /\ Freed.handle = NoNode /\ Freed.refcount = 0 /\ ~Freed.given
      /\ ~Freed.callback /\ ~Freed.wanted /\ Freed.called = 0
  BY ReferencesAssumption DEF Record, Freed
<1>9. rec \in Record /\ rec.handle = NoNode /\ rec.refcount = 0
  BY <1>6, <1>7, <1>8
<1>10. rec \in {Freed, Deferred(old)} BY <1>6
<1>11. Handle(r) \in Node \cup {NoNode} /\ (Handle(r) # NoNode => InUse(Handle(r)))
  BY HandleIs
<1> HIDE DEF rec, cut
<1>12. /\ SpaceInv' /\ ReachStays
       /\ \A m \in Node : nodes'[m] = IF m = Handle(r) THEN Free ELSE nodes[m]
  BY <1>1, <1>11, DestroyOrNot DEF RefInv
<1>13. /\ HandlesOwned' /\ reference' \in [Ref -> Record]
       /\ reference'[r] = rec /\ \A s \in Ref \ {r} : reference'[s] = reference[s]
       /\ Target(r)' = NoObj /\ \A s \in Ref \ {r} : Target(s)' = Target(s)
  BY <1>1, <1>9, <1>12, HandleLost
<1>14. TypeOK'
  <2>1. SpaceType' BY <1>12 DEF SpaceInv
  <2> QED BY <1>1, <1>13, <2>1, TypesAre DEF TypeOK, Record
<1>15. RefsConsistent'
  <2>1. /\ ~rec.linked => rec = Freed
        /\ ~rec.given /\ (rec.callback => ~rec.finalize_ran)
        /\ rec.callback = (rec.wanted /\ rec.called = 0) /\ (rec.called = 1 => rec.wanted)
    <3>1. CASE rec = Freed
      <4>1. rec.callback = FALSE /\ rec.wanted = FALSE /\ ~rec.given /\ rec.called = 0
        BY <1>8, <3>1 DEF Freed
      <4>2. rec.called # 1 BY <4>1
      <4>3. rec.callback = (rec.wanted /\ rec.called = 0) BY <4>1
      <4> QED BY <3>1, <4>1, <4>2, <4>3
    <3>2. CASE rec = Deferred(old)
      <4>1. /\ rec.linked /\ ~rec.given /\ rec.called = old.called
            /\ rec.callback = old.callback /\ rec.wanted = old.wanted
            /\ rec.finalize_ran = old.finalize_ran
        BY <1>7, <3>2
      <4> QED BY <1>4, <4>1
    <3> QED BY <1>10, <3>1, <3>2
  <2> QED BY <1>1, <1>13, <2>1, ConsistentKept
<1>16. FinalizedStay'
  <2>1. ASSUME r \in {dying, closed}
        PROVE  rec = Deferred(old) /\ ~old.callback /\ ~old.finalize_ran
    <3>1. r # NoRef BY TypesAre
    <3>2. Finalizing(r, gc = "call") \/ Finalizing(r, closing = "call")
      BY <2>1, <3>1 DEF RefInv, FinalizedStay
    <3>3. Handle(r) = NoNode /\ ~old.callback BY <3>2 DEF Finalizing
    <3>4. napi_delete_reference(r)
      <4>1. Target(r) \notin held BY <3>3, TypesAre DEF Target
      <4> QED BY <4>1 DEF RemoveWrap
    <3>5. InModule /\ old.given BY <3>4 DEF napi_delete_reference
    <3>6. Finalizing(r, TRUE)
      <4>1. CASE r = dying
        <5>1. gc \in {"call", "return"} /\ Finalizing(r, gc = "call")
          BY <3>1, <4>1 DEF RefInv, FinalizedStay
        <5>2. (gc = "call") = TRUE BY <3>5, <5>1 DEF InModule, Running
        <5> QED BY <5>1, <5>2
      <4>2. CASE r = closed
        <5>1. /\ closing \in {"call", "return"} /\ Finalizing(r, closing = "call")
              /\ gc # "off" => closing \in {"no", "call"}
          BY <3>1, <4>2 DEF RefInv, FinalizedStay
        <5>2. (closing = "call") = TRUE BY <3>5, <5>1 DEF InModule, Running
        <5> QED BY <5>1, <5>2
      <4> QED BY <2>1, <4>1, <4>2
    <3>7. ~old.finalize_ran /\ ~old.delete_self BY <3>5, <3>6 DEF Finalizing
    <3>8. old.refcount = 0 BY <3>3 DEF RefInv, HandlesOwned
    <3> QED BY <1>6, <3>3, <3>7, <3>8
  <2>2. r \in {dying, closed} =>
          /\ rec.linked /\ rec.handle = NoNode /\ ~rec.callback /\ ~rec.finalize_ran
          /\ rec.given => ~rec.delete_self
    BY <1>7, <2>1
  <2> QED BY <1>1, <1>9, <1>13, <2>2, FinalizedKept
<1>17. CollectionInv'
  <2>1. Handle(r) \in Node => nodes'[Handle(r)].state = "FREE" BY <1>12 DEF Free
  <2> QED BY <1>1, <1>12, <2>1, CollectionKept
<1>18. RefInv' BY <1>12, <1>13, <1>14, <1>15, <1>16, <1>17 DEF RefInv
<1> QED BY <1>3, <1>10, <1>13, <1>18 DEF Linked

\* A count keeps the handle strong, and what it leads to is marked if a collection runs.
LEMMA CountKeeps ==
  ASSUME RefInv, Available = TRUE, NEW r \in Ref,
         napi_reference_ref(r) \/ napi_reference_unref(r)
  PROVE  /\ RefInv' /\ reference[r].given
         /\ \A s \in Ref \ {r} : reference'[s] = reference[s]
         /\ \A s \in Ref : Target(s)' = Target(s)
         /\ \E count \in 0..MaxCount :
              /\ reference'[r] = [reference[r] EXCEPT !.refcount = count]
              /\ \/ count = reference[r].refcount + 1
                 \/ reference[r].refcount > 0 /\ count = reference[r].refcount - 1
<1> DEFINE h == Handle(r)
           o == Target(r)
           old == reference[r]
<1>1. /\ UNCHANGED <<alloc, held, marked, gc, dying, iterator, closing, closed>>
      /\ old.given
  BY DEF napi_reference_ref, napi_reference_unref, heap, collecting, ending
<1>2. old \in Record BY TypesAre
<1>3. h # NoNode
  <2>1. CASE napi_reference_ref(r) BY <2>1 DEF napi_reference_ref, HasTarget
  <2>2. CASE napi_reference_unref(r)
    <3>1. old.refcount # 0 BY <2>2, <1>2 DEF napi_reference_unref, Record
    <3> QED BY <3>1 DEF RefInv, HandlesOwned
  <2> QED BY <2>1, <2>2
<1>4. /\ h \in Node /\ InUse(h) /\ o \in alloc /\ o = nodes[h].object /\ old.called = 0
      /\ nodes[h] = IF old.refcount = 0 THEN Weak(o, r) ELSE Normal(o)
      /\ \A s \in Ref \ {r} : Handle(s) # h
  BY <1>3, HandleIs
<1>5. PICK count \in 0..MaxCount :
        /\ reference' = [reference EXCEPT ![r] = [old EXCEPT !.refcount = count]]
        /\ \/ count = old.refcount + 1
           \/ old.refcount > 0 /\ count = old.refcount - 1
        /\ IF (old.refcount = 0) = (count = 0) THEN UNCHANGED space
           ELSE SetHandle(h, IF count = 0 THEN Weak(o, r) ELSE Normal(o))
  <2>1. old.refcount \in 0..MaxCount BY <1>2 DEF Record
  <2>2. CASE napi_reference_ref(r)
    <3>1. old.refcount + 1 \in 0..MaxCount /\ old.refcount + 1 # 0
      BY <2>1, <2>2, ReferencesAssumption DEF napi_reference_ref
    <3>2. reference' = [reference EXCEPT ![r] = [old EXCEPT !.refcount = old.refcount + 1]]
      BY <2>2 DEF napi_reference_ref
    <3>3. IF old.refcount = 0 THEN SetHandle(h, Normal(o)) ELSE UNCHANGED space
      BY <2>2 DEF napi_reference_ref, MakeStrong
    <3> QED BY <3>1, <3>2, <3>3
  <2>3. CASE napi_reference_unref(r)
    <3>1. /\ old.refcount - 1 \in 0..MaxCount /\ old.refcount > 0 /\ old.refcount # 0
          /\ (old.refcount - 1 = 0) <=> (old.refcount = 1)
      BY <2>1, <2>3, ReferencesAssumption DEF napi_reference_unref
    <3>2. reference' = [reference EXCEPT ![r] = [old EXCEPT !.refcount = old.refcount - 1]]
      BY <2>3 DEF napi_reference_unref
    <3>3. IF old.refcount = 1 THEN SetHandle(h, Weak(o, r)) ELSE UNCHANGED space
      BY <2>3 DEF napi_reference_unref
    <3> QED BY <3>1, <3>2, <3>3
  <2> QED BY <2>2, <2>3
<1> DEFINE rec == [old EXCEPT !.refcount = count]
           content == IF count = 0 THEN Weak(o, r) ELSE Normal(o)
<1>6. /\ rec \in Record /\ rec.refcount = count /\ rec.handle = old.handle
      /\ rec.linked = old.linked /\ rec.delete_self = old.delete_self
      /\ rec.finalize_ran = old.finalize_ran /\ rec.callback = old.callback
      /\ rec.given = old.given /\ rec.wanted = old.wanted /\ rec.called = old.called
  BY <1>2 DEF Record
<1>7. content \in Content /\ content.object = o /\ content.state # "FREE"
  BY <1>4, TypesAre DEF Content, Weak, Normal
<1>8. SpaceInv' /\ ReachStays /\ \A m \in Node : nodes'[m] = IF m = h THEN content ELSE nodes[m]
  <2>1. CASE (old.refcount = 0) = (count = 0)
    <3>1. UNCHANGED space BY <1>5, <2>1
    <3>2. SpaceInv' /\ ReachStays BY <1>1, <3>1, TypesAre, SameSpace DEF RefInv
    <3>3. nodes[h] = content BY <1>4, <2>1
    <3> QED BY <3>1, <3>2, <3>3 DEF space
  <2>2. CASE (old.refcount = 0) # (count = 0)
    <3>1. SetHandle(h, content) BY <1>5, <2>2
    <3> HIDE DEF content, h
    <3> QED BY <1>1, <1>4, <1>7, <3>1, SetOrNot DEF RefInv
  <2> QED BY <2>1, <2>2
<1>9. gc # "off" => o \in marked
  <2>1. CASE napi_reference_ref(r) BY <2>1 DEF napi_reference_ref, HasTarget
  <2>2. CASE napi_reference_unref(r)
    <3>1. old.refcount # 0 BY <2>2, <1>2 DEF napi_reference_unref, Record
    <3>2. nodes[h].state = "NORMAL" BY <1>4, <3>1 DEF Normal
    <3> QED BY <1>4, <3>2 DEF RefInv, CollectionInv
  <2> QED BY <2>1, <2>2
<1> HIDE DEF rec, content
<1>10. /\ reference' \in [Ref -> Record] /\ reference'[r] = rec
       /\ \A s \in Ref \ {r} : reference'[s] = reference[s]
  BY <1>5, <1>6, TypesAre DEF rec
<1>11. \A s \in Ref : Handle(s)' = Handle(s) BY <1>6, <1>10 DEF Handle
<1>12. \A s \in Ref : Target(s)' = Target(s)
  <2> SUFFICES ASSUME NEW s \in Ref PROVE Target(s)' = Target(s) OBVIOUS
  <2>1. CASE s = r BY <1>3, <1>4, <1>7, <1>8, <1>11, <2>1 DEF Target
  <2>2. CASE s # r /\ Handle(s) # NoNode
    <3>1. Handle(s) \in Node /\ Handle(s) # h BY <1>4, <2>2, HandleIs
    <3> QED BY <1>8, <1>11, <2>2, <3>1 DEF Target
  <2>3. CASE Handle(s) = NoNode BY <1>11, <2>3 DEF Target
  <2> QED BY <2>1, <2>2, <2>3
<1>13. HandlesOwned'
  <2>1. ASSUME NEW n \in Node, InUse(n)' PROVE \E s \in Linked' : Handle(s)' = n
    <3>1. InUse(n) BY <1>4, <1>8, <2>1 DEF InUse
    <3>2. PICK s \in Linked : Handle(s) = n BY <3>1 DEF RefInv, HandlesOwned
    <3>3. s \in Ref /\ s \in Linked' BY <1>6, <1>10, <3>2 DEF Linked
    <3> QED BY <1>11, <3>2, <3>3
  <2>2. ASSUME NEW s \in Ref
        PROVE  IF Handle(s)' = NoNode THEN reference'[s].refcount = 0
               ELSE /\ InUse(Handle(s))' /\ reference'[s].called = 0
                    /\ nodes'[Handle(s)'] = IF reference'[s].refcount = 0
                         THEN Weak(Target(s)', s) ELSE Normal(Target(s)')
                    /\ \A u \in Ref \ {s} : Handle(u)' # Handle(s)'
    <3>1. CASE s = r
      <4>1. InUse(h)' BY <1>4, <1>7, <1>8, <1>11 DEF InUse
      <4>2. nodes'[h] = IF count = 0 THEN Weak(o, r) ELSE Normal(o)
        BY <1>4, <1>8 DEF content
      <4> QED BY <1>3, <1>4, <1>6, <1>10, <1>11, <1>12, <3>1, <4>1, <4>2
    <3>2. CASE s # r /\ Handle(s) = NoNode
      BY <1>10, <1>11, <3>2 DEF RefInv, HandlesOwned
    <3>3. CASE s # r /\ Handle(s) # NoNode
      <4>1. /\ Handle(s) \in Node /\ InUse(Handle(s)) /\ reference[s].called = 0
            /\ nodes[Handle(s)] = IF reference[s].refcount = 0
                                    THEN Weak(Target(s), s) ELSE Normal(Target(s))
            /\ \A u \in Ref \ {s} : Handle(u) # Handle(s)
        BY <3>3, HandleIs
      <4>2. /\ Handle(s)' = Handle(s) /\ reference'[s] = reference[s]
            /\ nodes'[Handle(s)] = nodes[Handle(s)] /\ Target(s)' = Target(s)
        BY <1>4, <1>8, <1>10, <1>11, <1>12, <3>3, <4>1
      <4>3. InUse(Handle(s))' BY <4>1, <4>2 DEF InUse
      <4>4. \A u \in Ref \ {s} : Handle(u)' # Handle(s)' BY <1>11, <4>1
      <4> QED BY <3>3, <4>1, <4>2, <4>3, <4>4
    <3> QED BY <3>1, <3>2, <3>3
  <2> QED BY <2>1, <2>2 DEF HandlesOwned
<1>14. TypeOK'
  <2>1. SpaceType' BY <1>8 DEF SpaceInv
  <2> QED BY <1>1, <1>10, <2>1, TypesAre DEF TypeOK, Record
<1>15. RefsConsistent'
  <2>1. r \in Linked BY <1>3, HandleIs
  <2>2. /\ rec.linked
        /\ rec.given /\ rec.delete_self => closing # "no" /\ ~rec.callback
        /\ rec.callback = (rec.wanted /\ rec.called = 0)
        /\ rec.called = 1 => rec.wanted
        /\ rec.callback => ~rec.finalize_ran
    BY <1>6, <2>1 DEF RefInv, RefsConsistent, Linked
  <2> QED BY <1>1, <1>10, <2>2, ConsistentKept
<1>16. FinalizedStay'
  <2>1. r \notin {dying, closed}
    BY <1>3, TypesAre DEF RefInv, FinalizedStay, Finalizing
  <2> QED BY <1>1, <1>6, <1>10, <2>1, FinalizedKept
<1>17. CollectionInv'
  <2>1. nodes'[h].object = o BY <1>4, <1>7, <1>8
  <2> HIDE DEF h, o
  <2> QED BY <1>1, <1>4, <1>8, <1>9, <2>1, CollectionKept
<1>18. RefInv' BY <1>8, <1>13, <1>14, <1>15, <1>16, <1>17 DEF RefInv
<1> QED BY <1>1, <1>5, <1>10, <1>12, <1>18 DEF rec

-----------------------------------------------------------------------------
(* Finalize.                                                               *)

\* The handle and the callback are gone before the callback is called.
LEMMA BeginKeeps ==
  ASSUME RefInv, NEW r \in Ref, reference[r].linked, BeginFinalize(r, 0),
         UNCHANGED iterator, closing # "no" => closing' # "no"
  PROVE  /\ SpaceInv' /\ ReachStays /\ HandlesOwned' /\ RefsConsistent'
         /\ reference' \in [Ref -> Record]
         /\ \A m \in Node : nodes'[m] = IF m = Handle(r) THEN Free ELSE nodes[m]
         /\ \A s \in Ref \ {r} : reference'[s] = reference[s] /\ Target(s)' = Target(s)
         /\ Target(r)' = NoObj
         /\ reference'[r] = [reference[r] EXCEPT !.handle = NoNode, !.refcount = 0,
              !.callback = FALSE, !.called = IF reference[r].wanted THEN 1 ELSE 0]
<1> DEFINE old == reference[r]
           cut == [old EXCEPT !.handle = NoNode, !.refcount = 0]
           rec == [old EXCEPT !.handle = NoNode, !.refcount = 0, !.callback = FALSE,
                              !.called = IF old.wanted THEN 1 ELSE 0]
<1>1. old \in Record BY TypesAre
<1>2. /\ old.callback = (old.wanted /\ old.called = 0)
      /\ old.called = 1 => old.wanted
      /\ old.given /\ old.delete_self => closing # "no"
  BY DEF RefInv, RefsConsistent
<1>3. old.called \in 0..1 /\ old.callback \in BOOLEAN /\ old.wanted \in BOOLEAN
  BY <1>1 DEF Record
<1>4. (IF old.callback THEN old.called + 1 ELSE old.called) = IF old.wanted THEN 1 ELSE 0
  <2>1. old.called = 0 \/ old.called = 1 BY <1>3
  <2>2. CASE old.callback
    <3>1. old.wanted /\ old.called = 0 BY <1>2, <2>2
    <3> QED BY <2>2, <3>1
  <2>3. CASE ~old.callback
    <3>1. ~(old.wanted /\ old.called = 0) BY <1>2, <2>3
    <3>2. CASE old.wanted BY <2>1, <2>3, <3>1, <3>2
    <3>3. CASE ~old.wanted
      <4>1. old.called = 0 BY <1>2, <2>1, <3>3
      <4> QED BY <2>3, <3>3, <4>1
    <3> QED BY <3>2, <3>3
  <2> QED BY <2>2, <2>3
<1>5. /\ cut.callback = old.callback /\ cut.called = old.called
      /\ [cut EXCEPT !.callback = FALSE, !.called = IF old.wanted THEN 1 ELSE 0] = rec
  BY <1>1 DEF Record
<1>6. TakenCallback(cut) = rec
  <2>1. TakenCallback(cut) =
          [cut EXCEPT !.callback = FALSE,
                      !.called = IF cut.callback THEN cut.called + 1 ELSE cut.called]
    BY DEF TakenCallback
  <2> HIDE DEF cut, rec
  <2> QED BY <1>4, <1>5, <2>1
<1>7. DestroyHandle(Handle(r)) /\ reference' = [reference EXCEPT ![r] = rec]
  <2>1. reference' = [reference EXCEPT ![r] = TakenCallback(cut)] BY DEF BeginFinalize
  <2> QED BY <1>6, <2>1 DEF BeginFinalize
<1>8. /\ rec \in Record /\ rec.handle = NoNode /\ rec.refcount = 0 /\ rec.callback = FALSE
      /\ rec.linked = old.linked /\ rec.delete_self = old.delete_self
      /\ rec.finalize_ran = old.finalize_ran /\ rec.given = old.given
      /\ rec.wanted = old.wanted /\ rec.called = IF old.wanted THEN 1 ELSE 0
  <2>1. PICK called \in 0..1 : called = IF old.wanted THEN 1 ELSE 0 OBVIOUS
  <2>2. rec = [old EXCEPT !.handle = NoNode, !.refcount = 0, !.callback = FALSE,
                          !.called = called]
    BY <2>1
  <2>3. 0 \in 0..MaxCount BY ReferencesAssumption
  <2> HIDE DEF rec
  <2> QED BY <1>1, <2>1, <2>2, <2>3 DEF Record
<1> HIDE DEF rec, cut
<1>9. Handle(r) \in Node \cup {NoNode} /\ (Handle(r) # NoNode => InUse(Handle(r)))
  BY HandleIs
<1>10. /\ SpaceInv' /\ ReachStays
       /\ \A m \in Node : nodes'[m] = IF m = Handle(r) THEN Free ELSE nodes[m]
  BY <1>7, <1>9, DestroyOrNot DEF RefInv
<1>11. /\ HandlesOwned' /\ reference' \in [Ref -> Record]
       /\ reference'[r] = rec /\ \A s \in Ref \ {r} : reference'[s] = reference[s]
       /\ Target(r)' = NoObj /\ \A s \in Ref \ {r} : Target(s)' = Target(s)
  BY <1>7, <1>8, <1>10, HandleLost
<1>12. RefsConsistent'
  <2>1. /\ rec.linked /\ ~rec.callback
        /\ rec.given /\ rec.delete_self => closing' # "no"
        /\ rec.callback = (rec.wanted /\ rec.called = 0)
        /\ rec.called = 1 => rec.wanted
    <3>1. rec.called # 0 <=> old.wanted BY <1>8
    <3>2. rec.callback = (rec.wanted /\ rec.called = 0) BY <1>3, <1>8, <3>1
    <3>3. rec.called = 1 => rec.wanted BY <1>8
    <3> QED BY <1>2, <1>8, <3>2, <3>3
  <2> QED BY <1>11, <2>1, ConsistentKept
<1> QED BY <1>10, <1>11, <1>12 DEF rec

\* What a reference is after its callback.
Returned(ref) == {Freed, [ref EXCEPT !.finalize_ran = TRUE], [ref EXCEPT !.delete_self = TRUE]}

\* After the callback, the reference is freed or waits to be deleted.
LEMMA EndKeeps ==
  ASSUME RefInv, NEW r \in Ref, Handle(r) = NoNode, reference[r].linked,
         ~reference[r].callback, NEW teardown \in BOOLEAN, EndFinalize(r, teardown),
         teardown => closing # "no", closing # "no" => closing' # "no",
         UNCHANGED space, iterator' \in Node \cup {NoNode}
  PROVE  /\ SpaceInv' /\ HandlesOwned' /\ RefsConsistent'
         /\ reference' \in [Ref -> Record]
         /\ \A s \in Ref \ {r} : reference'[s] = reference[s]
         /\ \A s \in Ref : Target(s)' = Target(s)
         /\ reference'[r] \in Returned(reference[r])
         /\ reference'[r] = Freed => closing # "no" \/ ~reference[r].given
<1> DEFINE old == reference[r]
           rec == IF old.delete_self \/ teardown
                    THEN Deleted(old) ELSE [old EXCEPT !.finalize_ran = TRUE]
<1>1. old \in Record BY TypesAre
<1>2. /\ old.callback = (old.wanted /\ old.called = 0)
      /\ old.called = 1 => old.wanted
      /\ old.given /\ old.delete_self => closing # "no"
  BY DEF RefInv, RefsConsistent
<1>3. old.refcount = 0 BY DEF RefInv, HandlesOwned
<1>4. reference' = [reference EXCEPT ![r] = rec]
  BY DEF EndFinalize
<1>5. rec = IF old.delete_self \/ (teardown /\ old.finalize_ran) THEN Freed
            ELSE IF teardown THEN [old EXCEPT !.delete_self = TRUE]
            ELSE [old EXCEPT !.finalize_ran = TRUE]
  BY <1>3 DEF Deleted
<1>6. /\ rec \in Record /\ rec.handle = NoNode /\ rec.refcount = 0
      /\ ~rec.linked => rec = Freed
      /\ rec.given /\ rec.delete_self => closing' # "no" /\ ~rec.callback
      /\ rec.callback = (rec.wanted /\ rec.called = 0)
      /\ rec.called = 1 => rec.wanted
      /\ rec.callback => ~rec.finalize_ran
  <2>1. CASE rec = Freed
    <3>1. /\ Freed \in Record /\ Freed.handle = NoNode /\ Freed.refcount = 0
          /\ Freed.given = FALSE /\ Freed.callback = FALSE /\ Freed.wanted = FALSE
          /\ Freed.called = 0
      BY ReferencesAssumption DEF Freed, Record
    <3>2. Freed.called # 1 BY <3>1
    <3>3. Freed.callback = (Freed.wanted /\ Freed.called = 0) BY <3>1
    <3> HIDE DEF rec
    <3> QED BY <2>1, <3>1, <3>2, <3>3
  <2>2. CASE rec = [old EXCEPT !.delete_self = TRUE] /\ teardown
    <3>1. /\ rec \in Record /\ rec.handle = old.handle /\ rec.refcount = 0
          /\ rec.linked /\ rec.callback = old.callback /\ rec.wanted = old.wanted
          /\ rec.called = old.called
      BY <1>1, <1>3, <2>2 DEF Record
    <3> HIDE DEF rec
    <3> QED BY <1>2, <2>2, <3>1 DEF Handle
  <2>3. CASE rec = [old EXCEPT !.finalize_ran = TRUE] /\ ~old.delete_self
    <3>1. /\ rec \in Record /\ rec.handle = old.handle /\ rec.refcount = 0
          /\ rec.linked /\ rec.callback = old.callback /\ rec.wanted = old.wanted
          /\ rec.called = old.called /\ rec.delete_self = old.delete_self
      BY <1>1, <1>3, <2>3 DEF Record
    <3> HIDE DEF rec
    <3> QED BY <1>2, <2>3, <3>1 DEF Handle
  <2> QED BY <1>5, <2>1, <2>2, <2>3
<1>7. rec \in Returned(old) /\ (rec = Freed => closing # "no" \/ ~old.given)
  <2>1. rec \in Returned(old) BY <1>5 DEF Returned
  <2>2. old.delete_self \/ teardown => closing # "no" \/ ~old.given BY <1>2
  <2>3. ~old.delete_self /\ ~teardown => rec.linked BY <1>1 DEF Record
  <2>4. ~Freed.linked BY DEF Freed
  <2> HIDE DEF rec
  <2> QED BY <2>1, <2>2, <2>3, <2>4
<1> HIDE DEF rec
<1>8. \A m \in Node : nodes'[m] = IF m = Handle(r) THEN Free ELSE nodes[m]
  BY BlocksAndNodes DEF space
<1>9. /\ HandlesOwned' /\ reference' \in [Ref -> Record]
      /\ reference'[r] = rec /\ \A s \in Ref \ {r} : reference'[s] = reference[s]
      /\ Target(r)' = NoObj /\ \A s \in Ref \ {r} : Target(s)' = Target(s)
  BY <1>4, <1>6, <1>8, HandleLost
<1>10. Target(r) = NoObj BY DEF Target
<1>11. RefsConsistent' BY <1>6, <1>9, ConsistentKept
<1>12. SpaceInv' BY SameSpace DEF RefInv
<1> QED BY <1>7, <1>9, <1>10, <1>11, <1>12

-----------------------------------------------------------------------------
(* A collection.                                                           *)

\* What comes after the node the walk is at comes after the next one, or is it.
LEMMA NextAhead ==
  ASSUME SpaceInv, iterator \in Node
  PROVE  /\ NextNode \in Node \cup {NoNode}
         /\ \A n \in Node :
              Ahead(iterator[1], iterator[2] + 1, n) => Ahead(NextNode[1], NextNode[2], n)
<1> DEFINE b == iterator[1]
           i == iterator[2]
<1>1. /\ b \in Block /\ i \in 0..(BlockSize - 1) /\ nextUsed[b] \in Block \cup {NoBlock}
      /\ BlockSize \in Nat \ {0}
  BY BlocksAndNodes, GlobalHandlesAssumption DEF SpaceInv, SpaceType
<1>2. CASE i + 1 < BlockSize
  <2>1. NextNode = <<b, i + 1>> BY <1>2 DEF NextNode
  <2>2. NextNode \in Node BY <1>1, <1>2, <2>1 DEF Node
  <2>3. NextNode[1] = b /\ NextNode[2] = i + 1 BY <2>1
  <2> QED BY <2>2, <2>3
<1>3. CASE ~(i + 1 < BlockSize)
  <2> DEFINE x == nextUsed[b]
  <2>1. NextNode = <<x, 0>> BY <1>3 DEF NextNode
  <2>2. NextNode \in Node \cup {NoNode}
    <3>1. CASE x = NoBlock BY <2>1, <3>1 DEF NoNode
    <3>2. CASE x # NoBlock BY <1>1, <2>1, <3>2 DEF Node
    <3> QED BY <3>1, <3>2
  <2>3. NextNode[1] = x /\ NextNode[2] = 0 BY <2>1
  <2>4. ASSUME NEW n \in Node, Ahead(b, i + 1, n) PROVE Ahead(x, 0, n)
    <3>1. n[1] \in Block /\ n[2] \in 0..(BlockSize - 1) BY BlocksAndNodes
    <3>2. ~(n[2] >= i + 1) BY <1>1, <1>3, <3>1
    <3>3. Reaches(x, n[1]) BY <2>4, <3>2 DEF Ahead
    <3>4. x # NoBlock BY <3>3, NothingReaches
    <3>5. CASE n[1] = x BY <3>1, <3>5 DEF Ahead
    <3>6. CASE n[1] # x
      <4>1. Reaches(nextUsed[x], n[1]) BY <1>1, <3>1, <3>3, <3>4, <3>6, ReachesNext
      <4> QED BY <3>4, <4>1 DEF Ahead
    <3> QED BY <3>5, <3>6
  <2> QED BY <2>2, <2>3, <2>4
<1> QED BY <1>2, <1>3

\* What comes after a node still does, whatever was done to the other nodes.
LEMMA AheadKept ==
  ASSUME ReachStays, NEW n \in Node, InUse(n), InUse(n)',
         NEW b \in Block, NEW i, Ahead(b, i, n)
  PROVE  Ahead(b, i, n)'
<1>1. n[1] \in UsedBlocks /\ n[1] \in UsedBlocks'
  BY BlocksAndNodes DEF UsedBlocks, UsedIn
<1> QED BY <1>1 DEF Ahead, ReachStays

\* The node the walk is at is behind it, once it is free.
LEMMA WalkPasses ==
  ASSUME RefInv, gc = "walk", NEW n \in Node, IsDead(n), n # iterator
  PROVE  iterator \in Node /\ Ahead(iterator[1], iterator[2] + 1, n)
<1>1. Ahead(iterator[1], iterator[2], n) BY DEF RefInv, CollectionInv, DeadAreAhead
<1>2. n[1] \in Block /\ n[1] # NoBlock /\ n = <<n[1], n[2]>> /\ n[2] \in Nat
  BY BlocksAndNodes, GlobalHandlesAssumption
<1>3. iterator \in Node
  <2>1. iterator[1] # NoBlock BY <1>1, <1>2 DEF Ahead
  <2> QED BY <2>1, TypesAre DEF NoNode
<1>4. iterator = <<iterator[1], iterator[2]>> /\ iterator[2] \in Nat
  BY <1>3, BlocksAndNodes, GlobalHandlesAssumption
<1>5. CASE n[1] = iterator[1] /\ n[2] >= iterator[2]
  <2>1. n[2] # iterator[2] BY <1>2, <1>4, <1>5
  <2>2. n[2] >= iterator[2] + 1 BY <1>2, <1>4, <1>5, <2>1
  <2> QED BY <1>3, <1>5, <2>2 DEF Ahead
<1>6. CASE ~(n[1] = iterator[1] /\ n[2] >= iterator[2])
  BY <1>1, <1>3, <1>6 DEF Ahead
<1> QED BY <1>5, <1>6

\* A reference that is being finalized and does not change is being finalized.
LEMMA FinalizingSame ==
  ASSUME NEW s \in Ref, reference'[s] = reference[s], NEW b, Finalizing(s, b)
  PROVE  Finalizing(s, b)'
BY DEF Finalizing, Linked, Handle

\* What is being finalized while the other collection or closing step is taken.
LEMMA OthersFinalizing ==
  ASSUME RefInv
  PROVE  /\ gc \notin {"call", "return"} => dying = NoRef
         /\ gc \in {"call", "return"} => Finalizing(dying, gc = "call") /\ dying \in Ref
         /\ closing \notin {"call", "return"} => closed = NoRef
         /\ closing \in {"call", "return"} =>
              Finalizing(closed, closing = "call") /\ closed \in Ref
         /\ dying = closed => dying = NoRef
         /\ gc # "off" => closing \in {"no", "call"}
BY DEF RefInv, FinalizedStay, Finalizing, Linked

\* With nothing but the collection's place changed, the callback of the closing goes on.
LEMMA ClosedStays ==
  ASSUME RefInv, UNCHANGED <<closing, closed>>,
         closed \in Ref => reference'[closed] = reference[closed]
  PROVE  IF closing' \in {"call", "return"} THEN (Finalizing(closed, closing = "call"))'
         ELSE closed' = NoRef
<1>1. CASE closing \in {"call", "return"}
  <2>1. PICK s \in Ref : s = closed BY <1>1, OthersFinalizing
  <2>2. PICK b \in BOOLEAN : b = (closing = "call") OBVIOUS
  <2>3. Finalizing(s, b) BY <1>1, <2>1, <2>2, OthersFinalizing DEF Finalizing
  <2>4. Finalizing(s, b)' BY <2>1, <2>3, FinalizingSame
  <2> QED BY <1>1, <2>1, <2>2, <2>4 DEF Finalizing
<1>2. CASE closing \notin {"call", "return"} BY <1>2, OthersFinalizing
<1> QED BY <1>1, <1>2

\* A collection starts with everything that is held or pinned marked, and comes to every
\* other handle.
LEMMA StartKeeps ==
  ASSUME RefInv, StartCollection
  PROVE  RefInv'
<1>1. /\ gc = "off" /\ closing \in {"no", "call"} /\ marked' = held \cup StrongTargets
      /\ gc' = "walk" /\ iterator' = FirstNode
      /\ UNCHANGED <<space, alloc, held, dying, closing, closed, reference>>
  BY DEF StartCollection, Running, ending
<1>2. /\ firstUsed \in UsedBlocks \cup {NoBlock} /\ UsedBlocks \subseteq Block
      /\ \A b \in UsedBlocks : Reaches(firstUsed, b)
      /\ hasCallbacks \/ \A n \in Node : nodes[n].state # "WEAK"
      /\ 0 \in 0..(BlockSize - 1)
  BY GlobalHandlesAssumption DEF RefInv, SpaceInv, BlocksLinked, CallbacksKnown, UsedBlocks
<1>3. FirstNode \in Node \cup {NoNode} BY <1>2 DEF FirstNode, Node
<1>4. /\ SpaceInv' /\ ReachStays /\ RefsConsistent' /\ HandlesOwned'
      /\ \A r \in Ref : Target(r)' = Target(r) /\ Handle(r)' = Handle(r)
      /\ Linked' = Linked
  BY <1>1, <1>3, SameRefs
<1>5. \A n \in Node : InUse(n) => nodes[n].object \in alloc BY DEF RefInv, CollectionInv
<1>6. /\ StrongTargets \subseteq alloc
      /\ \A n \in Node : nodes[n].state = "NORMAL" => nodes[n].object \in StrongTargets
  BY <1>5 DEF StrongTargets, InUse
<1>7. nodes' = nodes BY <1>1 DEF space
<1>8. DeadAreAhead'
  <2> SUFFICES ASSUME NEW n \in Node, nodes[n].state = "WEAK"
               PROVE  Ahead(iterator[1], iterator[2], n)'
    BY <1>1, <1>7 DEF DeadAreAhead, IsDead
  <2>1. InUse(n) /\ InUse(n)' BY <1>7 DEF InUse
  <2>2. n[1] \in UsedBlocks /\ n[1] \in Block /\ n[2] >= 0
    BY <2>1, BlocksAndNodes, GlobalHandlesAssumption DEF UsedBlocks, UsedIn
  <2>3. Reaches(firstUsed, n[1]) BY <1>2, <2>2
  <2>4. firstUsed # NoBlock BY <2>3, NothingReaches
  <2>5. FirstNode = <<firstUsed, 0>> BY <1>2, <2>4 DEF FirstNode
  <2>6. Ahead(firstUsed, 0, n)
    <3>1. CASE n[1] = firstUsed BY <2>2, <3>1 DEF Ahead
    <3>2. CASE n[1] # firstUsed
      <4>1. Reaches(nextUsed[firstUsed], n[1])
        BY <1>2, <2>2, <2>3, <2>4, <3>2, ReachesNext
      <4> QED BY <2>4, <4>1 DEF Ahead
    <3> QED BY <3>1, <3>2
  <2>7. PICK b \in Block : b = firstUsed BY <1>2, <2>4
  <2>8. Ahead(b, 0, n)' BY <1>4, <2>1, <2>6, <2>7, AheadKept
  <2>9. iterator'[1] = b /\ iterator'[2] = 0 BY <1>1, <2>5, <2>7
  <2> QED BY <2>8, <2>9 DEF Ahead
<1>9. CollectionInv'
  <2>1. /\ held' \subseteq marked' /\ marked' \subseteq alloc'
        /\ \A n \in Node : nodes'[n].state = "NORMAL" => nodes'[n].object \in marked'
    BY <1>1, <1>6, <1>7, TypesAre
  <2>2. \A n \in Node : InUse(n)' => nodes'[n].object \in alloc'
    BY <1>1, <1>5, <1>7 DEF InUse
  <2> QED BY <1>1, <1>8, <2>1, <2>2 DEF CollectionInv
<1>10. FinalizedStay'
  <2>1. dying' = NoRef BY <1>1, OthersFinalizing
  <2>2. IF closing' \in {"call", "return"} THEN (Finalizing(closed, closing = "call"))'
        ELSE closed' = NoRef
    BY <1>1, ClosedStays
  <2> QED BY <1>1, <2>1, <2>2 DEF FinalizedStay
<1>11. TypeOK'
  <2>1. SpaceType' BY <1>4 DEF SpaceInv
  <2>2. marked' \subseteq Obj BY <1>1, <1>6, TypesAre
  <2> QED BY <1>1, <2>1, <2>2, TypesAre DEF TypeOK, Record
<1> QED BY <1>4, <1>9, <1>10, <1>11 DEF RefInv

\* A node that is not dead is passed.
LEMMA PassKeeps ==
  ASSUME RefInv, PassNode
  PROVE  RefInv'
<1>1. /\ gc = "walk" /\ iterator # NoNode /\ ~IsDead(iterator) /\ iterator' = NextNode
      /\ UNCHANGED <<space, alloc, held, marked, gc, dying, closing, closed, reference>>
  BY DEF PassNode, heap, ending
<1>2. iterator \in Node BY <1>1, TypesAre
<1>3. /\ NextNode \in Node \cup {NoNode}
      /\ \A n \in Node :
           Ahead(iterator[1], iterator[2] + 1, n) => Ahead(NextNode[1], NextNode[2], n)
  BY <1>2, NextAhead DEF RefInv
<1>4. /\ SpaceInv' /\ ReachStays /\ RefsConsistent' /\ HandlesOwned'
      /\ \A r \in Ref : Target(r)' = Target(r) /\ Handle(r)' = Handle(r)
      /\ Linked' = Linked
  BY <1>1, <1>3, SameRefs
<1>5. nodes' = nodes /\ nextUsed' = nextUsed BY <1>1 DEF space
<1>6. DeadAreAhead'
  <2> SUFFICES ASSUME NEW n \in Node, IsDead(n)
               PROVE  Ahead(iterator[1], iterator[2], n)'
    BY <1>1, <1>5 DEF DeadAreAhead, IsDead
  <2>1. Ahead(iterator[1], iterator[2] + 1, n) BY <1>1, WalkPasses
  <2>2. Ahead(NextNode[1], NextNode[2], n) BY <1>3, <2>1
  <2>3. PICK m : m = NextNode OBVIOUS
  <2>4. Ahead(m[1], m[2], n) BY <2>2, <2>3
  <2>5. Ahead(m[1], m[2], n)' BY <1>5, <2>4 DEF Ahead, Reaches, Closed
  <2> QED BY <1>1, <2>3, <2>5 DEF Ahead
<1>7. CollectionInv'
  <2>1. CollectionInv BY DEF RefInv
  <2> QED BY <1>1, <1>5, <1>6, <2>1 DEF CollectionInv, InUse
<1>8. FinalizedStay'
  <2>1. dying' = NoRef BY <1>1, OthersFinalizing
  <2>2. IF closing' \in {"call", "return"} THEN (Finalizing(closed, closing = "call"))'
        ELSE closed' = NoRef
    BY <1>1, ClosedStays
  <2> QED BY <1>1, <2>1, <2>2, OthersFinalizing DEF FinalizedStay
<1>9. TypeOK'
  <2>1. SpaceType' BY <1>4 DEF SpaceInv
  <2> QED BY <1>1, <2>1, TypesAre DEF TypeOK, Record
<1> QED BY <1>4, <1>7, <1>8, <1>9 DEF RefInv

\* What is swept has no handle left.
LEMMA SweepKeeps ==
  ASSUME RefInv, Sweep
  PROVE  /\ RefInv' /\ held \subseteq alloc'
         /\ \A r \in Ref : Target(r)' = Target(r) /\ Target(r) \in alloc' \cup {NoObj}
<1>1. /\ gc = "walk" /\ iterator = NoNode /\ alloc' = alloc \cap marked /\ marked' = {}
      /\ gc' = "off"
      /\ UNCHANGED <<space, held, dying, iterator, closing, closed, reference>>
  BY DEF Sweep, ending
<1>2. /\ SpaceInv' /\ ReachStays /\ RefsConsistent' /\ HandlesOwned'
      /\ \A r \in Ref : Target(r)' = Target(r) /\ Handle(r)' = Handle(r)
      /\ Linked' = Linked
  BY <1>1, TypesAre, SameRefs
<1>3. nodes' = nodes BY <1>1 DEF space
<1>4. \A n \in Node : ~IsDead(n)
  <2>1. NoNode \notin Node BY BlocksAndNodes
  <2> QED BY <1>1, <2>1, WalkPasses
<1>5. \A n \in Node : InUse(n) => nodes[n].object \in alloc \cap marked
  <2> SUFFICES ASSUME NEW n \in Node, InUse(n) PROVE nodes[n].object \in alloc \cap marked
    OBVIOUS
  <2>1. nodes[n].state \in {"FREE", "NORMAL", "WEAK"} BY TypesAre
  <2>2. nodes[n].object \in marked
    BY <1>1, <1>4, <2>1 DEF RefInv, CollectionInv, InUse, IsDead
  <2> QED BY <2>2 DEF RefInv, CollectionInv
<1>6. held \subseteq alloc' BY <1>1, TypesAre DEF RefInv, CollectionInv
<1>7. CollectionInv' BY <1>1, <1>3, <1>5 DEF CollectionInv, InUse
<1>8. FinalizedStay'
  <2>1. dying' = NoRef BY <1>1, OthersFinalizing
  <2>2. IF closing' \in {"call", "return"} THEN (Finalizing(closed, closing = "call"))'
        ELSE closed' = NoRef
    BY <1>1, ClosedStays
  <2> QED BY <1>1, <2>1, <2>2 DEF FinalizedStay
<1>9. TypeOK'
  <2>1. SpaceType' BY <1>2 DEF SpaceInv
  <2> QED BY <1>1, <1>6, <2>1, TypesAre DEF TypeOK, Record
<1>10. \A r \in Ref : Target(r) \in alloc' \cup {NoObj}
  <2> SUFFICES ASSUME NEW r \in Ref, Handle(r) # NoNode PROVE Target(r) \in alloc'
    BY DEF Target
  <2> QED BY <1>1, <1>5, HandleIs
<1> QED BY <1>2, <1>6, <1>7, <1>8, <1>9, <1>10 DEF RefInv

\* The reference of a dead node, which nobody pins, is finalized.
LEMMA FinalizeKeeps ==
  ASSUME RefInv, FinalizeNode
  PROVE  /\ RefInv'
         /\ \E r \in Ref :
              /\ \A s \in Ref \ {r} : reference'[s] = reference[s] /\ Target(s)' = Target(s)
              /\ Target(r)' = NoObj /\ Target(r) \notin held \cup {NoObj}
              /\ \A s \in Ref : Target(s) = Target(r) => reference[s].refcount = 0
              /\ reference[r].linked /\ reference[r].called = 0
              /\ reference'[r] = [reference[r] EXCEPT !.handle = NoNode, !.refcount = 0,
                   !.callback = FALSE, !.called = IF reference[r].wanted THEN 1 ELSE 0]
<1> DEFINE n == iterator
           r == nodes[n].ref
<1>1. /\ gc = "walk" /\ n # NoNode /\ IsDead(n) /\ BeginFinalize(r, reference[r].refcount)
      /\ gc' = CallOrReturn(r) /\ dying' = r
      /\ UNCHANGED <<alloc, held, marked, iterator, closing, closed>>
  BY DEF FinalizeNode, heap, ending
<1>2. n \in Node /\ nodes[n].state = "WEAK" /\ nodes[n].object \notin marked
  BY <1>1, TypesAre DEF IsDead
<1>3. r \in Ref /\ Handle(r) = n /\ reference[r].refcount = 0
  <2>1. PICK s \in Linked : Handle(s) = n BY <1>2 DEF RefInv, HandlesOwned, InUse
  <2>2. s \in Ref /\ Handle(s) # NoNode BY <1>1, <2>1 DEF Linked
  <2>3. nodes[n] = IF reference[s].refcount = 0 THEN Weak(Target(s), s) ELSE Normal(Target(s))
    BY <2>1, <2>2, HandleIs
  <2>4. reference[s].refcount = 0 /\ nodes[n].ref = s BY <1>2, <2>3 DEF Weak, Normal
  <2> QED BY <2>1, <2>2, <2>4
<1>4. /\ reference[r].linked /\ reference[r].called = 0 /\ Target(r) \in alloc
      /\ Target(r) = nodes[n].object
  BY <1>1, <1>3, HandleIs DEF Linked
<1>5. PICK q \in Ref : q = r BY <1>3
<1>6. /\ SpaceInv' /\ ReachStays /\ HandlesOwned' /\ RefsConsistent'
      /\ reference' \in [Ref -> Record]
      /\ \A m \in Node : nodes'[m] = IF m = Handle(q) THEN Free ELSE nodes[m]
      /\ \A s \in Ref \ {q} : reference'[s] = reference[s] /\ Target(s)' = Target(s)
      /\ Target(q)' = NoObj
      /\ reference'[q] = [reference[q] EXCEPT !.handle = NoNode, !.refcount = 0,
              !.callback = FALSE, !.called = IF reference[q].wanted THEN 1 ELSE 0]
  <2>1. /\ reference[q].linked /\ UNCHANGED iterator /\ closing' = closing
        /\ BeginFinalize(q, 0)
    BY <1>1, <1>3, <1>4, <1>5
  <2>2. closing # "no" => closing' # "no" BY <2>1
  <2> HIDE DEF n, r
  <2> QED BY <2>1, <2>2, BeginKeeps
<1>7. \A s \in Ref : Target(s) = Target(q) => reference[s].refcount = 0
  <2> SUFFICES ASSUME NEW s \in Ref, Target(s) = Target(q), reference[s].refcount # 0
               PROVE  FALSE
    OBVIOUS
  <2>1. Handle(s) # NoNode BY DEF RefInv, HandlesOwned
  <2>2. Handle(s) \in Node /\ nodes[Handle(s)] = Normal(Target(s)) BY <2>1, HandleIs
  <2>3. nodes[Handle(s)].state = "NORMAL" /\ nodes[Handle(s)].object = Target(s)
    BY <2>2 DEF Normal
  <2>4. Target(s) \in marked BY <1>1, <2>2, <2>3 DEF RefInv, CollectionInv
  <2> QED BY <1>2, <1>4, <1>5, <2>4
<1>8. Target(q) \notin held \cup {NoObj}
  BY <1>1, <1>2, <1>4, <1>5, TypesAre DEF RefInv, CollectionInv
<1>9. /\ reference[q] \in Record
      /\ reference[q].callback => ~reference[q].finalize_ran
      /\ reference[q].given /\ reference[q].delete_self => ~reference[q].callback
      /\ gc' = (IF reference[q].callback THEN "call" ELSE "return") /\ dying' = q
  BY <1>1, <1>5, TypesAre DEF RefInv, RefsConsistent, CallOrReturn
<1>10. /\ reference'[q].linked /\ reference'[q].handle = NoNode /\ ~reference'[q].callback
       /\ reference'[q].finalize_ran = reference[q].finalize_ran
       /\ reference'[q].given = reference[q].given
       /\ reference'[q].delete_self = reference[q].delete_self
  BY <1>4, <1>5, <1>6, <1>9 DEF Record
<1> HIDE DEF r, n
<1>11. FinalizedStay'
  <2>1. Finalizing(q, FALSE)' BY <1>10 DEF Finalizing, Linked, Handle
  <2>2. reference[q].callback => Finalizing(q, TRUE)'
    BY <1>9, <1>10 DEF Finalizing, Linked, Handle
  <2>3. gc' \in {"call", "return"} /\ (Finalizing(dying, gc = "call"))'
    BY <1>9, <2>1, <2>2 DEF Finalizing
  <2>4. closed # q /\ (closed \in Ref => reference'[closed] = reference[closed])
    <3>1. closed \in Ref => Handle(closed) = NoNode
      BY TypesAre, OthersFinalizing DEF Finalizing
    <3> QED BY <1>1, <1>3, <1>5, <1>6, <3>1
  <2>5. IF closing' \in {"call", "return"} THEN (Finalizing(closed, closing = "call"))'
        ELSE closed' = NoRef
    BY <1>1, <2>4, ClosedStays
  <2>6. closing' \in {"no", "call"} BY <1>1, OthersFinalizing
  <2> QED BY <1>1, <1>9, <2>3, <2>4, <2>5, <2>6 DEF FinalizedStay
<1>12. DeadAreAhead'
  <2> SUFFICES ASSUME NEW m \in Node, IsDead(m)'
               PROVE  Ahead(iterator[1], iterator[2] + 1, m)'
    BY <1>9 DEF DeadAreAhead
  <2>1. m # n /\ nodes'[m] = nodes[m] BY <1>3, <1>5, <1>6 DEF IsDead, Free
  <2>2. IsDead(m) /\ InUse(m) /\ InUse(m)' BY <1>1, <2>1 DEF IsDead, InUse
  <2>3. Ahead(iterator[1], iterator[2] + 1, m) BY <1>1, <2>1, <2>2, WalkPasses DEF n
  <2>4. PICK b \in Block : b = iterator[1] BY <1>2, BlocksAndNodes DEF n
  <2>5. PICK i : i = iterator[2] + 1 OBVIOUS
  <2>6. Ahead(b, i, m)' BY <1>6, <2>2, <2>3, <2>4, <2>5, AheadKept
  <2> QED BY <1>1, <2>4, <2>5, <2>6 DEF Ahead
<1>13. CollectionInv'
  <2>1. /\ held \subseteq marked /\ marked \subseteq alloc
        /\ \A m \in Node : InUse(m) => nodes[m].object \in alloc
        /\ \A m \in Node : nodes[m].state = "NORMAL" => nodes[m].object \in marked
    BY <1>1 DEF RefInv, CollectionInv
  <2>2. \A m \in Node : nodes'[m].state # "FREE" => nodes'[m] = nodes[m] BY <1>6 DEF Free
  <2> QED BY <1>1, <1>12, <2>1, <2>2 DEF CollectionInv, InUse, n
<1>14. TypeOK'
  <2>1. SpaceType' BY <1>6 DEF SpaceInv
  <2> QED BY <1>1, <1>6, <1>9, <2>1, TypesAre DEF TypeOK, Record
<1>15. RefInv' BY <1>6, <1>11, <1>13, <1>14 DEF RefInv
<1> QED BY <1>4, <1>5, <1>6, <1>7, <1>8, <1>15

\* After the callback the walk goes on with the next node.
LEMMA ReturnKeeps ==
  ASSUME RefInv, FinalizerReturns
  PROVE  /\ RefInv'
         /\ \A s \in Ref : Target(s)' = Target(s)
         /\ \E r \in Ref :
              /\ \A s \in Ref \ {r} : reference'[s] = reference[s]
              /\ reference[r].linked /\ Target(r) = NoObj
              /\ reference'[r] \in Returned(reference[r])
              /\ reference'[r] = Freed => closing # "no" \/ ~reference[r].given
<1>1. /\ gc \in {"call", "return"} /\ EndFinalize(dying, FALSE)
      /\ gc' = "walk" /\ dying' = NoRef /\ iterator' = NextNode
      /\ UNCHANGED <<space, alloc, held, marked, closing, closed>>
  BY DEF FinalizerReturns, heap, ending
<1>2. iterator \in Node BY <1>1, TypesAre DEF RefInv, CollectionInv
<1>3. /\ NextNode \in Node \cup {NoNode}
      /\ \A n \in Node :
           Ahead(iterator[1], iterator[2] + 1, n) => Ahead(NextNode[1], NextNode[2], n)
  BY <1>2, NextAhead DEF RefInv
<1>4. PICK r \in Ref : r = dying BY <1>1, OthersFinalizing
<1>5. Handle(r) = NoNode /\ reference[r].linked /\ ~reference[r].callback
  BY <1>1, <1>4, OthersFinalizing DEF Finalizing, Linked
<1>6. /\ SpaceInv' /\ HandlesOwned' /\ RefsConsistent'
      /\ reference' \in [Ref -> Record]
      /\ \A s \in Ref \ {r} : reference'[s] = reference[s]
      /\ \A s \in Ref : Target(s)' = Target(s)
      /\ reference'[r] \in Returned(reference[r])
      /\ reference'[r] = Freed => closing # "no" \/ ~reference[r].given
  BY <1>1, <1>3, <1>4, <1>5, EndKeeps
<1>7. nodes' = nodes /\ nextUsed' = nextUsed BY <1>1 DEF space
<1>8. FinalizedStay'
  <2>1. closed \in Ref => reference'[closed] = reference[closed]
    BY <1>4, <1>6, TypesAre, OthersFinalizing
  <2>2. IF closing' \in {"call", "return"} THEN (Finalizing(closed, closing = "call"))'
        ELSE closed' = NoRef
    BY <1>1, <2>1, ClosedStays
  <2>3. closing' \in {"no", "call"} BY <1>1, OthersFinalizing
  <2> QED BY <1>1, <2>2, <2>3 DEF FinalizedStay
<1>9. DeadAreAhead'
  <2> SUFFICES ASSUME NEW n \in Node, IsDead(n)
               PROVE  Ahead(iterator[1], iterator[2], n)'
    BY <1>1, <1>7 DEF DeadAreAhead, IsDead
  <2>1. Ahead(iterator[1], iterator[2] + 1, n)
    BY <1>1 DEF RefInv, CollectionInv, DeadAreAhead
  <2>2. Ahead(NextNode[1], NextNode[2], n) BY <1>3, <2>1
  <2>3. PICK m : m = NextNode OBVIOUS
  <2>4. Ahead(m[1], m[2], n) BY <2>2, <2>3
  <2>5. Ahead(m[1], m[2], n)' BY <1>7, <2>4 DEF Ahead, Reaches, Closed
  <2> QED BY <1>1, <2>3, <2>5 DEF Ahead
<1>10. CollectionInv'
  <2>1. CollectionInv BY DEF RefInv
  <2> QED BY <1>1, <1>7, <1>9, <2>1 DEF CollectionInv, InUse
<1>11. TypeOK'
  <2>1. SpaceType' BY <1>6 DEF SpaceInv
  <2> QED BY <1>1, <1>6, <2>1, TypesAre DEF TypeOK, Record
<1>12. RefInv' BY <1>6, <1>8, <1>10, <1>11 DEF RefInv
<1> QED BY <1>5, <1>6, <1>12 DEF Target

-----------------------------------------------------------------------------
(* Closing.                                                                *)

\* Nothing but the progress of the closing changes.
LEMMA ListsKeep ==
  ASSUME RefInv, BeginClosing \/ EndClosing \/ Ended
  PROVE  RefInv' /\ \A s \in Ref : Target(s)' = Target(s)
<1>1. CASE Ended
  <2>1. UNCHANGED <<space, iterator, reference, alloc, held, marked, gc, dying, closing, closed>>
    BY <1>1 DEF Ended, vars, heap, collecting, ending
  <2>2. SpaceInv' /\ RefsConsistent' /\ HandlesOwned'
        /\ \A s \in Ref : Target(s)' = Target(s) /\ Handle(s)' = Handle(s)
    BY <2>1, TypesAre, SameRefs
  <2>3. UNCHANGED <<nodes, nextUsed>> BY <2>1 DEF space
  <2>4. FinalizedStay'
    <3>1. FinalizedStay BY DEF RefInv
    <3> QED BY <2>1, <3>1 DEF FinalizedStay, Finalizing, Linked, Handle
  <2>5. CollectionInv'
    <3>1. CollectionInv BY DEF RefInv
    <3> QED BY <2>1, <2>3, <3>1
      DEF CollectionInv, InUse, DeadAreAhead, IsDead, Ahead, Reaches, Closed
  <2>6. TypeOK'
    <3>1. SpaceType' BY <2>2 DEF SpaceInv
    <3> QED BY <2>1, <3>1, TypesAre DEF TypeOK, Record
  <2> QED BY <2>2, <2>4, <2>5, <2>6 DEF RefInv
<1>2. CASE BeginClosing \/ EndClosing
  <2>1. /\ gc = "off" /\ closing \in {"no", "lists"} /\ closing' \in {"lists", "closed"}
        /\ UNCHANGED <<space, iterator, reference, alloc, held, marked, gc, dying, closed>>
    BY <1>2 DEF BeginClosing, EndClosing, heap, collecting
  <2>2. SpaceInv' /\ RefsConsistent' /\ HandlesOwned'
        /\ \A s \in Ref : Target(s)' = Target(s) /\ Handle(s)' = Handle(s)
    BY <2>1, TypesAre, SameRefs
  <2>3. nodes' = nodes BY <2>1 DEF space
  <2>4. FinalizedStay' BY <2>1, OthersFinalizing DEF FinalizedStay
  <2>5. CollectionInv' BY <2>1, <2>3 DEF RefInv, CollectionInv, InUse
  <2>6. TypeOK'
    <3>1. SpaceType' BY <2>2 DEF SpaceInv
    <3> QED BY <2>1, <3>1, TypesAre DEF TypeOK, Record
  <2> QED BY <2>2, <2>4, <2>5, <2>6 DEF RefInv
<1> QED BY <1>1, <1>2

\* A reference in the lists is finalized, whoever has it.
LEMMA CloseKeeps ==
  ASSUME RefInv, NEW r \in Ref, CloseNext(r)
  PROVE  /\ RefInv' /\ closing = "lists" /\ closing' # "no" /\ reference[r].linked
         /\ \A s \in Ref \ {r} : reference'[s] = reference[s] /\ Target(s)' = Target(s)
         /\ Target(r)' = NoObj
         /\ reference'[r] = [reference[r] EXCEPT !.handle = NoNode, !.refcount = 0,
              !.callback = FALSE, !.called = IF reference[r].wanted THEN 1 ELSE 0]
<1>1. /\ gc = "off" /\ closing = "lists" /\ BeginFinalize(r, 0) /\ reference[r].linked
      /\ closing' = (IF reference[r].callback THEN "call" ELSE "return") /\ closed' = r
      /\ UNCHANGED <<alloc, held, marked, gc, dying, iterator>>
  BY DEF CloseNext, CallOrReturn, HadFinalizer, Linked, heap, collecting
<1>2. /\ SpaceInv' /\ ReachStays /\ HandlesOwned' /\ RefsConsistent'
      /\ reference' \in [Ref -> Record]
      /\ \A m \in Node : nodes'[m] = IF m = Handle(r) THEN Free ELSE nodes[m]
      /\ \A s \in Ref \ {r} : reference'[s] = reference[s] /\ Target(s)' = Target(s)
      /\ Target(r)' = NoObj
      /\ reference'[r] = [reference[r] EXCEPT !.handle = NoNode, !.refcount = 0,
              !.callback = FALSE, !.called = IF reference[r].wanted THEN 1 ELSE 0]
  BY <1>1, BeginKeeps
<1>3. /\ reference[r] \in Record
      /\ reference[r].callback => ~reference[r].finalize_ran
      /\ reference[r].given /\ reference[r].delete_self => ~reference[r].callback
  BY TypesAre DEF RefInv, RefsConsistent
<1>4. /\ reference'[r].linked /\ reference'[r].handle = NoNode /\ ~reference'[r].callback
      /\ reference'[r].finalize_ran = reference[r].finalize_ran
      /\ reference'[r].given = reference[r].given
      /\ reference'[r].delete_self = reference[r].delete_self
  BY <1>1, <1>2, <1>3 DEF Record
<1>5. FinalizedStay'
  <2>1. Finalizing(r, FALSE)' BY <1>4 DEF Finalizing, Linked, Handle
  <2>2. reference[r].callback => Finalizing(r, TRUE)'
    BY <1>3, <1>4 DEF Finalizing, Linked, Handle
  <2>3. closing' \in {"call", "return"} /\ (Finalizing(closed, closing = "call"))'
    BY <1>1, <2>1, <2>2 DEF Finalizing
  <2>4. dying' = NoRef /\ r # NoRef BY <1>1, TypesAre, OthersFinalizing
  <2> QED BY <1>1, <2>3, <2>4 DEF FinalizedStay
<1>6. CollectionInv'
  <2>1. Handle(r) \in Node => nodes'[Handle(r)].state = "FREE" BY <1>2 DEF Free
  <2> QED BY <1>1, <1>2, <2>1, CollectionKept
<1>7. TypeOK'
  <2>1. SpaceType' BY <1>2 DEF SpaceInv
  <2> QED BY <1>1, <1>2, <2>1, TypesAre DEF TypeOK, Record
<1>8. RefInv' BY <1>2, <1>5, <1>6, <1>7 DEF RefInv
<1> QED BY <1>1, <1>2, <1>8

\* After the callback the closing goes on with the lists.
LEMMA CloseReturnKeeps ==
  ASSUME RefInv, CloseReturns
  PROVE  /\ RefInv' /\ closing' # "no" /\ closing # "no"
         /\ \A s \in Ref : Target(s)' = Target(s)
         /\ \E r \in Ref :
              /\ \A s \in Ref \ {r} : reference'[s] = reference[s]
              /\ reference[r].linked /\ Target(r) = NoObj
              /\ reference'[r] \in Returned(reference[r])
<1>1. /\ gc = "off" /\ closing \in {"call", "return"} /\ EndFinalize(closed, TRUE)
      /\ closing' = "lists" /\ closed' = NoRef
      /\ UNCHANGED <<space, alloc, held, marked, gc, dying, iterator>>
  BY DEF CloseReturns, heap, collecting
<1>2. PICK r \in Ref : r = closed BY <1>1, OthersFinalizing
<1>3. Handle(r) = NoNode /\ reference[r].linked /\ ~reference[r].callback
  BY <1>1, <1>2, OthersFinalizing DEF Finalizing, Linked
<1>4. /\ SpaceInv' /\ HandlesOwned' /\ RefsConsistent'
      /\ reference' \in [Ref -> Record]
      /\ \A s \in Ref \ {r} : reference'[s] = reference[s]
      /\ \A s \in Ref : Target(s)' = Target(s)
      /\ reference'[r] \in Returned(reference[r])
  BY <1>1, <1>2, <1>3, TypesAre, EndKeeps
<1>5. nodes' = nodes BY <1>1 DEF space
<1>6. FinalizedStay' BY <1>1, OthersFinalizing DEF FinalizedStay
<1>7. CollectionInv' BY <1>1, <1>5 DEF RefInv, CollectionInv, InUse
<1>8. TypeOK'
  <2>1. SpaceType' BY <1>4 DEF SpaceInv
  <2> QED BY <1>1, <1>4, <2>1, TypesAre DEF TypeOK, Record
<1>9. RefInv' BY <1>4, <1>6, <1>7, <1>8 DEF RefInv
<1> QED BY <1>1, <1>3, <1>4, <1>9 DEF Target

-----------------------------------------------------------------------------
(* The theorems.                                                           *)

\* Before the first reference there are no blocks.
LEMMA InitialRefs ==
  ASSUME Init
  PROVE  RefInv
<1>1. /\ nodes = [n \in Node |-> Free] /\ freeList = <<>> /\ blocks = 0
      /\ usedNodes = [b \in Block |-> 0]
      /\ nextUsed = [b \in Block |-> NoBlock] /\ prevUsed = [b \in Block |-> NoBlock]
      /\ firstUsed = NoBlock /\ hasCallbacks = FALSE /\ iterator = NoNode
      /\ alloc = {} /\ held = {} /\ marked = {}
      /\ gc = "off" /\ dying = NoRef /\ closing = "no" /\ closed = NoRef
      /\ reference = [r \in Ref |-> Freed]
  BY DEF Init, SpaceInit
<1>2. \A n \in Node : nodes[n] = Free /\ nodes[n].state = "FREE" /\ ~InUse(n)
  BY <1>1 DEF Free, InUse
<1>3. \A b \in Block : UsedIn(b) = {} BY <1>2 DEF UsedIn
<1>4. UsedBlocks = {} BY <1>3 DEF UsedBlocks
<1>5. SpaceType
  <2>1. Free \in [state : {"FREE", "NORMAL", "WEAK"}, object : Obj \cup {NoObj},
                  ref : Ref \cup {NoRef}]
    BY DEF Free
  <2>2. /\ nodes \in [Node -> [state : {"FREE", "NORMAL", "WEAK"}, object : Obj \cup {NoObj},
                               ref : Ref \cup {NoRef}]]
        /\ freeList \in Seq(Node) /\ blocks \in 0..MaxBlocks
        /\ usedNodes \in [Block -> 0..BlockSize]
    BY <1>1, <2>1, GlobalHandlesAssumption
  <2> QED BY <1>1, <2>2 DEF SpaceType
<1>6. SpaceCounts BY <1>1, <1>3, FS_EmptySet DEF SpaceCounts
<1>7. FreeListed
  <2>1. ToSet(freeList) = {} /\ IsInjective(freeList) BY <1>1 DEF ToSet, IsInjective
  <2>2. \A n \in Node : ~(n[1] <= blocks) BY <1>1, BlocksAndNodes DEF Block
  <2> QED BY <2>1, <2>2 DEF FreeListed
<1>8. SpaceInv
  BY <1>1, <1>2, <1>4, <1>5, <1>6, <1>7 DEF SpaceInv, BlocksLinked, CallbacksKnown
<1>9. Freed \in Record BY ReferencesAssumption DEF Freed, Record
<1>10. TypeOK BY <1>1, <1>5, <1>9 DEF TypeOK, Record
<1>11. \A r \in Ref : reference[r] = Freed /\ Handle(r) = NoNode
  BY <1>1 DEF Handle, Freed
<1>12. RefsConsistent
  <2>1. /\ Freed.given = FALSE /\ Freed.callback = FALSE /\ Freed.wanted = FALSE
        /\ Freed.called = 0
    BY DEF Freed
  <2>2. Freed.called # 1 BY <2>1
  <2>3. Freed.callback = (Freed.wanted /\ Freed.called = 0) BY <2>1
  <2> QED BY <1>11, <2>1, <2>2, <2>3 DEF RefsConsistent
<1>13. HandlesOwned BY <1>2, <1>11 DEF HandlesOwned, Freed
<1>14. FinalizedStay /\ CollectionInv BY <1>1, <1>2 DEF FinalizedStay, CollectionInv
<1> QED BY <1>8, <1>10, <1>12, <1>13, <1>14 DEF RefInv

\* No step of JavaScript, the module, a collection or the closing breaks the invariant.
LEMMA StepKeepsRefs ==
  ASSUME RefInv, Available = TRUE, [Next]_vars
  PROVE  RefInv'
<1>1. ASSUME NEW o \in Obj, Allocate(o) \/ Drop(o) PROVE RefInv'
  BY <1>1, MutatorKeeps
<1>2. ASSUME NEW r \in Ref, napi_get_reference_value(r) PROVE RefInv'
  BY <1>2, MutatorKeeps
<1>3. ASSUME NEW r \in Ref, NEW o \in Obj, napi_create_reference(r, o) \/ Wrap(r, o)
      PROVE  RefInv'
  <2>1. PICK initial \in {0, 1}, self \in BOOLEAN, finalizer \in BOOLEAN :
          New(r, o, initial, self, finalizer)
    BY <1>3 DEF napi_create_reference, Wrap
  <2> QED BY <2>1, NewKeeps
<1>4. ASSUME NEW r \in Ref, napi_delete_reference(r) \/ RemoveWrap(r) PROVE RefInv'
  BY <1>4, DeleteKeeps
<1>5. ASSUME NEW r \in Ref, napi_reference_ref(r) \/ napi_reference_unref(r) PROVE RefInv'
  BY <1>5, CountKeeps
<1>6. CASE ModuleStep BY <1>2, <1>3, <1>4, <1>5, <1>6 DEF ModuleStep
<1>7. CASE CollectionStep
  BY <1>7, StartKeeps, PassKeeps, FinalizeKeeps, ReturnKeeps, SweepKeeps DEF CollectionStep
<1>8. CASE ClosingStep BY <1>8, ListsKeep, CloseKeeps, CloseReturnKeeps DEF ClosingStep
<1>9. CASE UNCHANGED vars
  <2>1. UNCHANGED <<space, iterator, reference, alloc, held, marked, gc, dying, closing, closed>>
    BY <1>9 DEF vars, heap, collecting, ending
  <2>2. SpaceInv' /\ RefsConsistent' /\ HandlesOwned' BY <2>1, TypesAre, SameRefs
  <2>3. UNCHANGED <<nodes, nextUsed>> BY <2>1 DEF space
  <2>4. FinalizedStay'
    <3>1. FinalizedStay BY DEF RefInv
    <3> QED BY <2>1, <3>1 DEF FinalizedStay, Finalizing, Linked, Handle
  <2>5. CollectionInv'
    <3>1. CollectionInv BY DEF RefInv
    <3> QED BY <2>1, <2>3, <3>1
      DEF CollectionInv, InUse, DeadAreAhead, IsDead, Ahead, Reaches, Closed
  <2>6. TypeOK'
    <3>1. SpaceType' BY <2>2 DEF SpaceInv
    <3> QED BY <2>1, <3>1, TypesAre DEF TypeOK, Record
  <2> QED BY <2>2, <2>4, <2>5, <2>6 DEF RefInv
<1> QED BY <1>1, <1>6, <1>7, <1>8, <1>9 DEF Next

\* The invariant holds as long as modules count up, and get, only what they may.
LEMMA RefAlways ==
  ASSUME Available = TRUE
  PROVE  Spec => []RefInv
<1>1. Init => RefInv BY InitialRefs
<1>2. RefInv /\ [Next]_vars => RefInv' BY StepKeepsRefs
<1> QED BY <1>1, <1>2, PTL DEF Spec

\* Every field of a handle, a block and a reference has a value of its type.
THEOREM ReferencesTyped ==
  ASSUME Available = TRUE
  PROVE  Spec => []TypeOK
<1>1. RefInv => TypeOK BY DEF RefInv
<1> QED BY <1>1, RefAlways, PTL

\* The blocks and the free nodes are where NodeSpace's lists say, each node in use is the
\* handle of one reference, and callbacks return to references that still exist.
THEOREM HandlesAlwaysMatch ==
  ASSUME Available = TRUE
  PROVE  Spec => []HandlesMatch
<1>1. ASSUME RefInv PROVE HandlesMatch
  <2>1. SpaceConsistent
    <3>1. (firstUsed = NoBlock) = (UsedBlocks = {})
      <4>1. ASSUME NEW b \in UsedBlocks PROVE firstUsed # NoBlock
        <5>1. Reaches(firstUsed, b) BY <1>1 DEF RefInv, SpaceInv, BlocksLinked
        <5> QED BY <5>1, NothingReaches
      <4>2. UsedBlocks = {} => firstUsed = NoBlock
        BY <1>1 DEF RefInv, SpaceInv, BlocksLinked
      <4> QED BY <4>1, <4>2
    <3>2. SpaceCounts /\ FreeListed /\ BlocksLinked BY <1>1 DEF RefInv, SpaceInv
    <3> QED BY <3>1, <3>2 DEF SpaceConsistent, SpaceCounts, FreeListed, BlocksLinked
  <2>2. {dying, closed} \subseteq Linked \cup {NoRef}
    BY <1>1, OthersFinalizing DEF Finalizing
  <2>3. HandlesOwned BY <1>1 DEF RefInv
  <2> QED BY <2>1, <2>2, <2>3 DEF HandlesMatch, HandlesOwned
<1> QED BY <1>1, RefAlways, PTL

\* napi_create_reference and napi_reference_ref pin an object that is not about to be
\* reclaimed.
THEOREM CountedStaysPinned ==
  ASSUME Available = TRUE
  PROVE  Spec => []CountedIsPinned
<1>1. ASSUME RefInv PROVE CountedIsPinned
  <2> SUFFICES ASSUME NEW r \in Ref, reference[r].refcount > 0 PROVE Target(r) \in alloc
    BY DEF CountedIsPinned
  <2>1. reference[r].refcount # 0 BY <1>1, TypesAre DEF Record
  <2>2. Handle(r) # NoNode BY <1>1, <2>1 DEF RefInv, HandlesOwned
  <2> QED BY <1>1, <2>2, HandleIs
<1> QED BY <1>1, RefAlways, PTL

-----------------------------------------------------------------------------
(* What modules rely on.                                                   *)

\* What a reference promises while another one changes.
LEMMA PromiseChanges ==
  ASSUME NEW r \in Ref,
         \A s \in Ref \ {r} : reference'[s] = reference[s] /\ Target(s)' = Target(s)
  PROVE  [s \in Ref |-> PromisedReference(s)]' =
           [[s \in Ref |-> PromisedReference(s)] EXCEPT ![r] =
              [target |-> Target(r)', count |-> reference'[r].refcount,
               given |-> reference'[r].given, wanted |-> reference'[r].wanted,
               called |-> reference'[r].called, exists |-> reference'[r].linked]]
<1> DEFINE new == [target |-> Target(r)', count |-> reference'[r].refcount,
                   given |-> reference'[r].given, wanted |-> reference'[r].wanted,
                   called |-> reference'[r].called, exists |-> reference'[r].linked]
<1>1. PromisedReference(r)' = new BY DEF PromisedReference
<1>2. \A s \in Ref \ {r} : PromisedReference(s)' = PromisedReference(s)
  BY DEF PromisedReference
<1> QED BY <1>1, <1>2

\* Nothing that a reference promises changes.
LEMMA PromiseStays ==
  ASSUME \A s \in Ref : /\ Target(s)' = Target(s)
                        /\ reference'[s].refcount = reference[s].refcount
                        /\ reference'[s].given = reference[s].given
                        /\ reference'[s].wanted = reference[s].wanted
                        /\ reference'[s].called = reference[s].called
                        /\ reference'[s].linked = reference[s].linked
  PROVE  [s \in Ref |-> PromisedReference(s)]' = [s \in Ref |-> PromisedReference(s)]
<1>1. \A s \in Ref : PromisedReference(s)' = PromisedReference(s) BY DEF PromisedReference
<1> QED BY <1>1

\* The promise of one reference becomes what one of S says.
LEMMA BecomesOneOf ==
  ASSUME NEW r \in Ref, NEW S,
         \A s \in Ref \ {r} : reference'[s] = reference[s] /\ Target(s)' = Target(s),
         [target |-> Target(r)', count |-> reference'[r].refcount,
          given |-> reference'[r].given, wanted |-> reference'[r].wanted,
          called |-> reference'[r].called, exists |-> reference'[r].linked] \in S,
         UNCHANGED <<alloc, held>>, (closing' # "no") = (closing # "no")
  PROVE  Promise!Becomes(r, S)
<1> DEFINE new == [target |-> Target(r)', count |-> reference'[r].refcount,
                   given |-> reference'[r].given, wanted |-> reference'[r].wanted,
                   called |-> reference'[r].called, exists |-> reference'[r].linked]
<1>1. [s \in Ref |-> PromisedReference(s)]' =
        [[s \in Ref |-> PromisedReference(s)] EXCEPT ![r] = new]
  BY PromiseChanges
<1> HIDE DEF new
<1>2. new \in S BY DEF new
<1> QED BY <1>1, <1>2 DEF Promise!Becomes, Promise!objects

\* What JavaScript gets it had, or a reference gave it out.
LEMMA MutateStep ==
  ASSUME RefInv, NEW o,
         \/ o \in Obj /\ (Allocate(o) \/ Drop(o))
         \/ o \in Ref /\ napi_get_reference_value(o)
  PROVE  Promise!Next
<1>1. UNCHANGED <<space, reference, closing>>
  BY DEF Allocate, Drop, napi_get_reference_value, ending
<1>2. \A s \in Ref : Target(s)' = Target(s) /\ reference'[s] = reference[s]
  BY <1>1 DEF Target, Handle, space
<1>3. [s \in Ref |-> PromisedReference(s)]' = [s \in Ref |-> PromisedReference(s)]
  BY <1>2, PromiseStays
<1>4. \A r \in Ref : [s \in Ref |-> PromisedReference(s)][r].target = Target(r)
  BY DEF PromisedReference
<1>5. /\ alloc \subseteq alloc' /\ held' \subseteq alloc'
      /\ \A p \in held' \cap alloc : p \in held \/ \E r \in Ref : Target(r) = p
  <2>1. CASE o \in Obj /\ Allocate(o) BY <2>1, TypesAre DEF Allocate
  <2>2. CASE o \in Obj /\ Drop(o) BY <2>2, TypesAre DEF Drop
  <2>3. CASE o \in Ref /\ napi_get_reference_value(o)
    <3>1. Target(o) \in alloc BY <2>3, HandleIs DEF napi_get_reference_value
    <3> QED BY <2>3, <3>1, TypesAre DEF napi_get_reference_value
  <2> QED BY <2>1, <2>2, <2>3
<1>6. Promise!Mutate BY <1>1, <1>3, <1>4, <1>5 DEF Promise!Mutate
<1> QED BY <1>6 DEF Promise!Next

\* What a reference promises, field by field.
LEMMA PromiseFields ==
  ASSUME NEW r \in Ref
  PROVE  /\ [s \in Ref |-> PromisedReference(s)][r] =
              [target |-> Target(r), count |-> reference[r].refcount,
               given |-> reference[r].given, wanted |-> reference[r].wanted,
               called |-> reference[r].called, exists |-> reference[r].linked]
         /\ [s \in Ref |-> PromisedReference(s)][r].exists = reference[r].linked
         /\ [s \in Ref |-> PromisedReference(s)][r].given = reference[r].given
         /\ [s \in Ref |-> PromisedReference(s)][r].target = Target(r)
         /\ [s \in Ref |-> PromisedReference(s)][r].count = reference[r].refcount
         /\ [s \in Ref |-> PromisedReference(s)][r].called = reference[r].called
         /\ [s \in Ref |-> PromisedReference(s)][r].wanted = reference[r].wanted
BY DEF PromisedReference

\* A promise with no target, and another field changed.
LEMMA PromiseExcept ==
  ASSUME NEW r \in Ref, NEW called, NEW given
  PROVE  /\ [[s \in Ref |-> PromisedReference(s)][r] EXCEPT !.target = NoObj, !.called = called] =
              [target |-> NoObj, count |-> reference[r].refcount,
               given |-> reference[r].given, wanted |-> reference[r].wanted,
               called |-> called, exists |-> reference[r].linked]
         /\ [[s \in Ref |-> PromisedReference(s)][r] EXCEPT !.target = NoObj, !.given = given] =
              [target |-> NoObj, count |-> reference[r].refcount,
               given |-> given, wanted |-> reference[r].wanted,
               called |-> reference[r].called, exists |-> reference[r].linked]
<1> DEFINE x == [s \in Ref |-> PromisedReference(s)][r]
<1>1. x = [target |-> Target(r), count |-> reference[r].refcount,
           given |-> reference[r].given, wanted |-> reference[r].wanted,
           called |-> reference[r].called, exists |-> reference[r].linked]
  BY PromiseFields
<1> HIDE DEF x
<1>2. PICK y : y = [x EXCEPT !.target = NoObj] OBVIOUS
<1>3. y = [target |-> NoObj, count |-> reference[r].refcount,
           given |-> reference[r].given, wanted |-> reference[r].wanted,
           called |-> reference[r].called, exists |-> reference[r].linked]
  BY <1>1, <1>2
<1>4. /\ [x EXCEPT !.target = NoObj, !.called = called] = [y EXCEPT !.called = called]
      /\ [x EXCEPT !.target = NoObj, !.given = given] = [y EXCEPT !.given = given]
  BY <1>2
<1>5. [y EXCEPT !.called = called] =
        [target |-> NoObj, count |-> reference[r].refcount,
         given |-> reference[r].given, wanted |-> reference[r].wanted,
         called |-> called, exists |-> reference[r].linked]
  BY <1>3
<1>6. [y EXCEPT !.given = given] =
        [target |-> NoObj, count |-> reference[r].refcount,
         given |-> given, wanted |-> reference[r].wanted,
         called |-> reference[r].called, exists |-> reference[r].linked]
  BY <1>3
<1> QED BY <1>4, <1>5, <1>6 DEF x

\* A reference that the module makes promises what it leads to.
LEMMA CreateStep ==
  ASSUME RefInv, NEW r \in Ref, NEW o, NEW initial \in {0, 1}, NEW self \in BOOLEAN,
         NEW finalizer \in BOOLEAN, initial = 1 => ~self,
         New(r, o, initial, self, finalizer)
  PROVE  Promise!Next
<1>1. /\ o \in held /\ ~reference[r].linked /\ Target(r)' = o
      /\ \A s \in Ref \ {r} : reference'[s] = reference[s] /\ Target(s)' = Target(s)
      /\ reference'[r] =
              [linked |-> TRUE, refcount |-> initial, delete_self |-> self,
               finalize_ran |-> FALSE, callback |-> finalizer, handle |-> Handle(r)',
               given |-> ~self, wanted |-> finalizer, called |-> 0]
  BY NewKeeps
<1>2. UNCHANGED <<alloc, held, closing>> BY DEF New, heap, ending
<1> DEFINE S == [target : held, count : {0}, given : BOOLEAN, wanted : BOOLEAN, called : {0},
                 exists : {TRUE}]
             \cup [target : held, count : {1}, given : {TRUE}, wanted : BOOLEAN, called : {0},
                   exists : {TRUE}]
<1>3. [target |-> Target(r)', count |-> reference'[r].refcount,
       given |-> reference'[r].given, wanted |-> reference'[r].wanted,
       called |-> reference'[r].called, exists |-> reference'[r].linked] \in S
  <2>1. /\ reference'[r].refcount = initial /\ reference'[r].given = ~self
        /\ reference'[r].wanted = finalizer /\ reference'[r].called = 0
        /\ reference'[r].linked = TRUE
    BY <1>1
  <2>2. (~self) \in BOOLEAN /\ (initial = 1 => (~self) = TRUE)
    <3>1. (~self) = TRUE \/ (~self) = FALSE BY Zenon
    <3>2. (~self) \in BOOLEAN BY <3>1, Zenon
    <3>3. initial = 1 => (~self) = TRUE BY <3>1, Zenon
    <3> QED BY <3>2, <3>3
  <2>3. [target |-> o, count |-> initial, given |-> ~self, wanted |-> finalizer,
         called |-> 0, exists |-> TRUE] \in S
    <3>1. PICK given \in BOOLEAN : given = ~self BY <2>2
    <3>2. [target |-> o, count |-> initial, given |-> given, wanted |-> finalizer,
           called |-> 0, exists |-> TRUE] \in S
      BY <1>1, <2>2, <3>1
    <3> QED BY <3>1, <3>2
  <2> QED BY <1>1, <2>1, <2>3
<1> HIDE DEF S
<1>4. Promise!Becomes(r, S) BY <1>1, <1>2, <1>3, BecomesOneOf
<1>5. Promise!Create(r) BY <1>1, <1>4, PromiseFields DEF Promise!Create, S
<1> QED BY <1>5 DEF Promise!Next

\* A reference that is deleted gives nothing out any more.
LEMMA DeleteStep ==
  ASSUME RefInv, NEW r \in Ref, napi_delete_reference(r) \/ RemoveWrap(r)
  PROVE  Promise!Next
<1> DEFINE old == reference[r]
           P == [s \in Ref |-> PromisedReference(s)]
<1>1. /\ r \in Linked /\ Target(r)' = NoObj
      /\ \A s \in Ref \ {r} : reference'[s] = reference[s] /\ Target(s)' = Target(s)
      /\ reference'[r] \in {Freed, Deferred(old)}
  BY DeleteKeeps
<1>2. UNCHANGED <<alloc, held, closing>>
  BY DEF napi_delete_reference, RemoveWrap, Delete, heap, ending
<1>3. old \in Record BY TypesAre
<1> DEFINE new == [target |-> Target(r)', count |-> reference'[r].refcount,
                   given |-> reference'[r].given, wanted |-> reference'[r].wanted,
                   called |-> reference'[r].called, exists |-> reference'[r].linked]
           S == {Promise!None, [P[r] EXCEPT !.target = NoObj, !.given = FALSE]}
<1>4. new \in S
  <2>1. CASE reference'[r] = Freed
    <3>1. new = [target |-> NoObj, count |-> 0, given |-> FALSE, wanted |-> FALSE,
                 called |-> 0, exists |-> FALSE]
      BY <1>1, <2>1 DEF Freed
    <3>2. new = Promise!None BY <3>1 DEF Promise!None
    <3> QED BY <3>2
  <2>2. CASE reference'[r] = Deferred(old)
    <3>1. new = [target |-> NoObj, count |-> old.refcount, given |-> FALSE,
                 wanted |-> old.wanted, called |-> old.called, exists |-> old.linked]
      BY <1>1, <1>3, <2>2 DEF Deferred, Record
    <3>2. new = [P[r] EXCEPT !.target = NoObj, !.given = FALSE]
      <4>1. [P[r] EXCEPT !.target = NoObj, !.given = FALSE] =
              [target |-> NoObj, count |-> old.refcount, given |-> FALSE,
               wanted |-> old.wanted, called |-> old.called, exists |-> old.linked]
        BY PromiseExcept
      <4> HIDE DEF P, new
      <4> QED BY <3>1, <4>1
    <3> QED BY <3>2
  <2> QED BY <1>1, <2>1, <2>2
<1>5. Promise!Becomes(r, S)
  <2> HIDE DEF S
  <2> QED BY <1>1, <1>2, <1>4, BecomesOneOf
<1>6. Promise!Delete(r) BY <1>1, <1>5, PromiseFields DEF Promise!Delete, Linked
<1> QED BY <1>6 DEF Promise!Next

\* The count goes up or down by one.
LEMMA CountStep ==
  ASSUME RefInv, Available = TRUE, NEW r \in Ref,
         napi_reference_ref(r) \/ napi_reference_unref(r)
  PROVE  Promise!Next
<1> DEFINE old == reference[r]
           P == [s \in Ref |-> PromisedReference(s)]
<1>1. /\ old.given
      /\ \A s \in Ref \ {r} : reference'[s] = reference[s] /\ Target(s)' = Target(s)
      /\ Target(r)' = Target(r)
  BY CountKeeps
<1>2. PICK count \in 0..MaxCount :
        /\ reference'[r] = [reference[r] EXCEPT !.refcount = count]
        /\ \/ count = old.refcount + 1
           \/ old.refcount > 0 /\ count = old.refcount - 1
  BY CountKeeps
<1>3. UNCHANGED <<alloc, held, closing>>
  BY DEF napi_reference_ref, napi_reference_unref, heap, ending
<1>4. old \in Record BY TypesAre
<1> DEFINE new == [target |-> Target(r)', count |-> reference'[r].refcount,
                   given |-> reference'[r].given, wanted |-> reference'[r].wanted,
                   called |-> reference'[r].called, exists |-> reference'[r].linked]
           S == {[P[r] EXCEPT !.count = n] : n \in {P[r].count + 1} \cup
                  (IF P[r].count > 0 THEN {P[r].count - 1} ELSE {})}
<1>5. new = [P[r] EXCEPT !.count = count]
  <2>1. new = [target |-> Target(r), count |-> count, given |-> old.given,
               wanted |-> old.wanted, called |-> old.called, exists |-> old.linked]
    <3> PICK rec \in Record : rec = old BY <1>4
    <3>1. reference'[r] = [rec EXCEPT !.refcount = count] /\ Target(r)' = Target(r) BY <1>1, <1>2
    <3>2. PICK set : set = [rec EXCEPT !.refcount = count] OBVIOUS
    <3>3. /\ set.refcount = count /\ set.given = rec.given /\ set.wanted = rec.wanted
          /\ set.called = rec.called /\ set.linked = rec.linked
      BY <3>2 DEF Record
    <3>4. reference'[r] = set BY <3>1, <3>2
    <3> HIDE DEF P
    <3> QED BY <3>1, <3>3, <3>4
  <2>2. P[r] = [target |-> Target(r), count |-> old.refcount, given |-> old.given,
                wanted |-> old.wanted, called |-> old.called, exists |-> old.linked]
    BY PromiseFields
  <2> HIDE DEF P, new
  <2> QED BY <2>1, <2>2
<1>6. P[r].count = old.refcount BY PromiseFields
<1>7. new \in S
  <2> HIDE DEF P, new
  <2> QED BY <1>2, <1>5, <1>6
<1>8. Promise!Becomes(r, S)
  <2> HIDE DEF S
  <2> QED BY <1>1, <1>3, <1>7, BecomesOneOf
<1>9. Promise!Count(r) BY <1>1, <1>8, PromiseFields DEF Promise!Count
<1> QED BY <1>9 DEF Promise!Next

\* A weak reference loses its object only when nobody leads to that.
LEMMA DieStep ==
  ASSUME RefInv, FinalizeNode
  PROVE  Promise!Next
<1> DEFINE P == [s \in Ref |-> PromisedReference(s)]
<1>1. PICK r \in Ref :
        /\ \A s \in Ref \ {r} : reference'[s] = reference[s] /\ Target(s)' = Target(s)
        /\ Target(r)' = NoObj /\ Target(r) \notin held \cup {NoObj}
        /\ \A s \in Ref : Target(s) = Target(r) => reference[s].refcount = 0
        /\ reference[r].linked /\ reference[r].called = 0
        /\ reference'[r] = [reference[r] EXCEPT !.handle = NoNode, !.refcount = 0,
             !.callback = FALSE, !.called = IF reference[r].wanted THEN 1 ELSE 0]
  BY FinalizeKeeps
<1>2. UNCHANGED <<alloc, held, closing>> BY DEF FinalizeNode, heap, ending
<1>3. reference[r] \in Record /\ reference[r].refcount = 0 BY <1>1, TypesAre
<1> DEFINE new == [target |-> Target(r)', count |-> reference'[r].refcount,
                   given |-> reference'[r].given, wanted |-> reference'[r].wanted,
                   called |-> reference'[r].called, exists |-> reference'[r].linked]
<1>4. new = Promise!Finalized(r)
  <2>1. PICK called : called = IF reference[r].wanted THEN 1 ELSE 0 OBVIOUS
  <2>2. new = [target |-> NoObj, count |-> 0, given |-> reference[r].given,
               wanted |-> reference[r].wanted, called |-> called,
               exists |-> reference[r].linked]
    <3> PICK rec \in Record : rec = reference[r] BY <1>3
    <3>1. /\ reference'[r] = [rec EXCEPT !.handle = NoNode, !.refcount = 0,
                               !.callback = FALSE, !.called = called]
          /\ Target(r)' = NoObj
      BY <1>1, <2>1
    <3>2. PICK set : set = [rec EXCEPT !.handle = NoNode, !.refcount = 0,
                                       !.callback = FALSE, !.called = called]
      OBVIOUS
    <3>3. /\ set.refcount = 0 /\ set.given = rec.given /\ set.wanted = rec.wanted
          /\ set.called = called /\ set.linked = rec.linked
      BY <3>2 DEF Record
    <3>4. reference'[r] = set BY <3>1, <3>2
    <3> HIDE DEF P
    <3> QED BY <3>1, <3>3, <3>4
  <2>3. P[r].wanted = reference[r].wanted BY PromiseFields
  <2>4. Promise!Finalized(r) = [P[r] EXCEPT !.target = NoObj, !.called = called]
    BY <2>1, <2>3 DEF Promise!Finalized
  <2>5. [P[r] EXCEPT !.target = NoObj, !.called = called] =
          [target |-> NoObj, count |-> 0, given |-> reference[r].given,
           wanted |-> reference[r].wanted, called |-> called, exists |-> reference[r].linked]
    BY <1>3, PromiseExcept
  <2> HIDE DEF P, new
  <2> QED BY <2>2, <2>4, <2>5
<1>5. Promise!Becomes(r, {Promise!Finalized(r)})
  <2>1. new \in {Promise!Finalized(r)} BY <1>4
  <2> QED BY <1>1, <1>2, <2>1, BecomesOneOf
<1>6. \A s \in Ref : P[s].target = Target(s) /\ P[s].count = reference[s].refcount
                     /\ P[s].called = reference[s].called
  BY PromiseFields
<1>7. Promise!Die(r) BY <1>1, <1>5, <1>6 DEF Promise!Die
<1> QED BY <1>7 DEF Promise!Next

\* After a callback a reference is freed, or promises what it did.
LEMMA ReturnStep ==
  ASSUME RefInv, FinalizerReturns \/ CloseReturns
  PROVE  [Promise!Next]_(Promise!vars)
<1>1. PICK r \in Ref :
        /\ \A s \in Ref \ {r} : reference'[s] = reference[s]
        /\ reference[r].linked /\ Target(r) = NoObj
        /\ reference'[r] \in Returned(reference[r])
        /\ reference'[r] = Freed => closing # "no" \/ ~reference[r].given
  BY ReturnKeeps, CloseReturnKeeps
<1>2. \A s \in Ref : Target(s)' = Target(s) BY ReturnKeeps, CloseReturnKeeps
<1>3. UNCHANGED <<alloc, held>> /\ (closing' # "no") = (closing # "no")
  BY CloseReturnKeeps DEF FinalizerReturns, CloseReturns, heap, ending
<1>4. reference[r] \in Record BY TypesAre
<1>5. CASE reference'[r] = Freed
  <2> DEFINE new == [target |-> Target(r)', count |-> reference'[r].refcount,
                     given |-> reference'[r].given, wanted |-> reference'[r].wanted,
                     called |-> reference'[r].called, exists |-> reference'[r].linked]
  <2>1. new = [target |-> NoObj, count |-> 0, given |-> FALSE, wanted |-> FALSE,
               called |-> 0, exists |-> FALSE]
    <3>1. /\ Freed.refcount = 0 /\ Freed.given = FALSE /\ Freed.wanted = FALSE
          /\ Freed.called = 0 /\ Freed.linked = FALSE
      BY DEF Freed
    <3>2. Target(r)' = NoObj BY <1>1, <1>2
    <3> QED BY <1>5, <3>1, <3>2
  <2>2. new \in {Promise!None} BY <2>1 DEF Promise!None
  <2>3. Promise!Becomes(r, {Promise!None}) BY <1>1, <1>2, <1>3, <2>2, BecomesOneOf
  <2>4. Promise!Free(r) BY <1>1, <1>5, <2>3, PromiseFields DEF Promise!Free
  <2> QED BY <2>4 DEF Promise!Next
<1>6. CASE reference'[r] # Freed
  <2>1. /\ reference'[r].refcount = reference[r].refcount
        /\ reference'[r].given = reference[r].given
        /\ reference'[r].wanted = reference[r].wanted
        /\ reference'[r].called = reference[r].called
        /\ reference'[r].linked = reference[r].linked
    BY <1>1, <1>4, <1>6 DEF Returned, Record
  <2>2. [s \in Ref |-> PromisedReference(s)]' = [s \in Ref |-> PromisedReference(s)]
    <3>1. \A s \in Ref : /\ Target(s)' = Target(s)
                         /\ reference'[s].refcount = reference[s].refcount
                         /\ reference'[s].given = reference[s].given
                         /\ reference'[s].wanted = reference[s].wanted
                         /\ reference'[s].called = reference[s].called
                         /\ reference'[s].linked = reference[s].linked
      BY <1>1, <1>2, <2>1
    <3> QED BY <3>1, PromiseStays
  <2> QED BY <1>3, <2>2 DEF Promise!vars, Promise!objects
<1> QED BY <1>5, <1>6

\* The closing takes a reference out of the lists, whoever has it.
LEMMA CloseStep ==
  ASSUME RefInv, NEW r \in Ref, CloseNext(r)
  PROVE  Promise!Next
<1> DEFINE P == [s \in Ref |-> PromisedReference(s)]
<1>1. /\ closing = "lists" /\ closing' # "no" /\ reference[r].linked
      /\ \A s \in Ref \ {r} : reference'[s] = reference[s] /\ Target(s)' = Target(s)
      /\ Target(r)' = NoObj
      /\ reference'[r] = [reference[r] EXCEPT !.handle = NoNode, !.refcount = 0,
           !.callback = FALSE, !.called = IF reference[r].wanted THEN 1 ELSE 0]
  BY CloseKeeps
<1>2. UNCHANGED <<alloc, held>> /\ (closing' # "no") = (closing # "no")
  BY <1>1 DEF CloseNext, heap
<1>3. reference[r] \in Record BY TypesAre
<1> DEFINE new == [target |-> Target(r)', count |-> reference'[r].refcount,
                   given |-> reference'[r].given, wanted |-> reference'[r].wanted,
                   called |-> reference'[r].called, exists |-> reference'[r].linked]
<1>4. new = [Promise!Finalized(r) EXCEPT !.count = 0]
  <2>1. PICK called : called = IF reference[r].wanted THEN 1 ELSE 0 OBVIOUS
  <2>2. new = [target |-> NoObj, count |-> 0, given |-> reference[r].given,
               wanted |-> reference[r].wanted, called |-> called,
               exists |-> reference[r].linked]
    <3> PICK rec \in Record : rec = reference[r] BY <1>3
    <3>1. /\ reference'[r] = [rec EXCEPT !.handle = NoNode, !.refcount = 0,
                               !.callback = FALSE, !.called = called]
          /\ Target(r)' = NoObj
      BY <1>1, <2>1
    <3>2. PICK set : set = [rec EXCEPT !.handle = NoNode, !.refcount = 0,
                                       !.callback = FALSE, !.called = called]
      OBVIOUS
    <3>3. /\ set.refcount = 0 /\ set.given = rec.given /\ set.wanted = rec.wanted
          /\ set.called = called /\ set.linked = rec.linked
      BY <3>2 DEF Record
    <3>4. reference'[r] = set BY <3>1, <3>2
    <3> HIDE DEF P
    <3> QED BY <3>1, <3>3, <3>4
  <2>3. P[r].wanted = reference[r].wanted BY PromiseFields
  <2>4. Promise!Finalized(r) = [P[r] EXCEPT !.target = NoObj, !.called = called]
    BY <2>1, <2>3 DEF Promise!Finalized
  <2>5. [P[r] EXCEPT !.target = NoObj, !.called = called] =
          [target |-> NoObj, count |-> reference[r].refcount, given |-> reference[r].given,
           wanted |-> reference[r].wanted, called |-> called, exists |-> reference[r].linked]
    BY PromiseExcept
  <2> HIDE DEF P, new
  <2>6. PICK x : x = Promise!Finalized(r) OBVIOUS
  <2>7. x = [target |-> NoObj, count |-> reference[r].refcount, given |-> reference[r].given,
             wanted |-> reference[r].wanted, called |-> called,
             exists |-> reference[r].linked]
    BY <2>4, <2>5, <2>6
  <2>8. [x EXCEPT !.count = 0] =
          [target |-> NoObj, count |-> 0, given |-> reference[r].given,
           wanted |-> reference[r].wanted, called |-> called, exists |-> reference[r].linked]
    BY <2>7
  <2> QED BY <2>2, <2>6, <2>8
<1>5. Promise!Becomes(r, {[Promise!Finalized(r) EXCEPT !.count = 0]})
  <2>1. new \in {[Promise!Finalized(r) EXCEPT !.count = 0]} BY <1>4
  <2> QED BY <1>1, <1>2, <2>1, BecomesOneOf
<1>6. Promise!Close(r) BY <1>1, <1>5, PromiseFields DEF Promise!Close
<1> QED BY <1>6 DEF Promise!Next

\* What promises nothing new: marking, passing a node, and the progress of the closing.
LEMMA QuietStep ==
  ASSUME UNCHANGED <<space, reference, alloc, held>>, (closing' # "no") = (closing # "no")
  PROVE  UNCHANGED Promise!vars
<1>1. \A s \in Ref : Target(s)' = Target(s) /\ reference'[s] = reference[s]
  BY DEF Target, Handle, space
<1>2. [s \in Ref |-> PromisedReference(s)]' = [s \in Ref |-> PromisedReference(s)]
  BY <1>1, PromiseStays
<1> QED BY <1>2 DEF Promise!vars, Promise!objects

\* Every step keeps the promise of each reference, or changes nothing that is promised.
LEMMA StepImplements ==
  ASSUME RefInv, Available = TRUE, [Next]_vars
  PROVE  [Promise!Next]_(Promise!vars)
<1>1. ASSUME NEW o \in Obj, Allocate(o) \/ Drop(o) PROVE Promise!Next
  BY <1>1, MutateStep
<1>2. ASSUME NEW r \in Ref, napi_get_reference_value(r) PROVE Promise!Next
  BY <1>2, MutateStep
<1>3. ASSUME NEW r \in Ref, NEW o \in Obj, napi_create_reference(r, o) \/ Wrap(r, o)
      PROVE  Promise!Next
  <2>1. PICK initial \in {0, 1}, self \in BOOLEAN, finalizer \in BOOLEAN :
          New(r, o, initial, self, finalizer) /\ (initial = 1 => ~self)
    <3>1. CASE napi_create_reference(r, o)
      <4>1. PICK initial \in {0, 1} : New(r, o, initial, FALSE, FALSE)
        BY <3>1 DEF napi_create_reference
      <4> QED BY <4>1
    <3>2. CASE New(r, o, 0, FALSE, TRUE) BY <3>2
    <3>3. CASE \E finalizer \in BOOLEAN : New(r, o, 0, TRUE, finalizer)
      <4>1. PICK finalizer \in BOOLEAN : New(r, o, 0, TRUE, finalizer) BY <3>3
      <4>2. TRUE \in BOOLEAN /\ 0 \in {0, 1} /\ 0 # 1 OBVIOUS
      <4> QED BY <4>1, <4>2
    <3> QED BY <1>3, <3>1, <3>2, <3>3 DEF Wrap
  <2> QED BY <2>1, CreateStep
<1>4. ASSUME NEW r \in Ref, napi_delete_reference(r) \/ RemoveWrap(r) PROVE Promise!Next
  BY <1>4, DeleteStep
<1>5. ASSUME NEW r \in Ref, napi_reference_ref(r) \/ napi_reference_unref(r)
      PROVE  Promise!Next
  BY <1>5, CountStep
<1>6. CASE ModuleStep BY <1>2, <1>3, <1>4, <1>5, <1>6 DEF ModuleStep
<1>7. CASE StartCollection \/ PassNode
  BY <1>7, QuietStep DEF StartCollection, PassNode, heap, ending
<1>8. CASE FinalizeNode BY <1>8, DieStep
<1>9. CASE FinalizerReturns \/ CloseReturns BY <1>9, ReturnStep
<1>10. CASE Sweep
  <2>1. /\ held \subseteq alloc'
        /\ \A r \in Ref : Target(r)' = Target(r) /\ Target(r) \in alloc' \cup {NoObj}
    BY <1>10, SweepKeeps
  <2>2. UNCHANGED <<held, closing, reference>> /\ alloc' \subseteq alloc
    BY <1>10 DEF Sweep, ending
  <2>3. [s \in Ref |-> PromisedReference(s)]' = [s \in Ref |-> PromisedReference(s)]
    BY <2>1, <2>2, PromiseStays
  <2>4. Promise!Reclaim BY <2>1, <2>2, <2>3, PromiseFields DEF Promise!Reclaim
  <2> QED BY <2>4 DEF Promise!Next
<1>11. CASE BeginClosing
  <2>1. UNCHANGED <<space, reference, alloc, held>> /\ closing = "no" /\ closing' = "lists"
    BY <1>11 DEF BeginClosing, heap
  <2>2. \A s \in Ref : Target(s)' = Target(s) /\ reference'[s] = reference[s]
    BY <2>1 DEF Target, Handle, space
  <2>3. [s \in Ref |-> PromisedReference(s)]' = [s \in Ref |-> PromisedReference(s)]
    BY <2>2, PromiseStays
  <2>4. Promise!BeginClose BY <2>1, <2>3 DEF Promise!BeginClose, Promise!objects
  <2> QED BY <2>4 DEF Promise!Next
<1>12. ASSUME NEW r \in Ref, CloseNext(r) PROVE Promise!Next BY <1>12, CloseStep
<1>13. CASE EndClosing \/ Ended \/ UNCHANGED vars
  <2>1. UNCHANGED <<space, reference, alloc, held>> /\ (closing' # "no") = (closing # "no")
    BY <1>13 DEF EndClosing, Ended, vars, heap, ending
  <2> QED BY <2>1, QuietStep
<1>14. CASE CollectionStep BY <1>7, <1>8, <1>9, <1>10, <1>14 DEF CollectionStep
<1>15. CASE ClosingStep BY <1>9, <1>11, <1>12, <1>13, <1>15 DEF ClosingStep
<1> QED BY <1>1, <1>6, <1>13, <1>14, <1>15 DEF Next

\* A reference keeps its promise: an object is not reclaimed while a reference with a count
\* leads to it, a weak one loses it only when nobody else leads to it, and a finalizer is
\* called once, then or when the environment is closed.
THEOREM ReferencesKeepPromise ==
  ASSUME Available = TRUE
  PROVE  Spec => ImplementsReferences
<1>1. ASSUME Init PROVE Promise!Init
  <2>1. \A r \in Ref : PromisedReference(r) = Promise!None
    BY <1>1 DEF Init, Target, Handle, Freed, PromisedReference, Promise!None
  <2> QED BY <1>1, <2>1 DEF Init, Promise!Init
<1>2. RefInv /\ [Next]_vars => [Promise!Next]_(Promise!vars) BY StepImplements
<1> QED BY <1>1, <1>2, RefAlways, PTL DEF Spec, ImplementsReferences, Promise!Spec
=============================================================================
