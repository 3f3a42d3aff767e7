--------------------------- MODULE AllocatorProofs ---------------------------
(***************************************************************************)
(* The heap stays in order, and a sweep reclaims what was not marked and   *)
(* nothing else, for any pages, size classes and workers.  The operations  *)
(* of ThreeTierList come first: they keep it a list, for any pages.        *)
(***************************************************************************)
EXTENDS Allocator, FiniteSetTheorems, TLAPS

-----------------------------------------------------------------------------
(* The lists of runs.                                                      *)

\* m is l with other links: their types, and what they are.
Relinked(l, m) ==
  /\ m \in Lists
  /\ m.first = l.first /\ m.second = l.second /\ m.last = l.last /\ m.third = l.third
  /\ m.in = l.in
NextIsSet(l, m, p, q) ==
  /\ Relinked(l, m) /\ m.prev = l.prev
  /\ \A x \in Page : m.next[x] = IF x = p THEN q ELSE l.next[x]
PrevIsSet(l, m, p, q) ==
  /\ Relinked(l, m) /\ m.next = l.next
  /\ \A x \in Page : m.prev[x] = IF x = p THEN q ELSE l.prev[x]

\* The list after SetNext, field by field.
LEMMA SetNextIs ==
  ASSUME NEW l \in Lists, NEW p, NEW q \in Page \cup {None}
  PROVE  NextIsSet(l, SetNext(l, p, q), p, q)
<1>1. SetNext(l, p, q) = [l EXCEPT !.next = [x \in Page |-> IF x = p THEN q ELSE l.next[x]]]
  BY DEF SetNext, Lists
<1>2. [x \in Page |-> IF x = p THEN q ELSE l.next[x]] \in [Page -> Page \cup {None}]
  BY DEF Lists
<1> QED BY <1>1, <1>2 DEF Lists, NextIsSet, Relinked

\* The list after SetPrev, field by field.
LEMMA SetPrevIs ==
  ASSUME NEW l \in Lists, NEW p, NEW q \in Page \cup {None}
  PROVE  PrevIsSet(l, SetPrev(l, p, q), p, q)
<1>1. SetPrev(l, p, q) = [l EXCEPT !.prev = [x \in Page |-> IF x = p THEN q ELSE l.prev[x]]]
  BY DEF SetPrev, Lists
<1>2. [x \in Page |-> IF x = p THEN q ELSE l.prev[x]] \in [Page -> Page \cup {None}]
  BY DEF Lists
<1> QED BY <1>1, <1>2 DEF Lists, PrevIsSet, Relinked

\* The links after Link.
Linked(l, m, p, b, q) ==
  \A x \in Page :
    /\ m.next[x] = IF x = p THEN q ELSE IF x = b THEN p ELSE l.next[x]
    /\ m.prev[x] = IF x = p THEN b ELSE IF x = q THEN p ELSE l.prev[x]

\* Link makes p the neighbour of b and of q, and changes no other pointer.
LEMMA LinkIs ==
  ASSUME NEW l \in Lists, NEW p \in Page, NEW b \in Page \cup {None}, NEW q \in Page \cup {None}
  PROVE  Relinked(l, Link(l, p, b, q)) /\ Linked(l, Link(l, p, b, q), p, b, q)
<1> DEFINE l1 == SetPrev(l, q, p) l2 == SetNext(l1, b, p) l3 == SetPrev(l2, p, b)
           l4 == SetNext(l3, p, q)
<1>1. PrevIsSet(l, l1, q, p) BY SetPrevIs
<1>2. NextIsSet(l1, l2, b, p) BY <1>1, SetNextIs DEF PrevIsSet, Relinked
<1>3. PrevIsSet(l2, l3, p, b) BY <1>2, SetPrevIs DEF NextIsSet, Relinked
<1>4. NextIsSet(l3, l4, p, q) BY <1>3, SetNextIs DEF PrevIsSet, Relinked
<1>5. Link(l, p, b, q) = l4 BY DEF Link
<1> HIDE DEF l1, l2, l3, l4
<1> QED
  BY <1>1, <1>2, <1>3, <1>4, <1>5 DEF PrevIsSet, NextIsSet, Relinked, Linked

Unlinked(l, m, p) ==
  \A x \in Page :
    /\ m.next[x] = IF x = p THEN None ELSE IF x = l.prev[p] THEN l.next[p] ELSE l.next[x]
    /\ m.prev[x] = IF x = p THEN None ELSE IF x = l.next[p] THEN l.prev[p] ELSE l.prev[x]

\* Unlink makes the neighbours of p each other's, and changes no other pointer.
LEMMA UnlinkIs ==
  ASSUME NEW l \in Lists, NEW p \in Page
  PROVE  Relinked(l, Unlink(l, p)) /\ Unlinked(l, Unlink(l, p), p)
<1>0. PICK n \in Page \cup {None}, b \in Page \cup {None} : n = l.next[p] /\ b = l.prev[p]
  BY DEF Lists
<1> DEFINE l1 == SetPrev(l, n, b) l2 == SetNext(l1, b, n) l3 == SetPrev(l2, p, None)
           l4 == SetNext(l3, p, None)
<1>1. PrevIsSet(l, l1, n, b) BY SetPrevIs
<1>2. NextIsSet(l1, l2, b, n) BY <1>1, SetNextIs DEF PrevIsSet, Relinked
<1>3. PrevIsSet(l2, l3, p, None) BY <1>2, SetPrevIs DEF NextIsSet, Relinked
<1>4. NextIsSet(l3, l4, p, None) BY <1>3, SetNextIs DEF PrevIsSet, Relinked
<1>5. Unlink(l, p) = l4 BY <1>0 DEF Unlink
<1> HIDE DEF l1, l2, l3, l4
<1> QED
  BY <1>0, <1>1, <1>2, <1>3, <1>4, <1>5 DEF PrevIsSet, NextIsSet, Relinked, Unlinked

\* The walk passes the n runs in the list once, along the links and back; what is not in
\* the list has no links.
Chain(l, n, walk) ==
  /\ l \in Lists /\ n \in Nat \ {0} /\ walk \in [1..n -> l.in]
  /\ \A p \in l.in : \E i \in 1..n : walk[i] = p
  /\ \A i, j \in 1..n : walk[i] = walk[j] => i = j
  /\ \A i \in 1..n : /\ l.next[walk[i]] = IF i = n THEN None ELSE walk[i + 1]
                     /\ l.prev[walk[i]] = IF i = 1 THEN None ELSE walk[i - 1]
  /\ \A p \in Page \ l.in : l.next[p] = None /\ l.prev[p] = None

\* Where the tiers begin.
Tiers(l, n, walk, s, t) ==
  /\ s \in 1..n /\ t \in 1..n /\ s <= t
  /\ l.second = walk[s] /\ l.last = walk[t]
  /\ l.first = IF s = 1 THEN None ELSE walk[1]
  /\ l.third = IF t = n THEN None ELSE walk[t + 1]

\* A list that is not empty is one that can be walked from head to tail, through its tiers.
LEMMA ListIsWalked ==
  ASSUME NEW l \in Lists, l.in # {}, IsFiniteSet(l.in)
  PROVE  IsList(l) <=> \E walk, s, t : /\ Chain(l, Cardinality(l.in), walk)
                                       /\ Tiers(l, Cardinality(l.in), walk, s, t)
<1>1. PICK n \in Nat : n = Cardinality(l.in) /\ n # 0
  BY FS_CardinalityType, FS_EmptySet
<1>2. ASSUME NEW walk, NEW s, NEW t
      PROVE  /\ Chain(l, n, walk) /\ Tiers(l, n, walk, s, t)
                => /\ \A p \in Page \ l.in : l.next[p] = None /\ l.prev[p] = None
                   /\ walk \in [1..n -> l.in] /\ s \in 1..n /\ t \in 1..n /\ IsWalk(l, walk, s, t)
             /\ walk \in [1..n -> l.in] /\ s \in 1..n /\ t \in 1..n /\ IsWalk(l, walk, s, t)
                /\ (\A p \in Page \ l.in : l.next[p] = None /\ l.prev[p] = None)
                => Chain(l, n, walk) /\ Tiers(l, n, walk, s, t)
  BY <1>1 DEF Chain, Tiers, IsWalk
<1>3. IsList(l) <=> /\ \A p \in Page \ l.in : l.next[p] = None /\ l.prev[p] = None
                    /\ \E walk \in [1..n -> l.in], s, t \in 1..n : IsWalk(l, walk, s, t)
  BY <1>1 DEF IsList
<1> QED BY <1>1, <1>2, <1>3

\* A run that is linked at position k is there on the walk.
Spliced(walk, n, k, p) ==
  [i \in 1..(n + 1) |-> IF i < k THEN walk[i] ELSE IF i = k THEN p ELSE walk[i - 1]]

\* The walk of a list goes through a page that Link has put between two of it.
LEMMA SpliceIn ==
  ASSUME NEW l, NEW n, NEW walk, Chain(l, n, walk), NEW m \in Lists, NEW p \in Page \ l.in,
         NEW k \in 1..(n + 1), m.in = l.in \cup {p},
         Linked(l, m, p, IF k = 1 THEN None ELSE walk[k - 1], IF k = n + 1 THEN None ELSE walk[k])
  PROVE  Chain(m, n + 1, Spliced(walk, n, k, p))
<1> DEFINE w == Spliced(walk, n, k, p)
           b == IF k = 1 THEN None ELSE walk[k - 1]
           q == IF k = n + 1 THEN None ELSE walk[k]
<1>1. n \in Nat \ {0} /\ walk \in [1..n -> l.in] /\ l.in \subseteq Page /\ l \in Lists
  BY DEF Chain, Lists
<1>2. /\ w \in [1..(n + 1) -> m.in]
      /\ \A i \in 1..(n + 1) : w[i] = IF i < k THEN walk[i] ELSE IF i = k THEN p ELSE walk[i - 1]
  BY <1>1 DEF Spliced
<1>b. /\ b \in l.in \cup {None} /\ q \in l.in \cup {None}
      /\ k # 1 => k - 1 \in 1..n /\ b = walk[k - 1]
      /\ k # n + 1 => k \in 1..n /\ q = walk[k]
      /\ k = 1 => b = None
      /\ k = n + 1 => q = None
  BY <1>1
<1>l. \A x \in Page : /\ m.next[x] = IF x = p THEN q ELSE IF x = b THEN p ELSE l.next[x]
                      /\ m.prev[x] = IF x = p THEN b ELSE IF x = q THEN p ELSE l.prev[x]
  BY DEF Linked
<1> HIDE DEF w, b, q
<1>3. \A x \in m.in : \E i \in 1..(n + 1) : w[i] = x
  <2> TAKE x \in m.in
  <2>1. CASE x = p BY <1>2, <2>1
  <2>2. CASE x # p
    <3>1. PICK i \in 1..n : walk[i] = x BY <2>2 DEF Chain
    <3>2. IF i < k THEN w[i] = x ELSE w[i + 1] = x BY <1>1, <1>2, <3>1
    <3> QED BY <1>1, <3>2
  <2> QED BY <2>1, <2>2
<1>4. \A i, j \in 1..(n + 1) : w[i] = w[j] => i = j
  <2> TAKE i, j \in 1..(n + 1)
  <2>1. \A x, y \in 1..n : walk[x] = walk[y] => x = y BY DEF Chain
  <2>2. \A x \in 1..n : walk[x] # p BY <1>1
  <2> QED BY <1>1, <1>2, <2>1, <2>2
<1>c. /\ \A i, j \in 1..n : walk[i] = walk[j] => i = j
      /\ \A i \in 1..n : /\ l.next[walk[i]] = IF i = n THEN None ELSE walk[i + 1]
                         /\ l.prev[walk[i]] = IF i = 1 THEN None ELSE walk[i - 1]
                         /\ walk[i] \in Page /\ walk[i] # p /\ walk[i] # None
  <2>1. \A i \in 1..n : walk[i] \in Page /\ walk[i] # p /\ walk[i] # None
    BY <1>1, RunListAssumption
  <2> QED BY <2>1 DEF Chain
<1>5. ASSUME NEW i \in 1..(n + 1)
      PROVE  /\ m.next[w[i]] = IF i = n + 1 THEN None ELSE w[i + 1]
             /\ m.prev[w[i]] = IF i = 1 THEN None ELSE w[i - 1]
  <2>1. CASE i < k
    <3>1. i \in 1..n /\ w[i] = walk[i] /\ walk[i] # q /\ (walk[i] = b => i = k - 1)
      BY <1>1, <1>2, <1>b, <1>c, <2>1
    <3>2. w[i + 1] = IF i + 1 = k THEN p ELSE walk[i + 1]
      BY <1>1, <1>2, <2>1
    <3>3. i # 1 => w[i - 1] = walk[i - 1]
      BY <1>1, <1>2, <2>1
    <3>4. m.next[w[i]] = IF walk[i] = b THEN p ELSE l.next[walk[i]] 
      BY <1>l, <1>c, <3>1
    <3>5. m.prev[w[i]] = l.prev[walk[i]] 
      BY <1>l, <1>c, <3>1
    <3>6. i = k - 1 => walk[i] = b
      BY <1>1, <1>b, <2>1
    <3> QED BY <1>1, <1>c, <2>1, <3>1, <3>2, <3>3, <3>4, <3>5, <3>6
  <2>2. CASE i = k
    <3>1. w[i] = p /\ (i # n + 1 => w[i + 1] = walk[i]) /\ (i # 1 => w[i - 1] = walk[i - 1])
      BY <1>1, <1>2, <2>2
    <3> QED BY <1>1, <1>l, <1>b, <2>2, <3>1
  <2>3. CASE i > k
    <3>0. i - 1 \in 1..n /\ i \in 2..(n + 1)
      BY <1>1, <2>3
    <3>1. w[i] = walk[i - 1] /\ walk[i - 1] # b /\ (walk[i - 1] = q => i - 1 = k)
      BY <1>1, <1>2, <1>b, <1>c, <2>3, <3>0
    <3>2. i # n + 1 => w[i + 1] = walk[i]
      <4>1. i # n + 1 => i + 1 \in 1..(n + 1) /\ ~(i + 1 < k) /\ i + 1 # k /\ (i + 1) - 1 = i
        BY <1>1, <2>3, <3>0
      <4> QED BY <1>2, <4>1
    <3>3. w[i - 1] = IF i - 1 = k THEN p ELSE walk[i - 2]
      <4>1. i - 1 \in 1..(n + 1) /\ ~(i - 1 < k) /\ (i - 1) - 1 = i - 2
        BY <1>1, <2>3, <3>0
      <4> QED BY <1>2, <4>1
    <3>4. m.next[w[i]] = l.next[walk[i - 1]]
      BY <1>l, <1>c, <3>0, <3>1
    <3>5. m.prev[w[i]] = IF walk[i - 1] = q THEN p ELSE l.prev[walk[i - 1]]
      BY <1>l, <1>c, <3>0, <3>1
    <3>6. i - 1 = k => walk[i - 1] = q
      BY <1>1, <1>b, <2>3
    <3>7. /\ l.next[walk[i - 1]] = IF i - 1 = n THEN None ELSE walk[i]
          /\ l.prev[walk[i - 1]] = IF i - 1 = 1 THEN None ELSE walk[i - 2]
      <4>1. PICK h \in 1..n : h = i - 1 /\ h + 1 = i /\ h - 1 = i - 2 BY <1>1, <3>0
      <4> QED BY <1>c, <4>1
    <3> QED BY <1>1, <2>3, <3>0, <3>1, <3>2, <3>3, <3>4, <3>5, <3>6, <3>7
  <2> QED BY <1>1, <2>1, <2>2, <2>3
<1>6. \A x \in Page \ m.in : m.next[x] = None /\ m.prev[x] = None
  BY <1>l, <1>b, RunListAssumption DEF Chain
<1>7. n + 1 \in Nat \ {0}
  BY <1>1
<1>8. Chain(m, n + 1, w)
  BY <1>2, <1>3, <1>4, <1>5, <1>6, <1>7 DEF Chain
<1> QED BY <1>8 DEF w

\* A run that is unlinked from position k has left the walk.
Skipping(walk, n, k) == [i \in 1..(n - 1) |-> IF i < k THEN walk[i] ELSE walk[i + 1]]

\* The walk of a list goes past a page that Unlink has taken out.
LEMMA SpliceOut ==
  ASSUME NEW l, NEW n, NEW walk, Chain(l, n, walk), n # 1, NEW m \in Lists,
         NEW k \in 1..n, NEW p, p = walk[k], m.in = l.in \ {p}, Unlinked(l, m, p)
  PROVE  Chain(m, n - 1, Skipping(walk, n, k))
<1> DEFINE w == Skipping(walk, n, k)
<1>1. n \in Nat \ {0, 1} /\ walk \in [1..n -> l.in] /\ l.in \subseteq Page /\ l \in Lists
  BY DEF Chain, Lists
<1>c. /\ \A i, j \in 1..n : walk[i] = walk[j] => i = j
      /\ \A i \in 1..n : /\ l.next[walk[i]] = IF i = n THEN None ELSE walk[i + 1]
                         /\ l.prev[walk[i]] = IF i = 1 THEN None ELSE walk[i - 1]
                         /\ walk[i] \in Page /\ walk[i] # None
  BY <1>1, RunListAssumption DEF Chain
<1>2. /\ w \in [1..(n - 1) -> m.in]
      /\ \A i \in 1..(n - 1) : w[i] = IF i < k THEN walk[i] ELSE walk[i + 1]
  <2>1. \A i \in 1..(n - 1) : IF i < k THEN i \in 1..n /\ i # k ELSE i + 1 \in 1..n /\ i + 1 # k
    BY <1>1
  <2>2. \A i \in 1..n : i # k => walk[i] \in m.in
    BY <1>1, <1>c
  <2> QED BY <2>1, <2>2 DEF Skipping
<1> HIDE DEF w
<1>3. \A x \in m.in : \E i \in 1..(n - 1) : w[i] = x
  <2> TAKE x \in m.in
  <2>1. PICK i \in 1..n : walk[i] = x /\ i # k BY DEF Chain
  <2>2. CASE i < k
    <3>1. i \in 1..(n - 1) BY <1>1, <2>2
    <3> QED BY <1>2, <2>1, <2>2, <3>1
  <2>3. CASE i > k
    <3>1. i - 1 \in 1..(n - 1) /\ ~(i - 1 < k) /\ (i - 1) + 1 = i BY <1>1, <2>3
    <3> QED BY <1>2, <2>1, <3>1
  <2> QED BY <1>1, <2>1, <2>2, <2>3
<1>4. \A i, j \in 1..(n - 1) : w[i] = w[j] => i = j
  <2> TAKE i, j \in 1..(n - 1)
  <2>1. PICK x \in 1..n, y \in 1..n : /\ w[i] = walk[x] /\ w[j] = walk[y]
                                      /\ x = IF i < k THEN i ELSE i + 1
                                      /\ y = IF j < k THEN j ELSE j + 1
    BY <1>1, <1>2
  <2> SUFFICES ASSUME w[i] = w[j] PROVE i = j
    OBVIOUS
  <2>2. \A a, b \in 1..n : walk[a] = walk[b] => a = b BY DEF Chain
  <2>3. x = y BY <2>1, <2>2
  <2> QED BY <1>1, <2>1, <2>3
<1>l. \A x \in Page :
        /\ m.next[x] = IF x = p THEN None ELSE IF x = l.prev[p] THEN l.next[p] ELSE l.next[x]
        /\ m.prev[x] = IF x = p THEN None ELSE IF x = l.next[p] THEN l.prev[p] ELSE l.prev[x]
  BY DEF Unlinked
<1>p. /\ l.next[p] = IF k = n THEN None ELSE walk[k + 1]
      /\ l.prev[p] = IF k = 1 THEN None ELSE walk[k - 1]
  BY <1>c
<1>5. ASSUME NEW i \in 1..(n - 1)
      PROVE  /\ m.next[w[i]] = IF i = n - 1 THEN None ELSE w[i + 1]
             /\ m.prev[w[i]] = IF i = 1 THEN None ELSE w[i - 1]
  <2>1. CASE i < k
    <3>1. i \in 1..n /\ w[i] = walk[i] /\ walk[i] # p
      BY <1>1, <1>2, <1>c, <2>1
    <3>2. (walk[i] = l.prev[p]) = (i = k - 1) /\ walk[i] # l.next[p]
      BY <1>1, <1>c, <1>p, <2>1, <3>1
    <3>3. /\ m.next[w[i]] = IF i = k - 1 THEN l.next[p] ELSE l.next[walk[i]]
          /\ m.prev[w[i]] = l.prev[walk[i]]
      BY <1>l, <1>c, <3>1, <3>2
    <3>4. i # n - 1 => w[i + 1] = IF i + 1 = k THEN walk[k + 1] ELSE walk[i + 1]
      <4>1. i # n - 1 => i + 1 \in 1..(n - 1) /\ (~(i + 1 < k) => i + 1 = k)
        BY <1>1, <2>1
      <4> QED BY <1>1, <1>2, <2>1, <4>1
    <3>5. i # 1 => w[i - 1] = walk[i - 1]
      <4>1. i # 1 => i - 1 \in 1..(n - 1) /\ i - 1 < k
        BY <1>1, <2>1
      <4> QED BY <1>2, <4>1
    <3>6. /\ i # k - 1 => i # n - 1
          /\ i = k - 1 => (k = n) = (i = n - 1)
      BY <1>1, <2>1
    <3>7. m.next[w[i]] = IF i = n - 1 THEN None ELSE w[i + 1]
      <4>1. CASE i = k - 1 BY <1>1, <1>p, <3>3, <3>4, <3>6, <4>1
      <4>2. CASE i # k - 1
        <5>1. i + 1 # k /\ i # n BY <1>1, <4>2, <2>1
        <5> QED BY <1>c, <3>1, <3>3, <3>4, <3>6, <4>2, <5>1
      <4> QED BY <4>1, <4>2
    <3>8. m.prev[w[i]] = IF i = 1 THEN None ELSE w[i - 1]
      BY <1>c, <3>1, <3>3, <3>5
    <3> QED BY <3>7, <3>8
  <2>2. CASE i >= k
    <3>1. i + 1 \in 1..n /\ w[i] = walk[i + 1] /\ walk[i + 1] # p
      <4>1. i + 1 \in 1..n /\ i + 1 # k /\ ~(i < k) BY <1>1, <2>2
      <4> QED BY <1>2, <1>c, <4>1
    <3>2. (walk[i + 1] = l.next[p]) = (i = k) /\ walk[i + 1] # l.prev[p]
      <4>1. k # n /\ k + 1 \in 1..n /\ (k # 1 => k - 1 \in 1..n /\ k - 1 # i + 1)
        BY <1>1, <2>2
      <4>2. (k + 1 = i + 1) = (i = k) BY <1>1
      <4>3. (walk[k + 1] = walk[i + 1]) = (k + 1 = i + 1) BY <1>c, <3>1, <4>1
      <4>4. k # 1 => walk[k - 1] # walk[i + 1] BY <1>c, <3>1, <4>1
      <4> QED BY <1>c, <1>p, <3>1, <4>1, <4>2, <4>3, <4>4
    <3>3. /\ m.next[w[i]] = l.next[walk[i + 1]]
          /\ m.prev[w[i]] = IF i = k THEN l.prev[p] ELSE l.prev[walk[i + 1]]
      BY <1>l, <1>c, <3>1, <3>2
    <3>4. i # n - 1 => w[i + 1] = walk[i + 2]
      <4>1. i # n - 1 => i + 1 \in 1..(n - 1) /\ ~(i + 1 < k) /\ (i + 1) + 1 = i + 2
        BY <1>1, <2>2
      <4> QED BY <1>2, <4>1
    <3>5. i # 1 => w[i - 1] = IF i = k THEN walk[k - 1] ELSE walk[i]
      <4>1. i # 1 => i - 1 \in 1..(n - 1) /\ (i - 1 < k) = (i = k) /\ (i - 1) + 1 = i
        BY <1>1, <2>2
      <4> QED BY <1>2, <4>1
    <3>6. /\ l.next[walk[i + 1]] = IF i + 1 = n THEN None ELSE walk[i + 2]
          /\ l.prev[walk[i + 1]] = walk[i]
      <4>1. (i + 1) + 1 = i + 2 /\ (i + 1) - 1 = i /\ i + 1 # 1 BY <1>1
      <4> QED BY <1>c, <3>1, <4>1
    <3>7. (i + 1 = n) = (i = n - 1) BY <1>1
    <3>8. i # k => i # 1 BY <1>1, <2>2
    <3>9. m.next[w[i]] = IF i = n - 1 THEN None ELSE w[i + 1]
      BY <3>3, <3>4, <3>6, <3>7
    <3>10. m.prev[w[i]] = IF i = 1 THEN None ELSE w[i - 1]
      BY <1>p, <3>3, <3>5, <3>6, <3>8
    <3> QED BY <3>9, <3>10
  <2> QED BY <1>1, <2>1, <2>2
<1>6. \A x \in Page \ m.in : m.next[x] = None /\ m.prev[x] = None
  <2> TAKE x \in Page \ m.in
  <2>1. CASE x = p BY <1>l, <2>1
  <2>2. CASE x # p
    <3>1. x \notin l.in BY <2>2
    <3>2. x # l.prev[p] /\ x # l.next[p]
      <4>1. (k # n => k + 1 \in 1..n) /\ (k # 1 => k - 1 \in 1..n) BY <1>1
      <4>2. l.prev[p] \in l.in \cup {None} /\ l.next[p] \in l.in \cup {None}
        BY <1>1, <1>p, <4>1
      <4> QED BY <3>1, <4>2, RunListAssumption
    <3>3. l.next[x] = None /\ l.prev[x] = None BY <3>1 DEF Chain
    <3> QED BY <1>l, <2>2, <3>2, <3>3
  <2> QED BY <2>1, <2>2
<1>7. n - 1 \in Nat \ {0}
  BY <1>1
<1>8. Chain(m, n - 1, w)
  BY <1>2, <1>3, <1>4, <1>5, <1>6, <1>7 DEF Chain
<1> QED BY <1>8 DEF w

\* The converse of ListIsWalked, with the walk given, for the empty list too.
LEMMA WalkedIsList ==
  ASSUME NEW m \in Lists, NEW n, NEW walk, NEW s, NEW t, IsFiniteSet(m.in),
         n = Cardinality(m.in), Chain(m, n, walk), Tiers(m, n, walk, s, t)
  PROVE  IsList(m)
<1>1. m.in # {}
  BY FS_EmptySet DEF Chain
<1> QED BY <1>1, ListIsWalked

\* m has the runs in it that l has, and others.
InReplaced(l, m, pages) ==
  /\ m \in Lists /\ m.in = pages /\ m.next = l.next /\ m.prev = l.prev
  /\ m.first = l.first /\ m.second = l.second /\ m.last = l.last /\ m.third = l.third

\* A new set of pages, and nothing else changes.
LEMMA SetIn ==
  ASSUME NEW l \in Lists, NEW pages \in SUBSET Page
  PROVE  InReplaced(l, [l EXCEPT !.in = pages], pages)
BY DEF Lists, InReplaced

\* m is l with other heads.
Headed(l, m, first, second, last, third) ==
  /\ m \in Lists /\ m.in = l.in /\ m.next = l.next /\ m.prev = l.prev
  /\ m.first = first /\ m.second = second /\ m.last = last /\ m.third = third

\* New heads of tiers, and nothing else changes.
LEMMA SetHeads ==
  ASSUME NEW l \in Lists, NEW p \in Page \cup {None}, NEW q \in Page \cup {None},
         NEW r \in Page \cup {None}, NEW z \in Page \cup {None}
  PROVE  /\ Headed(l, [l EXCEPT !.first = p], p, l.second, l.last, l.third)
         /\ Headed(l, [l EXCEPT !.second = p], l.first, p, l.last, l.third)
         /\ Headed(l, [l EXCEPT !.last = p], l.first, l.second, p, l.third)
         /\ Headed(l, [l EXCEPT !.third = p], l.first, l.second, l.last, p)
         /\ Headed(l, [l EXCEPT !.second = p, !.last = q], l.first, p, q, l.third)
         /\ Headed(l, [l EXCEPT !.second = p, !.last = q, !.third = r, !.first = z], z, p, q, r)
<1>1. Headed(l, [l EXCEPT !.first = p], p, l.second, l.last, l.third) BY DEF Lists, Headed
<1>2. Headed(l, [l EXCEPT !.second = p], l.first, p, l.last, l.third) BY DEF Lists, Headed
<1>3. Headed(l, [l EXCEPT !.last = p], l.first, l.second, p, l.third) BY DEF Lists, Headed
<1>4. Headed(l, [l EXCEPT !.third = p], l.first, l.second, l.last, p) BY DEF Lists, Headed
<1>5. Headed(l, [l EXCEPT !.second = p, !.last = q], l.first, p, q, l.third) BY DEF Lists, Headed
<1>6. Headed(l, [l EXCEPT !.second = p, !.last = q, !.third = r, !.first = z], z, p, q, r) BY DEF Lists, Headed
<1> QED BY <1>1, <1>2, <1>3, <1>4, <1>5, <1>6

\* Insert leaves a list, wherever the run goes.
THEOREM InsertKeepsList ==
  ASSUME IsFiniteSet(Page), NEW l \in Lists, IsList(l), NEW p \in Page \ l.in, NEW tier \in Tier
  PROVE  /\ Insert(l, p, tier) \in Lists /\ IsList(Insert(l, p, tier))
         /\ Insert(l, p, tier).in = l.in \cup {p}
<1>f. IsFiniteSet(l.in) /\ IsFiniteSet(l.in \cup {p})
      /\ Cardinality(l.in \cup {p}) = Cardinality(l.in) + 1
  BY FS_Subset, FS_AddElement DEF Lists
<1>p. p # None
  BY RunListAssumption
<1>1. CASE l.in = {}
  <2>1. l = EmptyList BY <1>1 DEF IsList
  <2>2. /\ l.second = None
        /\ \A x \in Page : l.next[x] = None /\ l.prev[x] = None
        /\ l.first = None /\ l.third = None
    BY <2>1 DEF EmptyList
  <2>3. PICK x : /\ x = Link(l, p, None, None) /\ Relinked(l, x) /\ Linked(l, x, p, None, None)
    BY LinkIs
  <2>4. Insert(l, p, tier) = [[x EXCEPT !.second = p, !.last = p] EXCEPT !.in = @ \cup {p}]
    BY <2>2, <2>3 DEF Insert
  <2>5. PICK m \in Lists :
          /\ m = Insert(l, p, tier) /\ m.in = {p} /\ m.second = p /\ m.last = p
          /\ m.first = None /\ m.third = None /\ m.next = x.next /\ m.prev = x.prev
    <3>1. PICK y \in Lists :
            /\ y = [x EXCEPT !.second = p, !.last = p] /\ y.in = {} /\ y.second = p /\ y.last = p
            /\ y.first = None /\ y.third = None /\ y.next = x.next /\ y.prev = x.prev
      <4>1. x \in Lists /\ p \in Page \cup {None} BY <2>3 DEF Relinked
      <4>2. Headed(x, [x EXCEPT !.second = p, !.last = p], x.first, p, p, x.third)
        BY <4>1, SetHeads
      <4> QED BY <1>1, <2>2, <2>3, <4>2 DEF Relinked, Headed
    <3>2. InReplaced(y, [y EXCEPT !.in = {p}], {p}) BY SetIn
    <3>3. Insert(l, p, tier) = [y EXCEPT !.in = {p}] BY <2>4, <3>1
    <3>4. PICK z : z = Insert(l, p, tier) /\ InReplaced(y, z, {p}) BY <3>2, <3>3
    <3>5. /\ z \in Lists /\ z.in = {p} /\ z.next = y.next /\ z.prev = y.prev
          /\ z.first = y.first /\ z.second = y.second /\ z.last = y.last /\ z.third = y.third
      BY <3>4 DEF InReplaced
    <3> QED BY <3>1, <3>4, <3>5
  <2>6. /\ \A y \in Page : m.next[y] = None /\ m.prev[y] = None
    BY <2>2, <2>3, <2>5, RunListAssumption DEF Linked
  <2>7. PICK w : w = [i \in 1..1 |-> p] OBVIOUS
  <2>8. Chain(m, 1, w) /\ Tiers(m, 1, w, 1, 1)
    BY <2>5, <2>6, <2>7 DEF Chain, Tiers
  <2>9. Cardinality(m.in) = 1 /\ IsFiniteSet(m.in)
    BY <1>1, <1>f, <2>5, FS_EmptySet
  <2>10. IsList(m)
    BY <2>8, <2>9, WalkedIsList
  <2> QED BY <1>1, <2>5, <2>10
<1>2. CASE l.in # {}
  <2>1. PICK n, walk, s, t : n = Cardinality(l.in) /\ Chain(l, n, walk) /\ Tiers(l, n, walk, s, t)
    BY <1>2, <1>f, ListIsWalked
  <2>2. /\ n \in Nat \ {0} /\ s \in 1..n /\ t \in 1..n /\ s <= t
        /\ l.second = walk[s] /\ l.last = walk[t]
        /\ l.first = IF s = 1 THEN None ELSE walk[1]
        /\ l.third = IF t = n THEN None ELSE walk[t + 1]
    BY <2>1 DEF Chain, Tiers
  <2>3. \A i \in 1..n : /\ walk[i] \in Page /\ walk[i] # None
                        /\ l.prev[walk[i]] = IF i = 1 THEN None ELSE walk[i - 1]
    <3>1. /\ walk \in [1..n -> l.in]
          /\ \A i \in 1..n : l.prev[walk[i]] = IF i = 1 THEN None ELSE walk[i - 1]
      BY <2>1 DEF Chain
    <3>2. l.in \subseteq Page BY DEF Lists
    <3> QED BY <3>1, <3>2, RunListAssumption
  <2> DEFINE b(k) == IF k = 1 THEN None ELSE walk[k - 1]
             q(k) == IF k = n + 1 THEN None ELSE walk[k]
  <2>q. ASSUME NEW k \in 1..(n + 1)
        PROVE  b(k) \in Page \cup {None} /\ q(k) \in Page \cup {None}
    <3>1. (k # 1 => k - 1 \in 1..n) /\ (k # n + 1 => k \in 1..n)
      BY <2>2
    <3> QED BY <2>3, <3>1
  <2> HIDE DEF b, q
  <2>4. ASSUME NEW k \in 1..(n + 1), NEW m \in Lists, m.in = l.in \cup {p},
               Linked(l, m, p, b(k), q(k)), NEW i, NEW j,
               Tiers(m, n + 1, Spliced(walk, n, k, p), i, j)
        PROVE  IsList(m)
    <3>1. Chain(m, n + 1, Spliced(walk, n, k, p))
      BY <2>1, <2>4, SpliceIn DEF b, q
    <3> QED BY <1>f, <2>1, <2>4, <3>1, WalkedIsList
  <2>5. ASSUME NEW k \in 1..(n + 1), NEW w, w = Spliced(walk, n, k, p)
        PROVE  \A i \in 1..(n + 1) :
                 w[i] = IF i < k THEN walk[i] ELSE IF i = k THEN p ELSE walk[i - 1]
    BY <2>5 DEF Spliced
  <2>6. CASE tier = 1
    <3>1. PICK x : x = Link(l, p, b(1), q(1)) /\ Relinked(l, x) /\ Linked(l, x, p, b(1), q(1))
      <4>1. 1 \in 1..(n + 1) BY <2>2
      <4>2. PICK c, d : c = b(1) /\ d = q(1) OBVIOUS
      <4>3. c \in Page \cup {None} /\ d \in Page \cup {None} BY <4>1, <4>2, <2>q
      <4>4. Relinked(l, Link(l, p, c, d)) /\ Linked(l, Link(l, p, c, d), p, c, d)
        BY <4>3, LinkIs
      <4> QED BY <4>2, <4>4
    <3>2. Insert(l, p, tier) = [[x EXCEPT !.first = p] EXCEPT !.in = @ \cup {p}]
      <4>1. b(1) = None BY DEF b
      <4>2. q(1) = IF l.first # None THEN l.first ELSE l.second
        BY <2>2, <2>3 DEF q
      <4>3. l.second # None BY <2>2, <2>3
      <4>4. Insert(l, p, tier) = [InsertFirst(l, p) EXCEPT !.in = @ \cup {p}]
        BY <2>6, <4>3 DEF Insert
      <4> QED BY <3>1, <4>1, <4>2, <4>4 DEF InsertFirst
    <3>3. PICK m \in Lists :
            /\ m = Insert(l, p, tier) /\ m.in = l.in \cup {p} /\ m.first = p
            /\ m.second = l.second /\ m.last = l.last /\ m.third = l.third
            /\ m.next = x.next /\ m.prev = x.prev
      <4>1. PICK y \in Lists :
              /\ y = [x EXCEPT !.first = p] /\ y.in = l.in /\ y.first = p
              /\ y.second = l.second /\ y.last = l.last /\ y.third = l.third
              /\ y.next = x.next /\ y.prev = x.prev
        <5>0. x \in Lists BY <3>1, Zenon DEF Relinked
        <5>1. x \in Lists /\ p \in Page \cup {None} BY <5>0
        <5>2. Headed(x, [x EXCEPT !.first = p], p, x.second, x.last, x.third)
          BY <5>1, SetHeads
        <5> QED BY <3>1, <5>2 DEF Relinked, Headed
      <4>2. l.in \cup {p} \in SUBSET Page BY DEF Lists
      <4>3. InReplaced(y, [y EXCEPT !.in = l.in \cup {p}], l.in \cup {p}) BY <4>2, SetIn
      <4>4. Insert(l, p, tier) = [y EXCEPT !.in = l.in \cup {p}] BY <3>2, <4>1
      <4>5. PICK z : z = Insert(l, p, tier) /\ InReplaced(y, z, l.in \cup {p}) BY <4>3, <4>4
      <4>6. /\ z \in Lists /\ z.in = l.in \cup {p} /\ z.next = y.next /\ z.prev = y.prev
            /\ z.first = y.first /\ z.second = y.second /\ z.last = y.last
            /\ z.third = y.third
        BY <4>5 DEF InReplaced
      <4> QED BY <4>1, <4>5, <4>6
    <3>4. Linked(l, m, p, b(1), q(1)) BY <3>1, <3>3 DEF Linked
    <3>5. PICK w : w = Spliced(walk, n, 1, p) OBVIOUS
    <3>6. 1 \in 1..(n + 1) BY <2>2
    <3>7. /\ w[1] = p /\ \A i \in 1..n : w[i + 1] = walk[i]
      <4>1. \A i \in 1..n : i + 1 \in 1..(n + 1) /\ ~(i + 1 < 1) /\ i + 1 # 1 /\ (i + 1) - 1 = i
        BY <2>2
      <4> QED BY <2>5, <3>5, <3>6, <4>1
    <3>8. Tiers(m, n + 1, w, s + 1, t + 1)
      BY <2>2, <3>3, <3>7 DEF Tiers
    <3> QED BY <2>4, <3>3, <3>4, <3>5, <3>6, <3>8
  <2>7. CASE tier = 2
    <3>1. PICK x : x = Link(l, p, b(s), q(s)) /\ Relinked(l, x) /\ Linked(l, x, p, b(s), q(s))
      <4>1. s \in 1..(n + 1) BY <2>2
      <4>2. PICK c, d : c = b(s) /\ d = q(s) OBVIOUS
      <4>3. c \in Page \cup {None} /\ d \in Page \cup {None} BY <4>1, <4>2, <2>q
      <4>4. Relinked(l, Link(l, p, c, d)) /\ Linked(l, Link(l, p, c, d), p, c, d)
        BY <4>3, LinkIs
      <4> QED BY <4>2, <4>4
    <3>2. Insert(l, p, tier) = [[x EXCEPT !.second = p] EXCEPT !.in = @ \cup {p}]
      <4>1. b(s) = l.prev[l.second] BY <2>2, <2>3 DEF b
      <4>2. q(s) = l.second
        BY <2>2, <2>3 DEF q
      <4>3. l.second # None BY <2>2, <2>3
      <4>4. Insert(l, p, tier) = [InsertSecond(l, p) EXCEPT !.in = @ \cup {p}]
        BY <2>7, <4>3 DEF Insert
      <4> QED BY <3>1, <4>1, <4>2, <4>4 DEF InsertSecond
    <3>3. PICK m \in Lists :
            /\ m = Insert(l, p, tier) /\ m.in = l.in \cup {p} /\ m.first = l.first
            /\ m.second = p /\ m.last = l.last /\ m.third = l.third
            /\ m.next = x.next /\ m.prev = x.prev
      <4>1. PICK y \in Lists :
              /\ y = [x EXCEPT !.second = p] /\ y.in = l.in /\ y.second = p
              /\ y.first = l.first /\ y.last = l.last /\ y.third = l.third
              /\ y.next = x.next /\ y.prev = x.prev
        <5>0. x \in Lists BY <3>1, Zenon DEF Relinked
        <5>1. x \in Lists /\ p \in Page \cup {None} BY <5>0
        <5>2. Headed(x, [x EXCEPT !.second = p], x.first, p, x.last, x.third)
          BY <5>1, SetHeads
        <5> QED BY <3>1, <5>2 DEF Relinked, Headed
      <4>2. l.in \cup {p} \in SUBSET Page BY DEF Lists
      <4>3. InReplaced(y, [y EXCEPT !.in = l.in \cup {p}], l.in \cup {p}) BY <4>2, SetIn
      <4>4. Insert(l, p, tier) = [y EXCEPT !.in = l.in \cup {p}] BY <3>2, <4>1
      <4>5. PICK z : z = Insert(l, p, tier) /\ InReplaced(y, z, l.in \cup {p}) BY <4>3, <4>4
      <4>6. /\ z \in Lists /\ z.in = l.in \cup {p} /\ z.next = y.next /\ z.prev = y.prev
            /\ z.first = y.first /\ z.second = y.second /\ z.last = y.last
            /\ z.third = y.third
        BY <4>5 DEF InReplaced
      <4> QED BY <4>1, <4>5, <4>6
    <3>4. Linked(l, m, p, b(s), q(s)) BY <3>1, <3>3 DEF Linked
    <3>5. PICK w : w = Spliced(walk, n, s, p) OBVIOUS
    <3>6. s \in 1..(n + 1) BY <2>2
    <3>7. /\ w[s] = p /\ (s # 1 => w[1] = walk[1]) /\ \A i \in s..n : w[i + 1] = walk[i]
      <4>1. \A i \in s..n : i + 1 \in 1..(n + 1) /\ ~(i + 1 < s) /\ i + 1 # s /\ (i + 1) - 1 = i
        BY <2>2
      <4>2. s # 1 => 1 < s /\ 1 \in 1..(n + 1) BY <2>2
      <4> QED BY <2>5, <3>5, <3>6, <4>1, <4>2
    <3>8. Tiers(m, n + 1, w, s, t + 1)
      BY <2>2, <3>3, <3>7 DEF Tiers
    <3> QED BY <2>4, <3>3, <3>4, <3>5, <3>6, <3>8
  <2>8. CASE tier = 3
    <3>0. t + 1 \in 1..(n + 1) BY <2>2
    <3>1. PICK x : /\ x = Link(l, p, b(t + 1), q(t + 1)) /\ Relinked(l, x)
                   /\ Linked(l, x, p, b(t + 1), q(t + 1))
      <4>1. t + 1 \in 1..(n + 1) BY <2>2
      <4>2. PICK c, d : c = b(t + 1) /\ d = q(t + 1) OBVIOUS
      <4>3. c \in Page \cup {None} /\ d \in Page \cup {None} BY <4>1, <4>2, <2>q
      <4>4. Relinked(l, Link(l, p, c, d)) /\ Linked(l, Link(l, p, c, d), p, c, d)
        BY <4>3, LinkIs
      <4> QED BY <4>2, <4>4
    <3>2. Insert(l, p, tier) = [[x EXCEPT !.third = p] EXCEPT !.in = @ \cup {p}]
      <4>0. (t + 1) - 1 = t /\ t + 1 # 1 /\ (t + 1 = n + 1) = (t = n) /\ (t # n => t + 1 \in 1..n)
        BY <2>2
      <4>1. b(t + 1) = walk[t] BY <4>0 DEF b
      <4>2. q(t + 1) = l.third
        BY <2>2, <4>0 DEF q
      <4>3. l.second # None BY <2>2, <2>3
      <4>4. Insert(l, p, tier) = [InsertThird(l, p) EXCEPT !.in = @ \cup {p}]
        BY <2>8, <4>3 DEF Insert
      <4>5. CASE t = n
        <5>1. l.third = None BY <2>2, <4>5
        <5> QED BY <2>2, <3>1, <4>1, <4>2, <4>4, <5>1 DEF InsertThird
      <4>6. CASE t # n
        <5>1. l.third # None /\ l.prev[l.third] = walk[t] BY <2>2, <2>3, <4>0, <4>6
        <5> QED BY <3>1, <4>1, <4>2, <4>4, <5>1 DEF InsertThird
      <4> QED BY <4>5, <4>6
    <3>3. PICK m \in Lists :
            /\ m = Insert(l, p, tier) /\ m.in = l.in \cup {p} /\ m.first = l.first
            /\ m.second = l.second /\ m.last = l.last /\ m.third = p
            /\ m.next = x.next /\ m.prev = x.prev
      <4>1. PICK y \in Lists :
              /\ y = [x EXCEPT !.third = p] /\ y.in = l.in /\ y.third = p
              /\ y.first = l.first /\ y.second = l.second /\ y.last = l.last
              /\ y.next = x.next /\ y.prev = x.prev
        <5>0. x \in Lists BY <3>1, Zenon DEF Relinked
        <5>1. x \in Lists /\ p \in Page \cup {None} BY <5>0
        <5>2. Headed(x, [x EXCEPT !.third = p], x.first, x.second, x.last, p)
          BY <5>1, SetHeads
        <5> QED BY <3>1, <5>2 DEF Relinked, Headed
      <4>2. l.in \cup {p} \in SUBSET Page BY DEF Lists
      <4>3. InReplaced(y, [y EXCEPT !.in = l.in \cup {p}], l.in \cup {p}) BY <4>2, SetIn
      <4>4. Insert(l, p, tier) = [y EXCEPT !.in = l.in \cup {p}] BY <3>2, <4>1
      <4>5. PICK z : z = Insert(l, p, tier) /\ InReplaced(y, z, l.in \cup {p}) BY <4>3, <4>4
      <4>6. /\ z \in Lists /\ z.in = l.in \cup {p} /\ z.next = y.next /\ z.prev = y.prev
            /\ z.first = y.first /\ z.second = y.second /\ z.last = y.last
            /\ z.third = y.third
        BY <4>5 DEF InReplaced
      <4> QED BY <4>1, <4>5, <4>6
    <3>4. Linked(l, m, p, b(t + 1), q(t + 1)) BY <3>1, <3>3 DEF Linked
    <3>5. PICK w : w = Spliced(walk, n, t + 1, p) OBVIOUS
    <3>7. w[t + 1] = p /\ \A i \in 1..t : w[i] = walk[i]
      <4>1. \A i \in 1..t : i \in 1..(n + 1) /\ i < t + 1
        BY <2>2
      <4> QED BY <2>2, <2>5, <3>0, <3>5, <4>1
    <3>8. Tiers(m, n + 1, w, s, t)
      BY <2>2, <3>3, <3>7 DEF Tiers
    <3> QED BY <2>4, <3>0, <3>3, <3>4, <3>5, <3>8
  <2> QED BY <2>6, <2>7, <2>8 DEF Tier
<1> QED BY <1>1, <1>2

\* Where the tiers begin once the run at position k has gone from the heads and the walk.
LEMMA BeheadIs ==
  ASSUME NEW l, NEW n, NEW walk, NEW s, NEW t, Chain(l, n, walk), Tiers(l, n, walk, s, t),
         n # 1, NEW k \in 1..n, NEW p, p = walk[k], NEW w, w = Skipping(walk, n, k)
  PROVE  /\ Behead(l, p) \in Lists /\ Behead(l, p).in = l.in
         /\ Behead(l, p).next = l.next /\ Behead(l, p).prev = l.prev
         /\ \E i, j : Tiers(Behead(l, p), n - 1, w, i, j)
<1> DEFINE h == Behead(l, p)
<1>0. ASSUME NEW first, NEW second, NEW last, NEW third, NEW i, NEW j,
             Headed(l, h, first, second, last, third),
             i \in 1..(n - 1), j \in 1..(n - 1), i <= j,
             second = w[i], last = w[j],
             first = IF i = 1 THEN None ELSE w[1],
             third = IF j = n - 1 THEN None ELSE w[j + 1]
      PROVE  /\ h \in Lists /\ h.in = l.in /\ h.next = l.next /\ h.prev = l.prev
             /\ \E x, y : Tiers(h, n - 1, w, x, y)
  <2> HIDE DEF h
  <2>1. Tiers(h, n - 1, w, i, j) BY <1>0 DEF Tiers, Headed
  <2> QED BY <1>0, <2>1 DEF Headed
<1>1. /\ n \in Nat \ {0, 1} /\ s \in 1..n /\ t \in 1..n /\ s <= t
      /\ l.second = walk[s] /\ l.last = walk[t]
      /\ l.first = IF s = 1 THEN None ELSE walk[1]
      /\ l.third = IF t = n THEN None ELSE walk[t + 1]
  BY DEF Chain, Tiers
<1>2. l \in Lists /\ \A i \in 1..n : walk[i] \in Page /\ walk[i] # None
  BY RunListAssumption DEF Chain, Lists
<1>3. \A i, j \in 1..n : walk[i] = walk[j] => i = j
  BY DEF Chain
<1>4. \A i \in 1..n : /\ l.next[walk[i]] = IF i = n THEN None ELSE walk[i + 1]
                      /\ l.prev[walk[i]] = IF i = 1 THEN None ELSE walk[i - 1]
  BY DEF Chain
<1>5. /\ \A i \in 1..(n - 1) : (i < k => w[i] = walk[i]) /\ (~(i < k) => w[i] = walk[i + 1])
  BY DEF Skipping
<1>6. /\ l.first \in Page \cup {None} /\ l.second \in Page \cup {None}
      /\ l.last \in Page \cup {None} /\ l.third \in Page \cup {None}
      /\ \A x \in Page : l.next[x] \in Page \cup {None} /\ l.prev[x] \in Page \cup {None}
  BY <1>2 DEF Lists
<1>7. 1 \in 1..n /\ 1 \in 1..(n - 1) /\ n \in 1..n
  BY <1>1
<1>a. CASE p = l.first
  <2>1. s # 1 /\ k = 1 BY <1>1, <1>2, <1>3, <1>7, <1>a
  <2>2. l.next[p] = walk[2] /\ 2 \in 1..n BY <1>1, <1>4, <2>1
  <2>3. (walk[2] = l.second) = (s = 2) BY <1>1, <1>3, <2>2
  <2> DEFINE first == IF s = 2 THEN None ELSE walk[2]
  <2>4. first \in Page \cup {None} BY <1>2, <2>2
  <2>5. Behead(l, p) = [l EXCEPT !.first = first]
    BY <1>a, <2>2, <2>3 DEF Behead
  <2>6. Headed(l, Behead(l, p), first, l.second, l.last, l.third)
    <3> HIDE DEF first
    <3> QED BY <1>2, <2>4, <2>5, SetHeads
  <2>7. /\ s - 1 \in 1..(n - 1) /\ t - 1 \in 1..(n - 1) /\ s - 1 <= t - 1
        /\ ~(s - 1 < k) /\ ~(t - 1 < k) /\ (s - 1) + 1 = s /\ (t - 1) + 1 = t
        /\ (s - 1 = 1) = (s = 2) /\ (t - 1 = n - 1) = (t = n)
        /\ (t # n => t \in 1..(n - 1) /\ ~(t < k)) /\ ~(1 < k) /\ 1 + 1 = 2
    BY <1>1, <2>1
  <2>8. /\ w[s - 1] = walk[s] /\ w[t - 1] = walk[t] /\ (t # n => w[t] = walk[t + 1])
        /\ w[1] = walk[2]
    BY <1>5, <1>7, <2>7
  <2>9. /\ first = IF s - 1 = 1 THEN None ELSE w[1]
        /\ l.third = IF t - 1 = n - 1 THEN None ELSE w[(t - 1) + 1]
    BY <1>1, <2>7, <2>8
  <2>10. l.second = w[s - 1] /\ l.last = w[t - 1]
    BY <1>1, <2>8
  <2> HIDE DEF first
  <2> QED BY <1>0, <2>6, <2>7, <2>9, <2>10
<1>b. CASE p # l.first /\ p = l.second
  <2>1. k = s BY <1>1, <1>3, <1>b
  <2>2. Behead(l, p) = EraseSecond(l) BY <1>b DEF Behead
  <2>3. CASE s < t
    <3>1. l.second # l.last /\ s + 1 \in 1..n BY <1>1, <1>3, <2>3
    <3>2. l.next[l.second] = walk[s + 1] BY <1>1, <1>4, <2>3
    <3>3. Behead(l, p) = [l EXCEPT !.second = walk[s + 1]]
      BY <2>2, <3>1, <3>2 DEF EraseSecond
    <3>4. Headed(l, Behead(l, p), l.first, walk[s + 1], l.last, l.third)
      <4>1. PICK z : z = walk[s + 1] OBVIOUS
      <4>2. z \in Page \cup {None} BY <1>2, <3>1, <4>1
      <4>3. Headed(l, [l EXCEPT !.second = z], l.first, z, l.last, l.third)
        BY <1>2, <4>2, SetHeads
      <4> QED BY <3>3, <4>1, <4>3
    <3>5. /\ s \in 1..(n - 1) /\ t - 1 \in 1..(n - 1) /\ s <= t - 1 /\ ~(s < k)
          /\ ~(t - 1 < k) /\ (t - 1) + 1 = t /\ (t - 1 = n - 1) = (t = n)
          /\ (t # n => t \in 1..(n - 1) /\ ~(t < k)) /\ (s # 1 => 1 < k)
      BY <1>1, <2>1, <2>3
    <3>6. /\ w[s] = walk[s + 1] /\ w[t - 1] = walk[t] /\ (t # n => w[t] = walk[t + 1])
          /\ (s # 1 => w[1] = walk[1])
      BY <1>5, <1>7, <3>5
    <3>7. /\ l.first = IF s = 1 THEN None ELSE w[1]
          /\ l.third = IF t - 1 = n - 1 THEN None ELSE w[(t - 1) + 1]
      BY <1>1, <3>5, <3>6
    <3>8. walk[s + 1] = w[s] /\ l.last = w[t - 1] BY <1>1, <3>6
    <3> QED BY <1>0, <3>4, <3>5, <3>7, <3>8
  <2>4. CASE s = t /\ t # n
    <3>1. l.second = l.last BY <1>1, <2>4
    <3>2. l.next[l.second] = walk[t + 1] /\ t + 1 \in 1..n BY <1>1, <1>4, <2>4
    <3>3. l.third = walk[t + 1] /\ walk[t + 1] \in Page /\ walk[t + 1] # None
      BY <1>1, <1>2, <2>4, <3>2
    <3>4. l.next[walk[t + 1]] = IF t + 1 = n THEN None ELSE walk[t + 2]
      <4>1. (t + 1) + 1 = t + 2 BY <1>1
      <4> QED BY <1>4, <3>2, <4>1
    <3>5. Behead(l, p) = [l EXCEPT !.second = walk[t + 1], !.last = walk[t + 1],
                                   !.third = l.next[walk[t + 1]], !.first = l.first]
      BY <2>2, <3>1, <3>2, <3>3 DEF EraseSecond, Promoted
    <3>6. Headed(l, Behead(l, p), l.first, walk[t + 1], walk[t + 1], l.next[walk[t + 1]])
      <4>1. PICK z \in Page \cup {None} : z = l.next[walk[t + 1]] BY <1>6, <3>3
      <4>2. PICK f \in Page \cup {None} : f = l.first BY <1>6
      <4>3. PICK y \in Page : y = walk[t + 1] BY <3>3
      <4>4. Headed(l, [l EXCEPT !.second = y, !.last = y, !.third = z, !.first = f], f, y, y, z)
        BY <1>2, SetHeads
      <4> QED BY <3>5, <4>1, <4>2, <4>3, <4>4
    <3>7. /\ t \in 1..(n - 1) /\ ~(t < k) /\ (t = n - 1) = (t + 1 = n)
          /\ (t + 1 # n => t + 1 \in 1..(n - 1) /\ ~(t + 1 < k)) /\ (s # 1 => 1 < k)
          /\ (t + 1) + 1 = t + 2
      BY <1>1, <2>1, <2>4
    <3>8. /\ w[t] = walk[t + 1] /\ (t + 1 # n => w[t + 1] = walk[t + 2])
          /\ (s # 1 => w[1] = walk[1])
      BY <1>5, <1>7, <3>7
    <3>9. /\ l.first = IF t = 1 THEN None ELSE w[1]
          /\ l.next[walk[t + 1]] = IF t = n - 1 THEN None ELSE w[t + 1]
          /\ walk[t + 1] = w[t]
      BY <1>1, <2>4, <3>4, <3>7, <3>8
    <3>10. t <= t BY <1>1
    <3> QED BY <1>0, <3>6, <3>7, <3>9, <3>10
  <2>5. CASE s = t /\ t = n
    <3>1. l.second = l.last BY <1>1, <2>5
    <3>2. l.next[l.second] = None BY <1>1, <1>4, <2>5
    <3>3. n - 1 \in 1..n /\ l.prev[l.second] = walk[n - 1] /\ walk[n - 1] \in Page
      BY <1>1, <1>2, <1>4, <2>5
    <3> DEFINE first == IF l.first = walk[n - 1] THEN None ELSE l.first
    <3>4. Behead(l, p) = [l EXCEPT !.second = walk[n - 1], !.last = walk[n - 1],
                                   !.third = l.third, !.first = first]
      BY <2>2, <3>1, <3>2, <3>3 DEF EraseSecond, Promoted
    <3>5. first \in Page \cup {None} BY <1>6
    <3>6. Headed(l, Behead(l, p), first, walk[n - 1], walk[n - 1], l.third)
      <4> HIDE DEF first
      <4>1. PICK z \in Page \cup {None} : z = l.third BY <1>6
      <4>3. PICK y \in Page : y = walk[n - 1] BY <3>3, Zenon
      <4>4. Headed(l, [l EXCEPT !.second = y, !.last = y, !.third = z, !.first = first], first, y, y, z)
        BY <1>2, <3>5, SetHeads
      <4> QED BY <3>4, <4>1, <4>3, <4>4
    <3>7. /\ n - 1 \in 1..(n - 1) /\ n - 1 < k /\ s # 1 /\ 1 < k
          /\ (1 = n - 1) = (n = 2)
      BY <1>1, <2>1, <2>5
    <3>8. w[n - 1] = walk[n - 1] /\ w[1] = walk[1]
      BY <1>5, <1>7, <3>7
    <3>9. first = IF n - 1 = 1 THEN None ELSE w[1]
      <4>1. l.first = walk[1] BY <1>1, <3>7
      <4>2. (walk[1] = walk[n - 1]) = (1 = n - 1) BY <1>3, <1>7, <3>3
      <4> QED BY <3>8, <4>1, <4>2
    <3>10. l.third = None BY <1>1, <2>5
    <3> HIDE DEF first
    <3>11. /\ walk[n - 1] = w[n - 1] /\ n - 1 <= n - 1
           /\ l.third = IF n - 1 = n - 1 THEN None ELSE w[(n - 1) + 1]
      BY <1>1, <3>8, <3>10
    <3> QED BY <1>0, <3>6, <3>7, <3>9, <3>11
  <2> QED BY <1>1, <2>3, <2>4, <2>5
<1>c. CASE p \notin {l.first, l.second} /\ p = l.last
  <2>1. k = t /\ s < t
    <3>1. walk[k] = walk[t] /\ s # t BY <1>1, <1>c
    <3>2. k = t BY <1>1, <1>3, <3>1
    <3> QED BY <1>1, <3>1, <3>2
  <2>2. l.prev[p] = walk[t - 1] /\ t - 1 \in 1..n BY <1>1, <1>4, <2>1
  <2>3. Behead(l, p) = [l EXCEPT !.last = walk[t - 1]] BY <1>c, <2>2 DEF Behead
  <2>4. Headed(l, Behead(l, p), l.first, l.second, walk[t - 1], l.third)
    <3>0. walk[t - 1] \in Page \cup {None} BY <1>2, <2>2
    <3>1. PICK z \in Page \cup {None} : z = walk[t - 1] BY <3>0, Zenon
    <3>2. Headed(l, [l EXCEPT !.last = z], l.first, l.second, z, l.third) BY <1>2, SetHeads
    <3> QED BY <2>3, <3>1, <3>2
  <2>5. /\ s \in 1..(n - 1) /\ t - 1 \in 1..(n - 1) /\ s <= t - 1 /\ s < k
        /\ t - 1 < k /\ (t - 1) + 1 = t /\ (t - 1 = n - 1) = (t = n)
        /\ (t # n => t \in 1..(n - 1) /\ ~(t < k)) /\ 1 < k
    BY <1>1, <2>1
  <2>6. /\ w[s] = walk[s] /\ w[t - 1] = walk[t - 1] /\ (t # n => w[t] = walk[t + 1])
        /\ w[1] = walk[1]
    BY <1>5, <1>7, <2>5
  <2>7. /\ l.second = w[s] /\ walk[t - 1] = w[t - 1]
        /\ l.first = IF s = 1 THEN None ELSE w[1]
        /\ l.third = IF t - 1 = n - 1 THEN None ELSE w[(t - 1) + 1]
    BY <1>1, <2>5, <2>6
  <2> QED BY <1>0, <2>4, <2>5, <2>7
<1>d. CASE p \notin {l.first, l.second, l.last} /\ p = l.third
  <2>1. t # n /\ t + 1 \in 1..n /\ k = t + 1
    <3>1. t # n BY <1>1, <1>2, <1>d
    <3>2. t + 1 \in 1..n BY <1>1, <3>1
    <3> QED BY <1>1, <1>3, <1>d, <3>1, <3>2
  <2>2. l.next[p] = IF t + 1 = n THEN None ELSE walk[t + 2]
    <3>1. (t + 1) + 1 = t + 2 BY <1>1
    <3> QED BY <1>4, <2>1, <3>1
  <2>3. PICK z \in Page \cup {None} : z = l.next[p] BY <1>2, <1>6
  <2>4. Behead(l, p) = [l EXCEPT !.third = z] BY <1>d, <2>3 DEF Behead
  <2>5. Headed(l, Behead(l, p), l.first, l.second, l.last, z)
    BY <1>2, <2>4, SetHeads
  <2>6. /\ s \in 1..(n - 1) /\ t \in 1..(n - 1) /\ s < k /\ t < k /\ (t = n - 1) = (t + 1 = n)
        /\ (t + 1 # n => t + 1 \in 1..(n - 1) /\ ~(t + 1 < k)) /\ 1 < k
        /\ (t + 1) + 1 = t + 2
    BY <1>1, <2>1
  <2>7. /\ w[s] = walk[s] /\ w[t] = walk[t] /\ (t + 1 # n => w[t + 1] = walk[t + 2])
        /\ w[1] = walk[1]
    BY <1>5, <1>7, <2>6
  <2>8. /\ l.second = w[s] /\ l.last = w[t]
        /\ l.first = IF s = 1 THEN None ELSE w[1]
        /\ z = IF t = n - 1 THEN None ELSE w[t + 1]
    BY <1>1, <2>2, <2>3, <2>6, <2>7
  <2> QED BY <1>0, <1>1, <2>5, <2>6, <2>8
<1>e. CASE p \notin {l.first, l.second, l.last, l.third}
  <2>1. Behead(l, p) = l BY <1>e DEF Behead
  <2>2. Headed(l, Behead(l, p), l.first, l.second, l.last, l.third)
    BY <1>2, <2>1 DEF Headed
  <2>3. k # s /\ k # t /\ (s # 1 => k # 1) /\ (t # n => k # t + 1)
    BY <1>1, <1>e
  <2> DEFINE i == IF k < s THEN s - 1 ELSE s
             j == IF k < t THEN t - 1 ELSE t
  <2>4. /\ i \in 1..(n - 1) /\ j \in 1..(n - 1) /\ i <= j
        /\ IF k < s THEN ~(i < k) /\ i + 1 = s ELSE i < k /\ i = s
        /\ IF k < t THEN ~(j < k) /\ j + 1 = t ELSE j < k /\ j = t
        /\ (i = 1) = (s = 1) /\ (j = n - 1) = (t = n) /\ (s # 1 => 1 < k)
    BY <1>1, <2>3
  <2>5. t # n => /\ j + 1 \in 1..(n - 1)
                 /\ IF k < t THEN ~(j + 1 < k) /\ (j + 1) + 1 = t + 1
                    ELSE j + 1 < k /\ j + 1 = t + 1
    BY <1>1, <2>3
  <2> HIDE DEF i, j
  <2>6. /\ w[i] = walk[s] /\ w[j] = walk[t] /\ (t # n => w[j + 1] = walk[t + 1])
        /\ (s # 1 => w[1] = walk[1])
    BY <1>5, <1>7, <2>4, <2>5
  <2>7. /\ l.second = w[i] /\ l.last = w[j]
        /\ l.first = IF i = 1 THEN None ELSE w[1]
        /\ l.third = IF j = n - 1 THEN None ELSE w[j + 1]
    BY <1>1, <2>4, <2>6
  <2> QED BY <1>0, <2>2, <2>4, <2>7
<1> QED BY <1>a, <1>b, <1>c, <1>d, <1>e

\* Erase leaves a list, whichever run goes; without its only run a list is as it was at first.
THEOREM EraseKeepsList ==
  ASSUME IsFiniteSet(Page), NEW l \in Lists, IsList(l), NEW p \in l.in
  PROVE  /\ Erase(l, p) \in Lists /\ IsList(Erase(l, p))
         /\ Erase(l, p).in = l.in \ {p}
<1>1. /\ IsFiniteSet(l.in) /\ IsFiniteSet(l.in \ {p}) /\ l.in # {} /\ p \in Page
      /\ Cardinality(l.in \ {p}) = Cardinality(l.in) - 1
  BY FS_Subset, FS_RemoveElement DEF Lists
<1>2. PICK n, walk, s, t : n = Cardinality(l.in) /\ Chain(l, n, walk) /\ Tiers(l, n, walk, s, t)
  BY <1>1, ListIsWalked
<1>3. PICK k \in 1..n : walk[k] = p
  BY <1>2 DEF Chain
<1>4. n \in Nat \ {0}
  BY <1>2 DEF Chain
<1>5. ASSUME NEW h \in Lists, h = Behead(l, p), h.in = l.in, h.next = l.next, h.prev = l.prev
      PROVE  \E m \in Lists : /\ m = Erase(l, p) /\ m.in = l.in \ {p} /\ Unlinked(l, m, p)
                              /\ m.first = h.first /\ m.second = h.second
                              /\ m.last = h.last /\ m.third = h.third
  <2>1. PICK x : x = Unlink(h, p) /\ Relinked(h, x) /\ Unlinked(h, x, p)
    BY <1>1, UnlinkIs
  <2>2. x.in = l.in BY <1>5, <2>1 DEF Relinked
  <2>3. Erase(l, p) = [x EXCEPT !.in = l.in \ {p}]
    BY <1>5, <2>1, <2>2 DEF Erase
  <2>4. l.in \ {p} \in SUBSET Page BY DEF Lists
  <2>5. x \in Lists BY <2>1 DEF Relinked
  <2>6. InReplaced(x, [x EXCEPT !.in = l.in \ {p}], l.in \ {p})
    BY <2>4, <2>5, SetIn
  <2>7. PICK m : m = Erase(l, p) /\ InReplaced(x, m, l.in \ {p})
    BY <2>3, <2>6
  <2>8. Unlinked(l, m, p)
    BY <1>5, <2>1, <2>7 DEF Unlinked, InReplaced
  <2> QED BY <2>1, <2>7, <2>8 DEF InReplaced, Relinked
<1>6. CASE n # 1
  <2> DEFINE w == Skipping(walk, n, k) h == Behead(l, p)
  <2>1. PICK i, j : /\ h \in Lists /\ h.in = l.in /\ h.next = l.next /\ h.prev = l.prev
                    /\ Tiers(h, n - 1, w, i, j)
    BY <1>2, <1>3, <1>6, BeheadIs
  <2> HIDE DEF h
  <2>2. PICK m \in Lists : /\ m = Erase(l, p) /\ m.in = l.in \ {p} /\ Unlinked(l, m, p)
                           /\ m.first = h.first /\ m.second = h.second
                           /\ m.last = h.last /\ m.third = h.third
    BY <1>5, <2>1 DEF h
  <2>3. Chain(m, n - 1, w)
    BY <1>2, <1>3, <1>6, <2>2, SpliceOut
  <2>4. Tiers(m, n - 1, w, i, j)
    BY <2>1, <2>2 DEF Tiers
  <2>5. IsList(m)
    BY <1>1, <1>2, <2>2, <2>3, <2>4, WalkedIsList
  <2> QED BY <2>2, <2>5
<1>7. CASE n = 1
  <2>1. /\ l.second = p /\ l.last = p /\ l.first = None /\ l.third = None
        /\ l.next[p] = None /\ l.prev[p] = None
    BY <1>2, <1>3, <1>7 DEF Chain, Tiers
  <2>2. l.in = {p}
    BY <1>2, <1>3, <1>7 DEF Chain
  <2>3. p # None BY <1>1, RunListAssumption
  <2>4. Behead(l, p) = [l EXCEPT !.second = None, !.last = None, !.third = None, !.first = None]
    BY <2>1, <2>3 DEF Behead, EraseSecond, Promoted
  <2>5. Headed(l, Behead(l, p), None, None, None, None)
    <3>1. PICK z \in Page \cup {None} : z = None BY Zenon
    <3>2. Headed(l, [l EXCEPT !.second = z, !.last = z, !.third = z, !.first = z], z, z, z, z)
      BY SetHeads
    <3> QED BY <2>4, <3>1, <3>2
  <2>6. PICK m \in Lists : /\ m = Erase(l, p) /\ m.in = {} /\ Unlinked(l, m, p)
                           /\ m.first = None /\ m.second = None
                           /\ m.last = None /\ m.third = None
    <3>1. PICK h \in Lists : /\ h = Behead(l, p) /\ h.in = l.in /\ h.next = l.next /\ h.prev = l.prev
                             /\ h.first = None /\ h.second = None /\ h.last = None /\ h.third = None
      BY <2>5 DEF Headed
    <3>2. l.in \ {p} = {} BY <2>2
    <3> QED BY <1>5, <3>1, <3>2
  <2>7. \A x \in Page : l.next[x] = None /\ l.prev[x] = None
    BY <1>2, <2>1, <2>2 DEF Chain
  <2>8. \A x \in Page : m.next[x] = None /\ m.prev[x] = None
    BY <2>1, <2>6, <2>7 DEF Unlinked
  <2>9. m.next = [x \in Page |-> None] /\ m.prev = [x \in Page |-> None]
    BY <2>6, <2>8 DEF Lists
  <2>10. m = EmptyList
    BY <2>6, <2>9 DEF Lists, EmptyList
  <2>11. IsList(m) BY <2>6, <2>10 DEF IsList
  <2> QED BY <2>2, <2>6, <2>11
<1> QED BY <1>6, <1>7

\* The second tier is there if any run is, and begins after the first.
LEMMA SecondOf ==
  ASSUME IsFiniteSet(Page), NEW l \in Lists, IsList(l)
  PROVE  /\ l.second # None <=> l.in # {}
         /\ l.second # None => l.second \in l.in /\ l.first # l.second
<1>1. CASE l.in = {}
  BY <1>1 DEF IsList, EmptyList
<1>2. CASE l.in # {}
  <2>1. IsFiniteSet(l.in) BY FS_Subset DEF Lists
  <2>2. PICK n, walk, s, t : Chain(l, n, walk) /\ Tiers(l, n, walk, s, t)
    BY <1>2, <2>1, ListIsWalked
  <2>3. l.second \in l.in /\ None \notin l.in
    BY <2>2, RunListAssumption DEF Chain, Tiers, Lists
  <2>4. l.first # l.second
    <3>1. 1 \in 1..n BY <2>2 DEF Chain
    <3> QED BY <2>2, <2>3, <3>1 DEF Chain, Tiers
  <2> QED BY <1>2, <2>3, <2>4
<1> QED BY <1>1, <1>2

\* Fetch takes out the first run of the second tier.
LEMMA FetchedIsErased ==
  ASSUME IsFiniteSet(Page), NEW l \in Lists, IsList(l), l.second # None
  PROVE  Fetched(l) = Erase(l, l.second)
<1>1. l.first # l.second
  BY SecondOf
<1>2. Behead(l, l.second) = EraseSecond(l)
  BY <1>1 DEF Behead
<1> QED BY <1>2 DEF Erase, Fetched

-----------------------------------------------------------------------------
(* The inductive invariant: HeapInOrder, and what follows.                 *)

PC == {"idle", "lock", "sweep", "update", "free", "region", "unlock", "clear large",
       "large region"}
Place == [pc : PC, page : Page \cup {None}, wasFull : BOOLEAN, locked : Class \cup {None},
          cleared : Nat]

AtTyped ==
  /\ at \in [Workers -> Place]
  /\ \A w \in Workers : IF at[w].pc = "idle" THEN at[w] = Idle ELSE at[w].page \in Page

\* What the mutator has taken is one page for a class without a local run, or some for a
\* large object.
TakenTyped ==
  \/ taken = NoPages
  \/ /\ taken.page \in Page /\ taken.count \in 1..LastPage
     /\ taken.page + taken.count <= LastPage + 1
     /\ taken = [for |-> taken.for, page |-> taken.page, count |-> taken.count]
     /\ \/ /\ taken.for \in Class /\ taken.count = 1
           /\ localRuns[taken.for] = None
        \/ taken.for \in {"large", "large rem"} /\ taken.count \in LargeSizes
     /\ taken.for = "large rem" => taken.count > 1 /\ label[taken.page] = "large"

Phases ==
  /\ phase \in {"run", "final"} => pending = {} /\ \A w \in Workers : at[w] = Idle
  /\ phase = "run" => marked = {}
  /\ marked \subseteq allocated
  /\ phase = "parallel" => taken = NoPages
  /\ phase = "concurrent" => snapshot \in [Page -> Label]

\* A large object of n pages stands at p, and k of its labels are cleared.
Stands(p, n) ==
  /\ n \in LargeSizes /\ p + n <= LastPage + 1
  /\ label[p] # "run" /\ Large(p, n) \in allocated
Labelled(p, n, k) ==
  \A x \in PagesFrom(p, n) :
    label[x] = IF x < p + k THEN "free" ELSE IF x = p THEN "large" ELSE "large rem"

Clearing(w) == at[w].pc \in {"clear large", "large region"}

LargeApart ==
  \A p, q \in Page, n, m \in LargeSizes : Stands(p, n) /\ Stands(q, m) =>
    (p = q /\ n = m) \/ PagesFrom(p, n) \cap PagesFrom(q, m) = {}
LargeNotTaken ==
  \A p \in Page, n \in LargeSizes : Stands(p, n) => TakenPages \cap PagesFrom(p, n) = {}
LargeLabelled ==
  \A p \in Page, n \in LargeSizes :
    Stands(p, n) /\ (\A w \in Workers : Clearing(w) => at[w].page # p) => Labelled(p, n, 0)
LargeCleared ==
  \A w \in Workers : Clearing(w) =>
    /\ LargeAt(at[w].page) \cap marked = {}
    /\ at[w].locked = None
    /\ \E n \in LargeSizes :
         /\ Stands(at[w].page, n) /\ Labelled(at[w].page, n, at[w].cleared)
         /\ at[w].cleared <= n /\ (at[w].pc = "large region" => at[w].cleared = n)
LabelsStand ==
  /\ \A x \in Page : label[x] = "large rem" =>
       \E p \in Page, n \in LargeSizes : Stands(p, n) /\ x \in PagesFrom(p, n) /\ x # p
  /\ \A x \in Page : label[x] = "large" =>
       (\E n \in LargeSizes : Stands(x, n)) \/ (taken.for = "large rem" /\ taken.page = x)
LargeInv == LargeApart /\ LargeNotTaken /\ LargeLabelled /\ LargeCleared /\ LabelsStand

\* An object in use is a slot of a run or a large object.
Placed(o) ==
  \E p \in Page : \/ label[p] = "run" /\ o \in Slots(mIdx[p], p)
                  \/ \E n \in LargeSizes : Stands(p, n) /\ o = Large(p, n)
ObjectsArePlaced == \A o \in allocated : Placed(o)

RunsHaveClass == \A p \in Page : label[p] = "run" => mIdx[p] \in Class
SlotsAreLocal == \A c \in Class : localRuns[c] = None => freeLists[c] = {}

\* A worker has a page of its own, which no other is to look at.
WorkersApart ==
  /\ \A v, w \in Workers : at[v].page = at[w].page => v = w \/ at[v].page = None
  /\ \A w \in Workers : at[w].page \notin pending

\* What a worker that sweeps a run knows about it; the runs whose class it has locked are
\* in the list, the others local, or full when it came.
AtRun(w) ==
  /\ at[w].pc \in {"lock", "sweep", "update", "free"} =>
       label[at[w].page] = "run" /\ (phase = "concurrent" => ~IsLocal(at[w].page))
  /\ at[w].pc \in {"lock", "sweep", "update"} =>
       IF Listed(at[w].page) THEN ~at[w].wasFull ELSE IsLocal(at[w].page) \/ at[w].wasFull
  /\ at[w].pc = "free" =>
       IsEmpty(at[w].page) /\ ~Listed(at[w].page) /\ ~IsLocal(at[w].page)
  /\ at[w].pc = "lock" => Listed(at[w].page) /\ phase = "concurrent"
  /\ at[w].locked # None =>
       /\ phase = "concurrent"
       /\ at[w].pc \in {"sweep", "update", "free", "region", "unlock"}
       /\ at[w].pc \in {"sweep", "update", "free"} => at[w].locked = mIdx[at[w].page]
       /\ at[w].pc \in {"sweep", "update"} => Listed(at[w].page)
  /\ at[w].pc = "unlock" => at[w].locked # None
WorkersAtRuns == \A w \in Workers : AtRun(w)

\* What the workers still have to look at is as it was when the sweep began.
SnapshotHolds ==
  phase = "concurrent" =>
    \A p \in pending :
      /\ snapshot[p] = "run" => label[p] = "run" /\ ~IsLocal(p)
      /\ snapshot[p] = "large" => \E n \in LargeSizes : Stands(p, n)

\* The sweep will come to every object that is not marked.
Ahead(p, kind, pcs) ==
  \/ p \in pending /\ LabelToSweep(p) = kind
  \/ \E w \in Workers : at[w].page = p /\ at[w].pc \in pcs
GarbageIsAhead ==
  phase \in {"concurrent", "parallel"} =>
    \A o \in allocated \ marked :
      \E p \in Page :
        \/ label[p] = "run" /\ o \in Slots(mIdx[p], p) /\ Ahead(p, "run", {"lock", "sweep"})
        \/ /\ \E n \in LargeSizes : Stands(p, n) /\ o = Large(p, n)
           /\ Ahead(p, "large", {"clear large", "large region"})

AllocInv ==
  /\ HeapInOrder
  /\ AtTyped /\ TakenTyped /\ Phases /\ LargeInv /\ ObjectsArePlaced /\ RunsHaveClass
  /\ SlotsAreLocal /\ WorkersApart /\ WorkersAtRuns /\ SnapshotHolds /\ GarbageIsAhead

-----------------------------------------------------------------------------
(* Pages, slots and large objects.                                         *)

\* Pages are numbers, and finitely many.
LEMMA PagesAre ==
  /\ IsFiniteSet(Page) /\ \A p \in Page : p \in Nat
  /\ \A n \in LargeSizes : n \in Nat \ {0}
  /\ LastPage \in Nat /\ Page = 1..LastPage
<1>1. LastPage \in Nat /\ Page = 1..LastPage /\ LargeSizes \subseteq 1..LastPage
  BY AllocatorAssumption
<1>2. IsFiniteSet(1..LastPage)
  BY <1>1, FS_Interval
<1> QED BY <1>1, <1>2

\* No size class is one of the strings that taken.for has for large objects.
LEMMA ClassIs ==
  \A c \in Class : c # "large" /\ c # "large rem" /\ c # "nothing" /\ c # None
BY AllocatorAssumption

\* The pages of a large object are those from its first one, and it is the only one that
\* has these.
LEMMA LargeIs ==
  ASSUME NEW p \in Page, NEW n \in LargeSizes, p + n <= LastPage + 1
  PROVE  /\ \A x : x \in PagesFrom(p, n) <=> x \in Page /\ p <= x /\ x < p + n
         /\ \A x : x \in PagesFrom(p, n) <=> \E e \in Large(p, n) : e[1] = x
         /\ \A e \in Large(p, n) : e \in Page \X Cell
         /\ p \in PagesFrom(p, n) /\ p + (n - 1) \in PagesFrom(p, n)
         /\ Large(p, n) \in LargeAt(p) /\ Large(p, n) # {}
<1>1. PICK cell : cell \in Cell
  BY AllocatorAssumption
<1>2. \A x : x \in PagesFrom(p, n) <=> x \in Page /\ p <= x /\ x < p + n
  BY DEF PagesFrom
<1>3. \A x : x \in PagesFrom(p, n) <=> \E e \in Large(p, n) : e[1] = x
  <2>1. ASSUME NEW x \in PagesFrom(p, n) PROVE \E e \in Large(p, n) : e[1] = x
    <3>1. <<x, cell>> \in Large(p, n) BY <1>1 DEF Large
    <3> QED BY <3>1
  <2>2. \A e \in Large(p, n) : e[1] \in PagesFrom(p, n) BY DEF Large
  <2> QED BY <2>1, <2>2
<1>4. \A e \in Large(p, n) : e \in Page \X Cell
  BY DEF Large, PagesFrom
<1>5. p \in PagesFrom(p, n) /\ p + (n - 1) \in PagesFrom(p, n)
  <2>1. LastPage \in Nat /\ Page = 1..LastPage /\ n \in Nat /\ n >= 1 /\ p \in Nat /\ p >= 1
    BY PagesAre
  <2>2. p + (n - 1) \in Page /\ p <= p + (n - 1) /\ p + (n - 1) < p + n /\ p < p + n
    BY <2>1
  <2> QED BY <2>1, <2>2 DEF PagesFrom
<1>6. Large(p, n) \in LargeAt(p)
  BY DEF LargeAt
<1>7. Large(p, n) # {}
  BY <1>3, <1>5
<1> QED BY <1>2, <1>3, <1>4, <1>5, <1>6, <1>7

\* LargeAt(p) holds objects that end within the heap.
LEMMA LargeIsAt ==
  ASSUME NEW p \in Page, NEW o \in LargeAt(p)
  PROVE  \E n \in LargeSizes : p + n <= LastPage + 1 /\ o = Large(p, n)
BY DEF LargeAt

\* A large object determines its first page and its size.
LEMMA LargeDiffer ==
  ASSUME NEW p \in Page, NEW n \in LargeSizes, p + n <= LastPage + 1,
         NEW q \in Page, NEW m \in LargeSizes, q + m <= LastPage + 1,
         Large(p, n) = Large(q, m)
  PROVE  p = q /\ n = m
<1>1. \A x : x \in PagesFrom(p, n) <=> x \in PagesFrom(q, m)
  BY LargeIs
<1>2. /\ p \in PagesFrom(p, n) /\ p + (n - 1) \in PagesFrom(p, n)
      /\ q \in PagesFrom(q, m) /\ q + (m - 1) \in PagesFrom(q, m)
  BY LargeIs
<1>3. q <= p /\ p + (n - 1) < q + m /\ p <= q /\ q + (m - 1) < p + n
  BY <1>1, <1>2 DEF PagesFrom
<1> QED BY <1>3, PagesAre

\* The slots of a run are sets of cells of its page, and share none.
LEMMA SlotsAre ==
  ASSUME NEW c \in Class, NEW p \in Page
  PROVE  /\ Slots(c, p) # {}
         /\ \A o \in Slots(c, p) : /\ o # {} /\ \A e \in o : e \in Page \X Cell /\ e[1] = p
         /\ \A o, r \in Slots(c, p) : o = r \/ o \cap r = {}
<1>1. UNION SlotsIn[c] = Cell /\ {} \notin SlotsIn[c] /\ Cell # {}
  BY AllocatorAssumption
<1>2. \A s, t \in SlotsIn[c] : s = t \/ s \cap t = {}
  BY AllocatorAssumption
<1>3. ASSUME NEW o \in Slots(c, p) PROVE \E s \in SlotsIn[c] : o = {p} \X s
  BY DEF Slots
<1>4. PICK s : s \in SlotsIn[c]
  BY <1>1
<1>5. {p} \X s \in Slots(c, p)
  BY <1>4 DEF Slots
<1>6. ASSUME NEW o \in Slots(c, p) PROVE o # {} /\ \A e \in o : e \in Page \X Cell /\ e[1] = p
  <2>1. PICK t \in SlotsIn[c] : o = {p} \X t BY <1>3
  <2>2. PICK cell : cell \in t BY <1>1
  <2>3. <<p, cell>> \in o BY <2>1, <2>2
  <2>4. t \subseteq Cell BY <1>1
  <2> QED BY <2>1, <2>3, <2>4
<1>7. ASSUME NEW o \in Slots(c, p), NEW r \in Slots(c, p), o # r PROVE o \cap r = {}
  <2>1. PICK t \in SlotsIn[c] : o = {p} \X t BY <1>3
  <2>2. PICK u \in SlotsIn[c] : r = {p} \X u BY <1>3
  <2>3. t \cap u = {} BY <1>2, <1>7, <2>1, <2>2
  <2> QED BY <2>1, <2>2, <2>3
<1> QED BY <1>5, <1>6, <1>7

\* A slot is not one of another page, and no large object that stands elsewhere.
LEMMA SlotsDiffer ==
  ASSUME NEW c \in Class, NEW p \in Page, NEW o \in Slots(c, p)
  PROVE  /\ \A d \in Class, q \in Page : o \in Slots(d, q) => q = p
         /\ \A q \in Page, n \in LargeSizes :
              q + n <= LastPage + 1 /\ o = Large(q, n) => q = p
         /\ \A q \in Page : o \in LargeAt(q) => q = p
<1>1. PICK e : e \in o /\ e[1] = p
  BY SlotsAre
<1>2. \A d \in Class, q \in Page : o \in Slots(d, q) => q = p
  BY <1>1, SlotsAre
<1>3. ASSUME NEW q \in Page, NEW n \in LargeSizes, q + n <= LastPage + 1, o = Large(q, n)
      PROVE  q = p
  <2>1. q \in PagesFrom(q, n) BY <1>3, LargeIs
  <2>2. PICK f : f \in o /\ f[1] = q BY <1>3, <2>1, LargeIs
  <2> QED BY <2>2, SlotsAre
<1>4. \A q \in Page : o \in LargeAt(q) => q = p
  BY <1>3, LargeIsAt
<1> QED BY <1>2, <1>3, <1>4

\* Slots and large objects are Objects.
LEMMA ObjectsAre ==
  /\ \A c \in Class, p \in Page : Slots(c, p) \subseteq Object
  /\ \A p \in Page : LargeAt(p) \subseteq Object
<1>1. ASSUME NEW c \in Class, NEW p \in Page, NEW o \in Slots(c, p) PROVE o \in Object
  BY <1>1 DEF Object
<1>2. ASSUME NEW p \in Page, NEW o \in LargeAt(p) PROVE o \in Object
  BY <1>2 DEF Object
<1> QED BY <1>1, <1>2

-----------------------------------------------------------------------------
(* Where the workers go.                                                   *)

Others(w) == \A v \in Workers \ {w} : at'[v] = at[v]

\* Worker w goes on with the page it has.
GoesOn(w, pc) ==
  /\ AtTyped' /\ Others(w)
  /\ at'[w].pc = pc /\ at'[w].page = at[w].page /\ at'[w].locked = at[w].locked
  /\ at'[w].cleared = at[w].cleared /\ (at'[w].wasFull = (at[w].wasFull /\ pc = "update"))
Ends(w) == AtTyped' /\ Others(w) /\ at'[w] = Idle

\* The fields of Idle.
LEMMA IdleIs ==
  /\ Idle \in Place /\ Idle.pc = "idle" /\ Idle.page = None /\ ~Idle.wasFull
  /\ Idle.locked = None /\ Idle.cleared = 0
BY DEF Idle, Place, PC

\* A worker goes to another place, and no other worker does.
LEMMA MovesTo ==
  ASSUME AtTyped, NEW w \in Workers, NEW a \in Place, at' = [at EXCEPT ![w] = a],
         IF a.pc = "idle" THEN a = Idle ELSE a.page \in Page
  PROVE  AtTyped' /\ Others(w) /\ at'[w] = a
BY DEF AtTyped, Others

\* Finish, as what it does to at.
LEMMA FinishEnds ==
  ASSUME AtTyped, NEW w \in Workers, Finish(w) PROVE Ends(w)
<1>1. at' = [at EXCEPT ![w] = Idle]
  BY DEF Finish
<1> QED BY <1>1, IdleIs, MovesTo DEF Ends

\* Goto, as what it does to at.
LEMMA GotoGoesOn ==
  ASSUME AtTyped, NEW w \in Workers, at[w].pc # "idle", NEW pc \in PC \ {"idle"}, Goto(w, pc)
  PROVE  GoesOn(w, pc)
<1>1. PICK a \in Place : a = at[w]
  BY DEF AtTyped
<1>2. PICK full \in BOOLEAN : full = (a.wasFull /\ pc = "update")
  OBVIOUS
<1>3. at' = [at EXCEPT ![w] = [pc |-> pc, page |-> a.page, wasFull |-> full,
                               locked |-> a.locked, cleared |-> a.cleared]]
  <2>1. at' = [at EXCEPT ![w] = [a EXCEPT !.pc = pc, !.wasFull = a.wasFull /\ pc = "update"]]
    BY <1>1 DEF Goto, AtTyped
  <2>2. [a EXCEPT !.pc = pc, !.wasFull = full]
          = [pc |-> pc, page |-> a.page, wasFull |-> full, locked |-> a.locked,
             cleared |-> a.cleared]
    <3>1. a = [pc |-> a.pc, page |-> a.page, wasFull |-> a.wasFull, locked |-> a.locked,
               cleared |-> a.cleared]
      BY <1>1 DEF Place
    <3>2. [a EXCEPT !.pc = pc]
            = [pc |-> pc, page |-> a.page, wasFull |-> a.wasFull, locked |-> a.locked,
               cleared |-> a.cleared]
      BY <3>1
    <3>3. [a EXCEPT !.pc = pc, !.wasFull = full]
            = [[a EXCEPT !.pc = pc] EXCEPT !.wasFull = full]
      OBVIOUS
    <3>4. [[pc |-> pc, page |-> a.page, wasFull |-> a.wasFull, locked |-> a.locked,
            cleared |-> a.cleared] EXCEPT !.wasFull = full]
            = [pc |-> pc, page |-> a.page, wasFull |-> full, locked |-> a.locked,
               cleared |-> a.cleared]
      OBVIOUS
    <3> QED BY <3>2, <3>3, <3>4
  <2> QED BY <1>2, <2>1, <2>2
<1>4. PICK b \in Place : b = [pc |-> pc, page |-> a.page, wasFull |-> full,
                              locked |-> a.locked, cleared |-> a.cleared]
  BY <1>1 DEF Place
<1>5. b.page \in Page /\ b.pc # "idle"
  BY <1>1, <1>4 DEF AtTyped
<1>6. AtTyped' /\ Others(w) /\ at'[w] = b
  BY <1>3, <1>4, <1>5, MovesTo
<1> QED BY <1>1, <1>2, <1>4, <1>6 DEF GoesOn

-----------------------------------------------------------------------------
(* What a step leaves as it was.                                           *)

\* A step that changes neither labels nor large objects keeps what is known of them.
LEMMA LargeFrame ==
  ASSUME LargeInv, AtTyped, label' = label, LargeNotTaken',
         taken.for = "large rem" => taken'.for = "large rem" /\ taken'.page = taken.page,
         \A p \in Page, n \in LargeSizes : p + n <= LastPage + 1 /\ label[p] # "run" =>
           (Large(p, n) \in allocated' <=> Large(p, n) \in allocated),
         \A w \in Workers : /\ Clearing(w)' <=> Clearing(w)
                            /\ Clearing(w) => /\ at'[w] = at[w]
                                              /\ LargeAt(at[w].page) \cap marked' = {}
  PROVE  LargeInv'
<1>1. \A p \in Page, n \in LargeSizes : Stands(p, n)' <=> Stands(p, n)
  BY DEF Stands
<1>3. \A p \in Page, n \in LargeSizes : \A k : Labelled(p, n, k)' <=> Labelled(p, n, k)
  BY DEF Labelled
<1>4. LargeApart'
  BY <1>1 DEF LargeInv, LargeApart
<1>6. LargeLabelled'
  BY <1>1, <1>3 DEF LargeInv, LargeLabelled
<1>7. LargeCleared'
  <2> SUFFICES ASSUME NEW w \in Workers, Clearing(w)'
               PROVE  /\ LargeAt(at'[w].page) \cap marked' = {}
                      /\ at'[w].locked = None
                      /\ \E n \in LargeSizes :
                           /\ Stands(at[w].page, n)' /\ Labelled(at[w].page, n, at[w].cleared)'
                           /\ at'[w].cleared <= n /\ (at'[w].pc = "large region" => at'[w].cleared = n)
    BY DEF LargeCleared
  <2>1. Clearing(w) /\ at'[w] = at[w] /\ LargeAt(at[w].page) \cap marked' = {}
    OBVIOUS
  <2>2. PICK n \in LargeSizes :
          /\ Stands(at[w].page, n) /\ Labelled(at[w].page, n, at[w].cleared)
          /\ at[w].cleared <= n /\ (at[w].pc = "large region" => at[w].cleared = n)
    BY <2>1 DEF LargeInv, LargeCleared
  <2>3. at[w].page \in Page
    BY <2>1 DEF AtTyped, Clearing
  <2>4. Stands(at[w].page, n)'
    BY <2>1, <2>2, <2>3 DEF Stands
  <2>5. Labelled(at[w].page, n, at[w].cleared)'
    BY <2>1, <2>2 DEF Labelled
  <2> QED BY <2>1, <2>2, <2>4, <2>5 DEF LargeInv, LargeCleared
<1>8. LabelsStand'
  BY <1>1 DEF LargeInv, LabelsStand
<1> QED BY <1>4, <1>6, <1>7, <1>8 DEF LargeInv

\* A step that takes no page takes none of a large object.
LEMMA TakenFrame ==
  ASSUME LargeInv, label' = label, taken' = taken,
         \A p \in Page, n \in LargeSizes : p + n <= LastPage + 1 /\ label[p] # "run" =>
           (Large(p, n) \in allocated' => Large(p, n) \in allocated)
  PROVE  LargeNotTaken'
<1>1. \A p \in Page, n \in LargeSizes : Stands(p, n)' => Stands(p, n)
  BY DEF Stands
<1>2. TakenPages' = TakenPages
  BY DEF TakenPages
<1> QED BY <1>1, <1>2 DEF LargeInv, LargeNotTaken

\* What is not marked is ahead of the sweep if no more is, and each page that holds some
\* still is.
LEMMA GarbageFrame ==
  ASSUME GarbageIsAhead, phase \in {"concurrent", "parallel"},
         \A o \in allocated' \ marked' : o \in allocated \ marked,
         \A p \in Page : label[p] = "run" /\ Ahead(p, "run", {"lock", "sweep"})
                           /\ Slots(mIdx[p], p) \cap (allocated' \ marked') # {} =>
           label'[p] = "run" /\ mIdx'[p] = mIdx[p] /\ Ahead(p, "run", {"lock", "sweep"})',
         \A p \in Page, n \in LargeSizes :
           Stands(p, n) /\ Ahead(p, "large", {"clear large", "large region"})
             /\ Large(p, n) \in allocated' \ marked' =>
           Stands(p, n)' /\ Ahead(p, "large", {"clear large", "large region"})'
  PROVE  GarbageIsAhead'
<1> SUFFICES ASSUME NEW o \in allocated' \ marked'
             PROVE  \E p \in Page :
                      \/ /\ label'[p] = "run" /\ (o \in Slots(mIdx[p], p))'
                         /\ Ahead(p, "run", {"lock", "sweep"})'
                      \/ /\ \E n \in LargeSizes : Stands(p, n)' /\ o = Large(p, n)
                         /\ Ahead(p, "large", {"clear large", "large region"})'
  BY DEF GarbageIsAhead
<1>1. o \in allocated \ marked
  OBVIOUS
<1>2. PICK p \in Page :
        \/ label[p] = "run" /\ o \in Slots(mIdx[p], p) /\ Ahead(p, "run", {"lock", "sweep"})
        \/ /\ \E n \in LargeSizes : Stands(p, n) /\ o = Large(p, n)
           /\ Ahead(p, "large", {"clear large", "large region"})
  BY <1>1 DEF GarbageIsAhead
<1>3. CASE label[p] = "run" /\ o \in Slots(mIdx[p], p) /\ Ahead(p, "run", {"lock", "sweep"})
  <2>1. label'[p] = "run" /\ mIdx'[p] = mIdx[p] /\ Ahead(p, "run", {"lock", "sweep"})'
    BY <1>3
  <2>2. (o \in Slots(mIdx[p], p))'
    BY <1>3, <2>1
  <2> QED BY <2>1, <2>2
<1>4. CASE /\ \E n \in LargeSizes : Stands(p, n) /\ o = Large(p, n)
           /\ Ahead(p, "large", {"clear large", "large region"})
  BY <1>4
<1> QED BY <1>2, <1>3, <1>4

\* The run at p is where it was, with the slots it had.
RunSame(p) ==
  /\ label'[p] = label[p] /\ mIdx'[p] = mIdx[p] /\ freeList'[p] = freeList[p]
  /\ IsLocal(p)' <=> IsLocal(p)
  /\ Listed(p)' <=> Listed(p)

RunKept(p) ==
  /\ RunSame(p)
  /\ Mine(p)' = Mine(p)
  /\ \A o \in Slots(mIdx[p], p) : o \in allocated' <=> o \in allocated

\* A run that a step leaves alone stays in one place.
LEMMA RunFrame ==
  ASSUME NEW p, RunInOnePlace(p), RunKept(p), Swept(p)' <=> Swept(p),
         phase' = "concurrent" => phase = "concurrent" \/ ~Swept(p)
  PROVE  RunInOnePlace(p)'
<1> PICK all : all = Slots(mIdx[p], p)
  OBVIOUS
<1>1. Slots(mIdx[p], p)' = all
  BY DEF RunKept, RunSame, Slots
<1>2. allocated' \cap all = allocated \cap all
  BY DEF RunKept
<1>3. freeList'[p] = freeList[p] /\ Mine(p)' = Mine(p) /\ IsFull(p)' = IsFull(p)
  BY DEF RunKept, RunSame, IsFull
<1>4. all = freeList[p] \cup Mine(p) \cup (allocated \cap all)
  BY DEF RunInOnePlace
<1>5. freeList[p] \cap Mine(p) = {} /\ (freeList[p] \cup Mine(p)) \cap allocated = {}
  BY DEF RunInOnePlace
<1>6. (freeList[p] \cup Mine(p)) \cap allocated' = {}
  <2>1. freeList[p] \cup Mine(p) \subseteq all BY <1>4
  <2> QED BY <1>2, <1>5, <2>1
<1>7. /\ Listed(p)' => ~IsLocal(p)' /\ ~IsFull(p)'
      /\ ~IsLocal(p)' /\ ~Listed(p)' => IsFull(p)' \/ Swept(p)'
      /\ Swept(p)' /\ phase' = "concurrent" => ~IsLocal(p)'
  BY <1>3 DEF RunInOnePlace, RunKept, RunSame
<1>8. /\ Slots(mIdx[p], p)' = freeList'[p] \cup Mine(p)' \cup (allocated' \cap Slots(mIdx[p], p)')
      /\ freeList'[p] \cap Mine(p)' = {} /\ (freeList'[p] \cup Mine(p)') \cap allocated' = {}
  BY <1>1, <1>2, <1>3, <1>4, <1>5, <1>6
<1> QED BY <1>7, <1>8 DEF RunInOnePlace

\* A worker that a step leaves alone is still at the run it was at, if that is the same.
LEMMA AtRunFrame ==
  ASSUME NEW w \in Workers, AtRun(w), at'[w] = at[w], phase' = phase,
         at[w].pc \in {"lock", "sweep", "update", "free"} => RunSame(at[w].page)
  PROVE  AtRun(w)'
<1> PICK p : p = at[w].page
  OBVIOUS
<1>1. /\ IsLocal(at[w].page)' <=> IsLocal(p)'
      /\ Listed(at[w].page)' <=> Listed(p)'
      /\ IsEmpty(at[w].page)' <=> IsEmpty(p)'
  BY DEF IsLocal, Listed, IsEmpty
<1>2. CASE at[w].pc \notin {"lock", "sweep", "update", "free"}
  BY <1>2 DEF AtRun
<1>3. CASE at[w].pc \in {"lock", "sweep", "update", "free"}
  <2>1. /\ label'[p] = label[p] /\ mIdx'[p] = mIdx[p]
        /\ IsLocal(p)' <=> IsLocal(p)
        /\ Listed(p)' <=> Listed(p)
    BY <1>3 DEF RunSame
  <2>2. IsEmpty(p)' <=> IsEmpty(p)
    BY <1>3 DEF RunSame, IsEmpty, Slots
  <2> QED BY <1>1, <2>1, <2>2 DEF AtRun
<1> QED BY <1>2, <1>3

\* A step of the mutator: what it leaves to the sweep is as it was.
SweepKept ==
  /\ AtTyped /\ Phases /\ WorkersApart /\ WorkersAtRuns /\ SnapshotHolds
  /\ GarbageIsAhead /\ LocksAreHeld /\ (phase # "concurrent" => snapshot = None)

\* A step of the mutator keeps what is known of the sweep: it changes no run that is ahead
\* of the workers.
LEMMA MutatorFrame ==
  ASSUME AllocInv, UNCHANGED <<snapshot, sweep>>, phase # "parallel",
         \A p \in Page : label[p] = "run" => label'[p] = "run" /\ mIdx'[p] = mIdx[p],
         \A p \in Page : phase = "concurrent" /\ label[p] = "run" /\ ~IsLocal(p)
                           /\ (p \in pending \/ \E w \in Workers : at[w].page = p) => RunSame(p),
         \A p \in Page, n \in LargeSizes : Stands(p, n) => Stands(p, n)',
         phase # "run" => \A o \in allocated' \ marked' : o \in allocated \ marked,
         marked' \subseteq allocated', phase = "run" => marked' = {}
  PROVE  SweepKept'
<1>1. /\ phase' = phase /\ pending' = pending /\ at' = at /\ runLocks' = runLocks
      /\ snapshot' = snapshot
  BY DEF sweep
<1>2. AtTyped'
  BY <1>1 DEF AllocInv, AtTyped
<1>3. Phases'
  BY <1>1 DEF AllocInv, Phases
<1>4. WorkersApart' /\ LocksAreHeld'
  BY <1>1 DEF AllocInv, WorkersApart, HeapInOrder, LocksAreHeld
<1>5. WorkersAtRuns'
  <2> SUFFICES ASSUME NEW w \in Workers PROVE AtRun(w)'
    BY DEF WorkersAtRuns
  <2>1. AtRun(w) /\ at'[w] = at[w]
    BY <1>1 DEF AllocInv, WorkersAtRuns
  <2>2. CASE phase # "concurrent"
    <3>1. at[w] = Idle
      BY <2>2 DEF AllocInv, HeapInOrder, TypeOK, Phases
    <3> QED BY <1>1, <2>1, <3>1, AtRunFrame, IdleIs
  <2>3. CASE phase = "concurrent"
    <3>1. at[w].pc \in {"lock", "sweep", "update", "free"} => RunSame(at[w].page)
      BY <2>1, <2>3 DEF AtRun, AllocInv, AtTyped
    <3> QED BY <1>1, <2>1, <3>1, AtRunFrame
  <2> QED BY <2>2, <2>3
<1>6. SnapshotHolds'
  <2> SUFFICES ASSUME phase = "concurrent", NEW p \in pending
               PROVE  /\ snapshot[p] = "run" => label'[p] = "run" /\ ~IsLocal(p)'
                      /\ snapshot[p] = "large" => \E n \in LargeSizes : Stands(p, n)'
    BY <1>1 DEF SnapshotHolds
  <2>1. p \in Page BY DEF AllocInv, HeapInOrder, TypeOK
  <2> QED BY <2>1 DEF AllocInv, SnapshotHolds, RunSame
<1>7. GarbageIsAhead'
  <2>1. CASE phase = "concurrent"
    <3>1. \A p \in Page : \A kind, pcs : Ahead(p, kind, pcs) => Ahead(p, kind, pcs)'
      BY <1>1, <2>1 DEF Ahead, LabelToSweep
    <3> QED BY <2>1, <3>1, GarbageFrame DEF AllocInv
  <2>2. CASE phase # "concurrent"
    BY <1>1, <2>2 DEF GarbageIsAhead
  <2> QED BY <2>1, <2>2
<1>8. (phase # "concurrent" => snapshot = None)'
  BY <1>1 DEF AllocInv, HeapInOrder
<1> QED BY <1>2, <1>3, <1>4, <1>5, <1>6, <1>7, <1>8 DEF SweepKept

\* The rest of the invariant.
HeapKept ==
  /\ TypeOK /\ FreePagesAreOwned /\ RunsInOnePlace /\ ListsHoldRuns /\ TakenTyped
  /\ LargeInv /\ ObjectsArePlaced /\ RunsHaveClass /\ SlotsAreLocal

\* The invariant is that of the heap and that of the sweep.
LEMMA InvIs ==
  /\ AllocInv <=> HeapKept /\ SweepKept
  /\ AllocInv' <=> HeapKept' /\ SweepKept'
BY DEF AllocInv, HeapInOrder, HeapKept, SweepKept

\* Objects in use keep their pages, if no page that holds one changes its kind.
LEMMA PlacedFrame ==
  ASSUME ObjectsArePlaced,
         \A p \in Page : label[p] = "run" =>
           \/ label'[p] = "run" /\ mIdx'[p] = mIdx[p]
           \/ Slots(mIdx[p], p) \cap allocated' = {},
         \A p \in Page, n \in LargeSizes :
           Stands(p, n) => Stands(p, n)' \/ Large(p, n) \notin allocated',
         \A o \in allocated' : o \in allocated \/ Placed(o)'
  PROVE  ObjectsArePlaced'
<1> SUFFICES ASSUME NEW o \in allocated' PROVE Placed(o)'
  BY DEF ObjectsArePlaced
<1>1. CASE o \in allocated
  <2>1. PICK p \in Page : \/ label[p] = "run" /\ o \in Slots(mIdx[p], p)
                          \/ \E n \in LargeSizes : Stands(p, n) /\ o = Large(p, n)
    BY <1>1 DEF ObjectsArePlaced, Placed
  <2>2. CASE label[p] = "run" /\ o \in Slots(mIdx[p], p)
    <3>1. label'[p] = "run" /\ mIdx'[p] = mIdx[p]
      BY <2>2
    <3>2. (o \in Slots(mIdx[p], p))'
      BY <2>2, <3>1
    <3> QED BY <3>1, <3>2 DEF Placed
  <2>3. CASE \E n \in LargeSizes : Stands(p, n) /\ o = Large(p, n)
    BY <2>3 DEF Placed
  <2> QED BY <2>1, <2>2, <2>3
<1> QED BY <1>1

\* A run, and the run of a class that the mutator has.
LEMMA RunFacts ==
  ASSUME AllocInv, NEW p \in Page, label[p] = "run"
  PROVE  /\ mIdx[p] \in Class /\ RunInOnePlace(p)
         /\ freeList[p] \subseteq Slots(mIdx[p], p) /\ Mine(p) \subseteq Slots(mIdx[p], p)
         /\ IsLocal(p) <=> localRuns[mIdx[p]] = p
         /\ \A c \in Class : p \in nonFullRuns[c].in => c = mIdx[p]
<1>1. mIdx[p] \in Class /\ RunInOnePlace(p)
  BY DEF AllocInv, HeapInOrder, RunsHaveClass, RunsInOnePlace
<1>2. freeList[p] \subseteq Slots(mIdx[p], p) /\ Mine(p) \subseteq Slots(mIdx[p], p)
  BY <1>1 DEF RunInOnePlace
<1>3. p # None
  BY RunListAssumption
<1>4. \A c \in Class : localRuns[c] = p => mIdx[p] = c
  BY <1>3 DEF AllocInv, HeapInOrder, ListsHoldRuns
<1>5. \A c \in Class : p \in nonFullRuns[c].in => c = mIdx[p]
  BY DEF AllocInv, HeapInOrder, ListsHoldRuns
<1> QED BY <1>1, <1>2, <1>4, <1>5 DEF IsLocal

\* The local run of a class is a run of the class, and in no list.
LEMMA LocalFacts ==
  ASSUME AllocInv, NEW c \in Class, localRuns[c] # None
  PROVE  /\ localRuns[c] \in Page /\ label[localRuns[c]] = "run" /\ mIdx[localRuns[c]] = c
         /\ IsLocal(localRuns[c]) /\ ~Listed(localRuns[c])
         /\ Mine(localRuns[c]) = freeLists[c]
<1>1. localRuns[c] \in Page /\ label[localRuns[c]] = "run" /\ mIdx[localRuns[c]] = c
  BY DEF AllocInv, HeapInOrder, TypeOK, ListsHoldRuns
<1>2. IsLocal(localRuns[c])
  BY DEF IsLocal
<1> QED BY <1>1, <1>2, RunFacts DEF RunInOnePlace, Mine

\* A step that moves no page keeps the owners of the pages.
LEMMA OwnedFrame ==
  ASSUME FreePagesAreOwned, label' = label, freePages' = freePages, taken' = taken,
         \A w \in Workers : GivenBack(w)' = GivenBack(w)
  PROVE  FreePagesAreOwned'
<1>1. TakenPages' = TakenPages
  BY DEF TakenPages
<1>2. \A p \in Page : Given(p)' <=> Given(p)
  BY DEF Given
<1>3. \A p \in Page : NotLabelled(p)' <=> NotLabelled(p)
  BY <1>1 DEF NotLabelled
<1>4. \A p \in Page : PageIsOwned(p) => PageIsOwned(p)'
  BY <1>1, <1>2, <1>3 DEF PageIsOwned
<1> QED BY <1>4 DEF FreePagesAreOwned

\* A new object, marked while should_mark_new_obj is set, is never garbage.
LEMMA NewObjectIs ==
  ASSUME AllocInv, NEW o \in Object, NewObject(o)
  PROVE  /\ allocated' = allocated \cup {o} /\ allocated' \subseteq Object
         /\ marked' \subseteq allocated' /\ marked' \subseteq Object
         /\ phase = "run" => marked' = {}
         /\ phase # "run" => \A r \in allocated' \ marked' : r \in allocated \ marked
         /\ \A q \in Page : LargeAt(q) \cap marked = {} /\ o \notin LargeAt(q) =>
              LargeAt(q) \cap marked' = {}
BY DEF NewObject, AllocInv, HeapInOrder, TypeOK, Phases

-----------------------------------------------------------------------------
(* The mutator.                                                            *)

\* The lockless path takes a slot that only the mutator has.
LEMMA AllocLocalKeeps ==
  ASSUME AllocInv, NEW c \in Class, AllocLocal(c)
  PROVE  AllocInv'
<1>1. PICK o \in freeLists[c] : NewObject(o) /\ freeLists' = [freeLists EXCEPT ![c] = @ \ {o}]
  BY DEF AllocLocal
<1>2. /\ taken = NoPages /\ phase # "parallel"
      /\ UNCHANGED <<label, snapshot, freePages, mIdx, freeList, localRuns, nonFullRuns, taken,
                     phase, pending, at, runLocks>>
  BY DEF AllocLocal, MutatorRuns, heap, sweep
<1>3. localRuns[c] # None
  BY <1>1 DEF AllocInv, SlotsAreLocal
<1> PICK p \in Page : p = localRuns[c]
  BY <1>3, LocalFacts
<1>4. label[p] = "run" /\ mIdx[p] = c /\ IsLocal(p) /\ ~Listed(p) /\ Mine(p) = freeLists[c]
  BY <1>3, LocalFacts
<1>5. RunInOnePlace(p) /\ o \in Slots(c, p) /\ o \notin allocated
  BY <1>1, <1>4, RunFacts DEF RunInOnePlace
<1>6. o \in Object
  BY <1>5, ObjectsAre
<1>7. /\ allocated' = allocated \cup {o} /\ allocated' \subseteq Object
      /\ marked' \subseteq allocated' /\ marked' \subseteq Object
      /\ phase = "run" => marked' = {}
      /\ phase # "run" => \A r \in allocated' \ marked' : r \in allocated \ marked
      /\ \A q \in Page : LargeAt(q) \cap marked = {} /\ o \notin LargeAt(q) =>
           LargeAt(q) \cap marked' = {}
  BY <1>1, <1>6, NewObjectIs
<1>8. freeLists' \in [Class -> SUBSET Object] /\ freeLists'[c] = freeLists[c] \ {o}
      /\ \A d \in Class : d # c => freeLists'[d] = freeLists[d]
  BY <1>1 DEF AllocInv, HeapInOrder, TypeOK
<1>9. \A q \in Page : RunSame(q)
  BY <1>2 DEF RunSame, IsLocal, Listed
<1>10. \A q \in Page, n \in LargeSizes : Stands(q, n) => Stands(q, n)'
  BY <1>2, <1>7 DEF Stands
<1>11. SweepKept'
  <2>1. UNCHANGED <<snapshot, sweep>>
    BY <1>2 DEF sweep
  <2> QED BY <1>2, <1>7, <1>9, <1>10, <2>1, MutatorFrame
<1>12. TypeOK'
  BY <1>2, <1>7, <1>8 DEF AllocInv, HeapInOrder, TypeOK
<1>13. FreePagesAreOwned'
  BY <1>2, OwnedFrame DEF AllocInv, HeapInOrder, GivenBack
<1>14. RunsInOnePlace'
  <2> SUFFICES ASSUME NEW q \in Page, label'[q] = "run" PROVE RunInOnePlace(q)'
    BY DEF RunsInOnePlace
  <2>1. label[q] = "run" /\ RunInOnePlace(q) /\ mIdx[q] \in Class
    BY <1>2, RunFacts
  <2>2. Swept(q)' <=> Swept(q)
    BY <1>2 DEF Swept
  <2>3. CASE q # p
    <3>1. Mine(q)' = Mine(q)
      BY <1>2, <1>8, <2>1, <2>3 DEF Mine
    <3>2. o \notin Slots(mIdx[q], q)
      BY <1>4, <1>5, <2>1, <2>3, SlotsDiffer
    <3> QED BY <1>2, <1>7, <1>9, <2>1, <2>2, <3>1, <3>2, RunFrame DEF RunKept
  <2>4. CASE q = p
    <3>1. Mine(p)' = Mine(p) \ {o}
      BY <1>2, <1>4, <1>8 DEF Mine
    <3>2. Slots(mIdx[p], p)' = Slots(c, p)
      BY <1>2, <1>4 DEF Slots
    <3>3. freeList'[p] = freeList[p] /\ (IsFull(p)' <=> IsFull(p))
      BY <1>2 DEF IsFull
    <3>4. IsLocal(p)' /\ ~Listed(p)'
      BY <1>4, <1>9 DEF RunSame
    <3>5. Swept(p)' /\ phase' = "concurrent" => ~IsLocal(p)'
      BY <1>2, <1>5, <1>9, <2>2, <2>4 DEF RunSame, RunInOnePlace
    <3>6. /\ Slots(c, p) = freeList[p] \cup Mine(p) \cup (allocated \cap Slots(c, p))
          /\ freeList[p] \cap Mine(p) = {} /\ (freeList[p] \cup Mine(p)) \cap allocated = {}
      BY <1>4, <1>5 DEF RunInOnePlace
    <3>7. /\ Slots(c, p) = freeList[p] \cup (Mine(p) \ {o}) \cup (allocated' \cap Slots(c, p))
          /\ freeList[p] \cap (Mine(p) \ {o}) = {}
          /\ (freeList[p] \cup (Mine(p) \ {o})) \cap allocated' = {}
      BY <1>1, <1>4, <1>5, <1>7, <3>6
    <3> QED BY <2>4, <3>1, <3>2, <3>3, <3>4, <3>5, <3>7 DEF RunInOnePlace
  <2> QED BY <2>3, <2>4
<1>15. ListsHoldRuns' /\ TakenTyped' /\ RunsHaveClass'
  BY <1>2 DEF AllocInv, HeapInOrder, ListsHoldRuns, TakenTyped, RunsHaveClass
<1>16. LargeInv'
  <2>1. \A q \in Page, n \in LargeSizes : q + n <= LastPage + 1 /\ label[q] # "run" =>
          (Large(q, n) \in allocated' <=> Large(q, n) \in allocated)
    BY <1>4, <1>5, <1>7, SlotsDiffer
  <2>2. \A q \in Page : label[q] # "run" => o \notin LargeAt(q)
    BY <1>4, <1>5, SlotsDiffer
  <2>3. ASSUME NEW w \in Workers, Clearing(w) PROVE LargeAt(at[w].page) \cap marked' = {}
    BY <1>7, <2>2, <2>3 DEF AllocInv, LargeInv, LargeCleared, Stands, AtTyped, Clearing
  <2> QED BY <1>2, <2>1, <2>3, LargeFrame, TakenFrame DEF AllocInv, Clearing
<1>17. ObjectsArePlaced'
  <2>1. \A r \in allocated' : r \in allocated \/ Placed(r)'
    BY <1>2, <1>4, <1>5, <1>7 DEF Placed
  <2> QED BY <1>2, <1>10, <2>1, PlacedFrame DEF AllocInv
<1>18. SlotsAreLocal'
  BY <1>2, <1>3, <1>8 DEF AllocInv, SlotsAreLocal
<1> QED BY <1>11, <1>12, <1>13, <1>14, <1>15, <1>16, <1>17, <1>18, InvIs DEF HeapKept

\* The run at p becomes the local one of class c.  A run that was local is used up.
Localises(c, p, free) ==
  /\ LocaliseAndAlloc(c, p, free)
  /\ label'[p] = "run" /\ mIdx'[p] = c
  /\ \A q \in Page \ {p} :
       /\ label'[q] = label[q] /\ mIdx'[q] = mIdx[q]
       /\ \A d \in Class : q \in nonFullRuns'[d].in <=> q \in nonFullRuns[d].in
  /\ p \notin nonFullRuns'[c].in /\ freeLists[c] = {}
  /\ localRuns[c] # None => localRuns[c] = p \/ IsFull(localRuns[c])
  /\ \A d \in Class \ {c} : localRuns[d] # p
  /\ free \subseteq Slots(c, p) /\ Slots(c, p) = free \cup (allocated \cap Slots(c, p))
  /\ free \cap allocated = {}
  /\ at' = at /\ phase' = phase /\ (phase = "concurrent" => ~Swept(p))

\* Localise, class by class and page by page.
LEMMA LocaliseTyped ==
  ASSUME AllocInv, NEW c \in Class, NEW p \in Page, NEW free, Localises(c, p, free)
  PROVE  /\ freeList' \in [Page -> SUBSET Object] /\ freeLists' \in [Class -> SUBSET Object]
         /\ localRuns' \in [Class -> Page \cup {None}]
         /\ freeList'[p] = {} /\ localRuns'[c] = p
         /\ \A q \in Page : q # p => freeList'[q] = freeList[q]
         /\ \A d \in Class : d # c => localRuns'[d] = localRuns[d] /\ freeLists'[d] = freeLists[d]
         /\ SlotsAreLocal'
         /\ \E o \in free : NewObject(o) /\ freeLists'[c] = free \ {o}
<1>1. PICK o \in free : /\ NewObject(o) /\ freeLists' = [freeLists EXCEPT ![c] = free \ {o}]
                        /\ freeList' = [freeList EXCEPT ![p] = {}]
                        /\ localRuns' = [localRuns EXCEPT ![c] = p]
  BY DEF Localises, LocaliseAndAlloc
<1>2. free \subseteq Object
  BY ObjectsAre DEF Localises
<1>3. /\ freeList' \in [Page -> SUBSET Object] /\ freeLists' \in [Class -> SUBSET Object]
      /\ localRuns' \in [Class -> Page \cup {None}]
  BY <1>1, <1>2 DEF AllocInv, HeapInOrder, TypeOK
<1>4. /\ freeList'[p] = {} /\ localRuns'[c] = p /\ freeLists'[c] = free \ {o}
      /\ \A q \in Page : q # p => freeList'[q] = freeList[q]
      /\ \A d \in Class : d # c => localRuns'[d] = localRuns[d] /\ freeLists'[d] = freeLists[d]
  BY <1>1 DEF AllocInv, HeapInOrder, TypeOK
<1>5. SlotsAreLocal'
  BY <1>4, RunListAssumption DEF AllocInv, SlotsAreLocal
<1> QED BY <1>1, <1>3, <1>4, <1>5

\* Localise changes no run but the one it makes local and the one that was, which is full.
LEMMA LocaliseSame ==
  ASSUME AllocInv, NEW c \in Class, NEW p \in Page, NEW free, Localises(c, p, free),
         NEW q \in Page, q # p, label[q] = "run"
  PROVE  /\ localRuns[c] # q => RunSame(q) /\ Mine(q)' = Mine(q)
         /\ ~IsLocal(q) => RunSame(q)
         /\ localRuns[c] = q => /\ IsFull(q)' /\ ~IsLocal(q)' /\ ~Listed(q)'
                                /\ Mine(q) = {} /\ Mine(q)' = {}
<1>1. /\ freeList'[q] = freeList[q] /\ localRuns'[c] = p
      /\ \A d \in Class : d # c => localRuns'[d] = localRuns[d] /\ freeLists'[d] = freeLists[d]
  BY LocaliseTyped
<1>2. label'[q] = label[q] /\ mIdx'[q] = mIdx[q]
  BY DEF Localises
<1>3. mIdx[q] \in Class /\ (IsLocal(q) <=> localRuns[mIdx[q]] = q)
  BY RunFacts
<1>4. Listed(q)' <=> Listed(q)
  BY <1>2, <1>3 DEF Localises, Listed
<1>5. IsLocal(q)' <=> (\E d \in Class : d # c /\ localRuns[d] = q)
  BY <1>1 DEF IsLocal
<1>6. CASE localRuns[c] # q
  <2>1. IsLocal(q)' <=> IsLocal(q)
    BY <1>5, <1>6 DEF IsLocal
  <2>2. Mine(q)' = Mine(q)
    <3>1. CASE mIdx[q] = c
      BY <1>1, <1>2, <1>6, <3>1 DEF Mine
    <3>2. CASE mIdx[q] # c
      BY <1>1, <1>2, <1>3, <3>2 DEF Mine
    <3> QED BY <3>1, <3>2
  <2> QED BY <1>1, <1>2, <1>4, <1>6, <2>1, <2>2 DEF RunSame
<1>7. CASE localRuns[c] = q
  <2>1. q # None /\ mIdx[q] = c /\ IsLocal(q) /\ ~Listed(q) /\ Mine(q) = freeLists[c]
    BY <1>7, LocalFacts, RunListAssumption
  <2>2. ~IsLocal(q)'
    BY <1>3, <1>5, <2>1, LocalFacts
  <2>3. IsFull(q)' /\ freeLists[c] = {}
    BY <1>1, <1>7, <2>1 DEF Localises, IsFull
  <2>4. Mine(q)' = {}
    BY <1>1, <1>2, <2>1 DEF Mine
  <2> QED BY <1>4, <1>7, <2>1, <2>2, <2>3, <2>4
<1> QED BY <1>6, <1>7

\* Localise keeps each run in one place.
LEMMA LocaliseRuns ==
  ASSUME AllocInv, NEW c \in Class, NEW p \in Page, NEW free, Localises(c, p, free)
  PROVE  RunsInOnePlace'
<1> SUFFICES ASSUME NEW q \in Page, label'[q] = "run" PROVE RunInOnePlace(q)'
  BY DEF RunsInOnePlace
<1>1. PICK o \in free : NewObject(o) /\ freeLists'[c] = free \ {o}
  BY LocaliseTyped
<1>2. /\ freeList'[p] = {} /\ localRuns'[c] = p
      /\ \A r \in Page : r # p => freeList'[r] = freeList[r]
      /\ \A d \in Class : d # c => localRuns'[d] = localRuns[d] /\ freeLists'[d] = freeLists[d]
  BY LocaliseTyped
<1>3. o \in Slots(c, p) /\ allocated' = allocated \cup {o}
  BY <1>1 DEF Localises, NewObject
<1>4. at' = at /\ phase' = phase
  BY DEF Localises
<1>5. Swept(q)' <=> Swept(q)
  BY <1>4 DEF Swept
<1>6. CASE q # p
  <2>1. label[q] = "run" /\ mIdx'[q] = mIdx[q]
    BY <1>6 DEF Localises
  <2>2. RunInOnePlace(q) /\ mIdx[q] \in Class
    BY <2>1, RunFacts
  <2>3. \A r \in Slots(mIdx[q], q) : r \in allocated' <=> r \in allocated
    BY <1>3, <1>6, <2>2, SlotsDiffer
  <2>4. CASE localRuns[c] # q
    <3>1. RunSame(q) /\ Mine(q)' = Mine(q)
      BY <1>6, <2>1, <2>4, LocaliseSame
    <3> QED BY <1>4, <1>5, <2>2, <2>3, <3>1, RunFrame DEF RunKept
  <2>5. CASE localRuns[c] = q
    <3>1. IsFull(q)' /\ ~IsLocal(q)' /\ ~Listed(q)' /\ Mine(q) = {} /\ Mine(q)' = {}
      BY <1>6, <2>1, <2>5, LocaliseSame
    <3>2. freeList'[q] = {} /\ freeList[q] = {}
      BY <1>2, <1>6, <3>1 DEF IsFull
    <3>3. Slots(mIdx[q], q) \subseteq allocated
      BY <2>2, <3>1, <3>2 DEF RunInOnePlace
    <3>4. Slots(mIdx[q], q)' = Slots(mIdx[q], q)
      BY <2>1
    <3>5. Slots(mIdx[q], q)' = freeList'[q] \cup Mine(q)' \cup (allocated' \cap Slots(mIdx[q], q)')
      BY <1>3, <3>1, <3>2, <3>3, <3>4
    <3> QED BY <3>1, <3>2, <3>5 DEF RunInOnePlace
  <2> QED BY <2>4, <2>5
<1>7. CASE q = p
  <2>1. mIdx'[p] = c
    BY DEF Localises
  <2>2. Mine(p)' = free \ {o}
    BY <1>1, <1>2, <2>1 DEF Mine
  <2>3. Slots(mIdx[p], p)' = Slots(c, p)
    BY <2>1
  <2>4. IsLocal(p)' /\ ~Listed(p)'
    BY <1>2, <2>1 DEF IsLocal, Listed, Localises
  <2>5. phase' = "concurrent" => ~Swept(p)'
    BY <1>4, <1>5, <1>7 DEF Localises
  <2>6. Slots(c, p) = free \cup (allocated \cap Slots(c, p)) /\ free \cap allocated = {}
    BY DEF Localises
  <2>7. /\ Slots(c, p) = {} \cup (free \ {o}) \cup (allocated' \cap Slots(c, p))
        /\ {} \cap (free \ {o}) = {} /\ ({} \cup (free \ {o})) \cap allocated' = {}
    BY <1>1, <1>3, <2>6
  <2> QED BY <1>2, <1>7, <2>2, <2>3, <2>4, <2>5, <2>7 DEF RunInOnePlace
<1> QED BY <1>6, <1>7

\* Localise, and the allocation, in a run that the workers of a concurrent sweep keep away
\* from.
LEMMA LocaliseKeeps ==
  ASSUME AllocInv, NEW c \in Class, NEW p \in Page, NEW free, Localises(c, p, free),
         MutatorRuns, UNCHANGED <<label, snapshot, freePages, mIdx, taken, sweep>>,
         label[p] = "run", mIdx[p] = c, phase = "concurrent" => IsLocal(p),
         nonFullRuns' \in [Class -> Lists],
         \A d \in Class : /\ IsList(nonFullRuns[d])'
                          /\ nonFullRuns'[d].in \subseteq nonFullRuns[d].in
  PROVE  AllocInv'
<1>1. PICK o \in free : NewObject(o)
  BY LocaliseTyped
<1>2. /\ taken = NoPages /\ phase # "parallel"
      /\ UNCHANGED <<label, snapshot, freePages, mIdx, taken, phase, pending, at, runLocks>>
  BY DEF MutatorRuns, sweep
<1>3. o \in Slots(c, p) /\ o \in Object
  BY ObjectsAre DEF Localises
<1>4. /\ allocated' = allocated \cup {o} /\ allocated' \subseteq Object
      /\ marked' \subseteq allocated' /\ marked' \subseteq Object
      /\ phase = "run" => marked' = {}
      /\ phase # "run" => \A r \in allocated' \ marked' : r \in allocated \ marked
      /\ \A q \in Page : LargeAt(q) \cap marked = {} /\ o \notin LargeAt(q) =>
           LargeAt(q) \cap marked' = {}
  BY <1>1, <1>3, NewObjectIs
<1>5. /\ freeList' \in [Page -> SUBSET Object] /\ freeLists' \in [Class -> SUBSET Object]
      /\ localRuns' \in [Class -> Page \cup {None}] /\ SlotsAreLocal' /\ localRuns'[c] = p
      /\ \A d \in Class : d # c => localRuns'[d] = localRuns[d]
  BY LocaliseTyped
<1>6. \A q \in Page, n \in LargeSizes : Stands(q, n) => Stands(q, n)'
  BY <1>2, <1>4 DEF Stands
<1>7. SweepKept'
  <2>1. ASSUME NEW q \in Page, phase = "concurrent", label[q] = "run", ~IsLocal(q)
        PROVE  RunSame(q)
    BY <2>1, LocaliseSame
  <2> QED BY <1>2, <1>4, <1>6, <2>1, MutatorFrame
<1>8. TypeOK'
  BY <1>2, <1>4, <1>5 DEF AllocInv, HeapInOrder, TypeOK
<1>9. FreePagesAreOwned'
  BY <1>2, OwnedFrame DEF AllocInv, HeapInOrder, GivenBack
<1>10. ListsHoldRuns'
  <2> SUFFICES ASSUME NEW d \in Class
               PROVE  /\ IsList(nonFullRuns[d])'
                      /\ \A q \in nonFullRuns'[d].in : label'[q] = "run" /\ mIdx'[q] = d
                      /\ localRuns'[d] # None => label'[localRuns'[d]] = "run" /\ mIdx'[localRuns'[d]] = d
    BY DEF ListsHoldRuns
  <2> QED BY <1>2, <1>5 DEF AllocInv, HeapInOrder, ListsHoldRuns
<1>11. RunsHaveClass' /\ TakenTyped'
  BY <1>2 DEF AllocInv, RunsHaveClass, TakenTyped
<1>12. LargeInv'
  <2>1. \A q \in Page, n \in LargeSizes : q + n <= LastPage + 1 /\ label[q] # "run" =>
          (Large(q, n) \in allocated' <=> Large(q, n) \in allocated)
    BY <1>3, <1>4, SlotsDiffer
  <2>2. \A q \in Page : label[q] # "run" => o \notin LargeAt(q)
    BY <1>3, SlotsDiffer
  <2>3. ASSUME NEW w \in Workers, Clearing(w) PROVE LargeAt(at[w].page) \cap marked' = {}
    BY <1>4, <2>2, <2>3 DEF AllocInv, LargeInv, LargeCleared, Stands, AtTyped, Clearing
  <2> QED BY <1>2, <2>1, <2>3, LargeFrame, TakenFrame DEF AllocInv, Clearing
<1>13. ObjectsArePlaced'
  <2>1. \A r \in allocated' : r \in allocated \/ Placed(r)'
    BY <1>2, <1>3, <1>4 DEF Placed
  <2> QED BY <1>2, <1>6, <2>1, PlacedFrame DEF AllocInv
<1>14. RunsInOnePlace'
  BY LocaliseRuns
<1> QED BY <1>5, <1>7, <1>8, <1>9, <1>10, <1>11, <1>12, <1>13, <1>14, InvIs DEF HeapKept

\* The slots that the sweep freed in the local run go to the mutator.
LEMMA AllocRelocalisedKeeps ==
  ASSUME AllocInv, NEW c \in Class, AllocRelocalised(c)
  PROVE  AllocInv'
<1>1. /\ MutatorRuns /\ freeLists[c] = {} /\ localRuns[c] # None
      /\ LocaliseAndAlloc(c, localRuns[c], freeList[localRuns[c]])
      /\ UNCHANGED <<heap, mIdx, nonFullRuns, taken, sweep>>
  BY DEF AllocRelocalised
<1> PICK p \in Page : p = localRuns[c]
  BY <1>1, LocalFacts
<1>2. label[p] = "run" /\ mIdx[p] = c /\ IsLocal(p) /\ ~Listed(p) /\ Mine(p) = {}
  BY <1>1, LocalFacts
<1>3. RunInOnePlace(p) /\ freeList[p] \subseteq Slots(c, p)
  BY <1>2, RunFacts
<1>4. /\ label' = label /\ mIdx' = mIdx /\ at' = at /\ phase' = phase
      /\ nonFullRuns' = nonFullRuns /\ snapshot' = snapshot /\ freePages' = freePages
  BY <1>1 DEF heap, sweep
<1>5. \A d \in Class \ {c} : localRuns[d] # p
  BY <1>2, RunFacts, LocalFacts, RunListAssumption
<1>6. /\ Slots(c, p) = freeList[p] \cup (allocated \cap Slots(c, p))
      /\ freeList[p] \cap allocated = {}
      /\ phase = "concurrent" => ~Swept(p)
  BY <1>2, <1>3 DEF RunInOnePlace
<1>7. Localises(c, p, freeList[p])
  BY <1>1, <1>2, <1>3, <1>4, <1>5, <1>6 DEF Localises, Listed
<1>8. /\ nonFullRuns' \in [Class -> Lists]
      /\ \A d \in Class : IsList(nonFullRuns[d])' /\ nonFullRuns'[d].in \subseteq nonFullRuns[d].in
  BY <1>4 DEF AllocInv, HeapInOrder, TypeOK, ListsHoldRuns
<1> QED BY <1>1, <1>2, <1>4, <1>7, <1>8, LocaliseKeeps

\* A list holds runs of its class that are not local, and not full.
LEMMA ListFacts ==
  ASSUME AllocInv, NEW c \in Class
  PROVE  /\ nonFullRuns[c] \in Lists /\ IsList(nonFullRuns[c])
         /\ \A p \in nonFullRuns[c].in : /\ p \in Page /\ label[p] = "run" /\ mIdx[p] = c
                                         /\ Listed(p) /\ ~IsLocal(p) /\ ~IsFull(p)
<1>1. nonFullRuns[c] \in Lists /\ IsList(nonFullRuns[c])
  BY DEF AllocInv, HeapInOrder, TypeOK, ListsHoldRuns
<1>2. \A p \in nonFullRuns[c].in : p \in Page
  BY <1>1 DEF Lists
<1>3. \A p \in nonFullRuns[c].in : label[p] = "run" /\ mIdx[p] = c /\ Listed(p)
  BY DEF AllocInv, HeapInOrder, ListsHoldRuns, Listed
<1> QED BY <1>1, <1>2, <1>3, RunFacts DEF RunInOnePlace

\* The run that was fetched leaves its list, and no concurrent sweep goes on.
LEMMA AllocFetchedKeeps ==
  ASSUME AllocInv, NEW c \in Class, AllocFetched(c)
  PROVE  AllocInv'
<1> PICK l \in Lists : l = nonFullRuns[c]
  BY ListFacts
<1>1. /\ MutatorRuns /\ freeLists[c] = {} /\ (localRuns[c] # None => IsFull(localRuns[c]))
      /\ phase # "concurrent" /\ l.second # None
      /\ LocaliseAndAlloc(c, l.second, freeList[l.second])
      /\ nonFullRuns' = [nonFullRuns EXCEPT ![c] = Fetched(@)]
      /\ UNCHANGED <<heap, mIdx, taken, sweep>>
  BY DEF AllocFetched, LocalUsedUp, MayFetch
<1>2. IsList(l)
  BY ListFacts
<1> PICK p \in l.in : p = l.second
  BY <1>1, <1>2, PagesAre, SecondOf
<1>3. /\ p \in Page /\ label[p] = "run" /\ mIdx[p] = c
      /\ Listed(p) /\ ~IsLocal(p) /\ ~IsFull(p)
  BY ListFacts
<1>4. RunInOnePlace(p) /\ freeList[p] \subseteq Slots(c, p)
  BY <1>3, RunFacts
<1>5. /\ label' = label /\ mIdx' = mIdx /\ at' = at /\ phase' = phase
      /\ snapshot' = snapshot /\ freePages' = freePages
  BY <1>1 DEF heap, sweep
<1>6. \A d \in Class : localRuns[d] # p
  BY <1>3 DEF IsLocal
<1>7. Mine(p) = {}
  BY <1>3, <1>6 DEF Mine
<1>8. /\ Slots(c, p) = freeList[p] \cup (allocated \cap Slots(c, p))
      /\ freeList[p] \cap allocated = {}
  BY <1>3, <1>4, <1>7 DEF RunInOnePlace
<1> PICK m \in Lists : m = Erase(l, p)
  BY <1>2, PagesAre, EraseKeepsList
<1>9. IsList(m) /\ m.in = l.in \ {p} /\ Fetched(l) = m
  BY <1>1, <1>2, PagesAre, EraseKeepsList, FetchedIsErased
<1>10. nonFullRuns' = [nonFullRuns EXCEPT ![c] = m]
  BY <1>1, <1>9
<1>11. /\ nonFullRuns' \in [Class -> Lists] /\ nonFullRuns'[c] = m
       /\ \A d \in Class : d # c => nonFullRuns'[d] = nonFullRuns[d]
  BY <1>10 DEF AllocInv, HeapInOrder, TypeOK
<1>12. \A d \in Class : IsList(nonFullRuns[d])' /\ nonFullRuns'[d].in \subseteq nonFullRuns[d].in
  <2>1. ASSUME NEW d \in Class PROVE IsList(nonFullRuns'[d])
    BY <1>9, <1>11, ListFacts
  <2>2. \A d \in Class : IsList(nonFullRuns[d])'
    BY <2>1 DEF IsList
  <2> QED BY <1>9, <1>11, <2>2
<1>13. Localises(c, p, freeList[p])
  <2>1. /\ \A q \in Page \ {p}, d \in Class : q \in nonFullRuns'[d].in <=> q \in nonFullRuns[d].in
        /\ p \notin nonFullRuns'[c].in
    BY <1>9, <1>11
  <2> QED BY <1>1, <1>3, <1>4, <1>5, <1>6, <1>8, <2>1 DEF Localises
<1> QED BY <1>1, <1>3, <1>5, <1>11, <1>12, <1>13, LocaliseKeeps

\* The pages of a large object are not in the tree, nor given back or taken for another.
LEMMA StandsApart ==
  ASSUME AllocInv, NEW p \in Page, NEW n \in LargeSizes, Stands(p, n), NEW x \in PagesFrom(p, n)
  PROVE  /\ x \in Page /\ x \notin TakenPages /\ x \notin freePages /\ label[x] # "run"
         /\ (\A w \in Workers : Clearing(w) => at[w].page # p) => label[x] # "free"
<1>1. x \in Page /\ x \notin TakenPages
  BY DEF AllocInv, LargeInv, LargeNotTaken, PagesFrom
<1>2. CASE \A w \in Workers : Clearing(w) => at[w].page # p
  <2>1. Labelled(p, n, 0)
    BY <1>2 DEF AllocInv, LargeInv, LargeLabelled
  <2>2. ~(x < p + 0)
    BY PagesAre, <1>1 DEF PagesFrom
  <2>3. label[x] \in {"large", "large rem"}
    BY <2>1, <2>2 DEF Labelled
  <2>4. x \notin freePages
    BY <1>1, <2>3 DEF AllocInv, HeapInOrder, FreePagesAreOwned, PageIsOwned
  <2> QED BY <1>1, <2>3, <2>4
<1>3. CASE \E w \in Workers : Clearing(w) /\ at[w].page = p
  <2>1. PICK w \in Workers : Clearing(w) /\ at[w].page = p
    BY <1>3
  <2>2. PICK m \in LargeSizes : Stands(p, m) /\ Labelled(p, m, at[w].cleared)
    BY <2>1 DEF AllocInv, LargeInv, LargeCleared
  <2>3. p \in PagesFrom(p, n) /\ p \in PagesFrom(p, m)
    BY <2>2, LargeIs DEF Stands
  <2>4. m = n
    BY <2>2, <2>3 DEF AllocInv, LargeInv, LargeApart
  <2>5. label[x] = IF x < p + at[w].cleared THEN "free" ELSE IF x = p THEN "large" ELSE "large rem"
    BY <2>2, <2>4 DEF Labelled
  <2>6. label[x] # "run"
    BY <2>5
  <2>7. x \notin freePages
    <3>1. CASE x < p + at[w].cleared
      <4>1. x \in GivenBack(w)
        BY <1>1, <2>1, <3>1 DEF GivenBack, Clearing, PagesFrom
      <4> QED BY <1>1, <4>1 DEF AllocInv, HeapInOrder, FreePagesAreOwned, PageIsOwned, Given
    <3>2. CASE ~(x < p + at[w].cleared)
      BY <1>1, <2>5, <3>2 DEF AllocInv, HeapInOrder, FreePagesAreOwned, PageIsOwned
    <3> QED BY <3>1, <3>2
  <2> QED BY <1>1, <1>3, <2>6, <2>7
<1> QED BY <1>2, <1>3

\* Pages that the mutator takes have one owner still, and no large object is on them.
LEMMA TakePagesKeeps ==
  ASSUME AllocInv, taken = NoPages, NEW for, for # "large rem", NEW p \in Page, NEW n \in 1..LastPage,
         TakePages(for, p, n), UNCHANGED <<label, objects, at>>
  PROVE  /\ FreePagesAreOwned' /\ LargeInv' /\ freePages' \subseteq Page
         /\ taken' = [for |-> for, page |-> p, count |-> n]
<1>1. /\ PagesFrom(p, n) \subseteq freePages /\ freePages' = freePages \ PagesFrom(p, n)
      /\ taken' = [for |-> for, page |-> p, count |-> n]
  BY DEF TakePages
<1>2. taken' # NoPages
  BY <1>1, RunListAssumption DEF NoPages
<1>3. TakenPages = {} /\ TakenPages' = PagesFrom(p, n) /\ freePages' \subseteq Page
  BY <1>1, <1>2 DEF TakenPages, AllocInv, HeapInOrder, TypeOK
<1>4. taken.for = "nothing" /\ taken'.for = for
  BY <1>1 DEF NoPages
<1>5. FreePagesAreOwned'
  <2>1. \A x \in Page : Given(x)' <=> Given(x)
    BY DEF Given, GivenBack
  <2>2. \A x \in Page : NotLabelled(x)' <=> x \in PagesFrom(p, n)
    BY <1>3, <1>4 DEF NotLabelled
  <2>3. \A x \in Page : ~NotLabelled(x)
    BY <1>3 DEF NotLabelled
  <2>4. \A x \in Page : PageIsOwned(x) => PageIsOwned(x)'
    BY <1>1, <1>3, <2>1, <2>2, <2>3 DEF PageIsOwned
  <2>5. \A v, w \in Workers : v # w => GivenBack(v)' \cap GivenBack(w)' = {}
    BY DEF GivenBack, AllocInv, HeapInOrder, FreePagesAreOwned
  <2> QED BY <2>4, <2>5 DEF AllocInv, HeapInOrder, FreePagesAreOwned
<1>6. LargeNotTaken'
  <2> SUFFICES ASSUME NEW q \in Page, NEW m \in LargeSizes, Stands(q, m)'
               PROVE  TakenPages' \cap PagesFrom(q, m) = {}
    BY DEF LargeNotTaken
  <2>1. Stands(q, m)
    BY DEF Stands, objects
  <2> QED BY <1>1, <1>3, <2>1, StandsApart
<1>7. LargeInv'
  BY <1>4, <1>6, LargeFrame DEF AllocInv, LargeInv, LargeCleared, Clearing, objects
<1> QED BY <1>1, <1>3, <1>5, <1>7

\* The local run of class c, if there is one, is used up and made global.
LEMMA GlobalKeeps ==
  ASSUME AllocInv, NEW c \in Class, LocalUsedUp(c), localRuns' = [localRuns EXCEPT ![c] = None],
         UNCHANGED <<label, snapshot, mIdx, freeList, freeLists, nonFullRuns, objects, sweep>>
  PROVE  /\ SweepKept' /\ RunsInOnePlace' /\ ListsHoldRuns' /\ SlotsAreLocal' /\ RunsHaveClass'
         /\ ObjectsArePlaced' /\ localRuns' \in [Class -> Page \cup {None}] /\ localRuns'[c] = None
<1>1. /\ MutatorRuns /\ freeLists[c] = {} /\ (localRuns[c] # None => IsFull(localRuns[c]))
      /\ UNCHANGED <<allocated, marked, phase, pending, at, runLocks>>
  BY DEF LocalUsedUp, objects, sweep
<1>2. /\ localRuns' \in [Class -> Page \cup {None}] /\ localRuns'[c] = None
      /\ \A d \in Class : d # c => localRuns'[d] = localRuns[d]
  BY DEF AllocInv, HeapInOrder, TypeOK
<1>3. SlotsAreLocal'
  BY <1>1, <1>2 DEF AllocInv, SlotsAreLocal
<1>4. \A q \in Page, n \in LargeSizes : Stands(q, n) => Stands(q, n)'
  BY <1>1 DEF Stands
<1>5. \A q \in Page : Listed(q)' <=> Listed(q)
  BY DEF Listed
<1>6. ASSUME NEW q \in Page, q # localRuns[c] PROVE RunSame(q)
  <2>1. q # None
    BY RunListAssumption
  <2>2. IsLocal(q)' <=> IsLocal(q)
    BY <1>2, <1>6, <2>1 DEF IsLocal
  <2> QED BY <1>5, <2>2 DEF RunSame
<1>7. SweepKept'
  <2>1. \A q \in Page : ~IsLocal(q) => RunSame(q)
    BY <1>6 DEF IsLocal
  <2>2. /\ marked' \subseteq allocated' /\ (phase = "run" => marked' = {})
        /\ \A o \in allocated' \ marked' : o \in allocated \ marked
    BY <1>1 DEF AllocInv, Phases
  <2> QED BY <1>1, <1>4, <2>1, <2>2, MutatorFrame DEF MutatorRuns
<1>8. RunsInOnePlace'
  <2> SUFFICES ASSUME NEW q \in Page, label'[q] = "run" PROVE RunInOnePlace(q)'
    BY DEF RunsInOnePlace
  <2>1. RunInOnePlace(q) /\ mIdx[q] \in Class /\ (Swept(q)' <=> Swept(q)) /\ q # None
    BY <1>1, RunFacts, RunListAssumption DEF Swept
  <2>2. CASE q # localRuns[c]
    <3>1. Mine(q)' = Mine(q)
      BY <1>2, <2>1, <2>2 DEF Mine
    <3> QED BY <1>1, <1>6, <2>1, <2>2, <3>1, RunFrame DEF RunKept
  <2>3. CASE q = localRuns[c]
    <3>1. /\ mIdx[q] = c /\ IsLocal(q) /\ ~Listed(q) /\ Mine(q) = {} /\ IsFull(q)
          /\ \A d \in Class : localRuns[d] = q => d = c
      BY <1>1, <2>1, <2>3, LocalFacts
    <3>2. ~IsLocal(q)' /\ ~Listed(q)' /\ IsFull(q)' /\ Mine(q)' = {}
      BY <1>2, <1>5, <2>1, <3>1 DEF IsLocal, IsFull, Mine
    <3>3. Slots(mIdx[q], q)' = Slots(mIdx[q], q) /\ freeList'[q] = {} /\ freeList[q] = {}
      BY <3>1 DEF IsFull
    <3>4. Slots(mIdx[q], q) = freeList[q] \cup Mine(q) \cup (allocated \cap Slots(mIdx[q], q))
      BY <2>1 DEF RunInOnePlace
    <3>5. Slots(mIdx[q], q)' = freeList'[q] \cup Mine(q)' \cup (allocated' \cap Slots(mIdx[q], q)')
      BY <1>1, <3>1, <3>2, <3>3, <3>4
    <3> QED BY <3>2, <3>3, <3>5 DEF RunInOnePlace
  <2> QED BY <2>2, <2>3
<1>9. ListsHoldRuns'
  <2> SUFFICES ASSUME NEW d \in Class
               PROVE  /\ IsList(nonFullRuns[d])'
                      /\ \A q \in nonFullRuns'[d].in : label'[q] = "run" /\ mIdx'[q] = d
                      /\ localRuns'[d] # None => label'[localRuns'[d]] = "run" /\ mIdx'[localRuns'[d]] = d
    BY DEF ListsHoldRuns
  <2>1. IsList(nonFullRuns[d])'
    BY ListFacts
  <2> QED BY <1>2, <2>1 DEF AllocInv, HeapInOrder, ListsHoldRuns
<1>10. RunsHaveClass' /\ ObjectsArePlaced'
  BY <1>1, <1>4, PlacedFrame DEF AllocInv, RunsHaveClass
<1> QED BY <1>2, <1>3, <1>7, <1>8, <1>9, <1>10

\* A page is taken for a run; the local run, which is full, becomes global.
LEMMA TakeRunPageKeeps ==
  ASSUME AllocInv, NEW c \in Class, TakeRunPage(c)
  PROVE  AllocInv'
<1>1. PICK p \in Page : TakePages(c, p, 1)
  BY DEF TakeRunPage
<1>2. /\ LocalUsedUp(c) /\ localRuns' = [localRuns EXCEPT ![c] = None]
      /\ UNCHANGED <<label, snapshot, mIdx, freeList, freeLists, nonFullRuns, objects, sweep>>
  BY DEF TakeRunPage
<1>3. taken = NoPages /\ at' = at
  BY <1>2 DEF LocalUsedUp, MutatorRuns, sweep
<1>4. /\ SweepKept' /\ RunsInOnePlace' /\ ListsHoldRuns' /\ SlotsAreLocal' /\ RunsHaveClass'
      /\ ObjectsArePlaced' /\ localRuns' \in [Class -> Page \cup {None}] /\ localRuns'[c] = None
  BY <1>2, GlobalKeeps
<1>5. 1 \in 1..LastPage /\ p + 1 <= LastPage + 1 /\ c # "large rem"
  <2>1. LastPage \in Nat /\ p \in 1..LastPage
    BY PagesAre
  <2>2. 1 \in 1..LastPage /\ p + 1 <= LastPage + 1
    BY <2>1
  <2>3. c # "large rem"
    BY ClassIs
  <2> QED BY <2>2, <2>3
<1>6. /\ FreePagesAreOwned' /\ LargeInv' /\ freePages' \subseteq Page
      /\ taken' = [for |-> c, page |-> p, count |-> 1]
  BY <1>1, <1>2, <1>3, <1>5, TakePagesKeeps
<1>7. TypeOK'
  BY <1>2, <1>4, <1>6 DEF AllocInv, HeapInOrder, TypeOK, objects, sweep
<1>8. TakenTyped'
  BY <1>4, <1>5, <1>6 DEF TakenTyped
<1> QED BY <1>4, <1>6, <1>7, <1>8, InvIs DEF HeapKept

\* The local run, which is full, becomes global.
LEMMA AllocRunFailsKeeps ==
  ASSUME AllocInv, NEW c \in Class, AllocRunFails(c)
  PROVE  AllocInv'
<1>1. /\ LocalUsedUp(c) /\ localRuns' = [localRuns EXCEPT ![c] = None]
      /\ UNCHANGED <<label, snapshot, freePages, mIdx, freeList, freeLists, nonFullRuns, objects,
                     taken, sweep>>
  BY DEF AllocRunFails, heap
<1>2. /\ SweepKept' /\ RunsInOnePlace' /\ ListsHoldRuns' /\ SlotsAreLocal' /\ RunsHaveClass'
      /\ ObjectsArePlaced' /\ localRuns' \in [Class -> Page \cup {None}]
  BY <1>1, GlobalKeeps
<1>3. /\ taken = NoPages
      /\ UNCHANGED <<allocated, marked, phase, pending, at, runLocks>>
  BY <1>1 DEF LocalUsedUp, MutatorRuns, objects, sweep
<1>4. TypeOK' /\ TakenTyped'
  BY <1>1, <1>2, <1>3 DEF AllocInv, HeapInOrder, TypeOK, TakenTyped
<1>5. FreePagesAreOwned'
  BY <1>1, <1>3, OwnedFrame DEF AllocInv, HeapInOrder, GivenBack
<1>6. LargeInv'
  BY <1>1, <1>3, LargeFrame, TakenFrame DEF AllocInv, LargeInv, LargeCleared, Clearing
<1> QED BY <1>2, <1>4, <1>5, <1>6, InvIs DEF HeapKept

\* The runs, when a step leaves them alone.
LEMMA RunsUnchanged ==
  ASSUME AllocInv, UNCHANGED <<runs, at>>,
         phase' = "concurrent" => phase = "concurrent" \/ \A w \in Workers : at[w] = Idle,
         \A q \in Page : label'[q] = "run" <=> label[q] = "run",
         \A q \in Page : label[q] = "run" =>
           \A o \in Slots(mIdx[q], q) : o \in allocated' <=> o \in allocated
  PROVE  /\ RunsInOnePlace' /\ ListsHoldRuns' /\ SlotsAreLocal' /\ RunsHaveClass'
         /\ \A q \in Page : label[q] = "run" => RunSame(q)
<1>1. UNCHANGED <<mIdx, freeList, localRuns, freeLists, nonFullRuns>>
  BY DEF runs
<1>2. \A q \in Page : label[q] = "run" => RunSame(q) /\ Mine(q)' = Mine(q)
  BY <1>1 DEF RunSame, IsLocal, Listed, Mine
<1>3. RunsInOnePlace'
  <2> SUFFICES ASSUME NEW q \in Page, label'[q] = "run" PROVE RunInOnePlace(q)'
    BY DEF RunsInOnePlace
  <2>1. RunInOnePlace(q) /\ (Swept(q)' <=> Swept(q))
    BY RunFacts DEF Swept
  <2>2. (\A w \in Workers : at[w] = Idle) => ~Swept(q)
    BY IdleIs, RunListAssumption DEF Swept
  <2> QED BY <1>2, <2>1, <2>2, RunFrame DEF RunKept
<1>4. ListsHoldRuns'
  <2> SUFFICES ASSUME NEW d \in Class
               PROVE  /\ IsList(nonFullRuns[d])'
                      /\ \A q \in nonFullRuns'[d].in : label'[q] = "run" /\ mIdx'[q] = d
                      /\ localRuns'[d] # None => label'[localRuns'[d]] = "run" /\ mIdx'[localRuns'[d]] = d
    BY DEF ListsHoldRuns
  <2>1. IsList(nonFullRuns[d])'
    BY <1>1, ListFacts
  <2>2. \A q \in nonFullRuns'[d].in : label'[q] = "run" /\ mIdx'[q] = d
    BY <1>1, ListFacts
  <2> QED BY <1>1, <2>1, <2>2, LocalFacts
<1>5. SlotsAreLocal' /\ RunsHaveClass'
  BY <1>1 DEF AllocInv, SlotsAreLocal, RunsHaveClass
<1> QED BY <1>2, <1>3, <1>4, <1>5

\* Pages are taken for a large object.
LEMMA TakeLargePagesKeeps ==
  ASSUME AllocInv, TakeLargePages
  PROVE  AllocInv'
<1>1. PICK p \in Page, n \in LargeSizes : p + n <= LastPage + 1 /\ TakePages("large", p, n)
  BY DEF TakeLargePages
<1>2. /\ taken = NoPages /\ phase # "parallel"
      /\ UNCHANGED <<label, snapshot, runs, objects, sweep>>
      /\ UNCHANGED <<allocated, marked, phase, pending, at, runLocks>>
      /\ UNCHANGED <<mIdx, freeList, localRuns, freeLists, nonFullRuns>>
  BY DEF TakeLargePages, MutatorRuns, objects, sweep, runs
<1>3. n \in 1..LastPage
  BY AllocatorAssumption
<1>4. /\ FreePagesAreOwned' /\ LargeInv' /\ freePages' \subseteq Page
      /\ taken' = [for |-> "large", page |-> p, count |-> n]
  BY <1>1, <1>2, <1>3, TakePagesKeeps
<1>5. /\ RunsInOnePlace' /\ ListsHoldRuns' /\ SlotsAreLocal' /\ RunsHaveClass'
      /\ \A q \in Page : label[q] = "run" => RunSame(q)
  BY <1>2, RunsUnchanged
<1>6. \A q \in Page, m \in LargeSizes : Stands(q, m) => Stands(q, m)'
  BY <1>2 DEF Stands
<1>7. SweepKept'
  <2>1. /\ marked' \subseteq allocated' /\ (phase = "run" => marked' = {})
        /\ \A o \in allocated' \ marked' : o \in allocated \ marked
    BY <1>2 DEF AllocInv, Phases
  <2> QED BY <1>2, <1>5, <1>6, <2>1, MutatorFrame
<1>8. ObjectsArePlaced'
  BY <1>2, <1>6, PlacedFrame DEF AllocInv
<1>9. TypeOK'
  BY <1>2, <1>4 DEF AllocInv, HeapInOrder, TypeOK
<1>10. TakenTyped'
  BY <1>1, <1>3, <1>4 DEF TakenTyped
<1> QED BY <1>4, <1>5, <1>7, <1>8, <1>9, <1>10, InvIs DEF HeapKept

\* The pages the mutator has taken are its own.
LEMMA TakenIs ==
  ASSUME AllocInv, taken # NoPages
  PROVE  /\ taken.page \in Page /\ taken.count \in 1..LastPage
         /\ taken.page + taken.count <= LastPage + 1
         /\ taken = [for |-> taken.for, page |-> taken.page, count |-> taken.count]
         /\ taken.for \in Class => taken.count = 1 /\ localRuns[taken.for] = None
         /\ taken.for \notin Class => /\ taken.for \in {"large", "large rem"}
                                      /\ taken.count \in LargeSizes
         /\ TakenPages = PagesFrom(taken.page, taken.count) /\ taken.page \in TakenPages
         /\ \A x \in TakenPages :
              /\ x \in Page /\ x \notin freePages /\ ~Given(x) /\ label[x] # "run"
              /\ taken.for # "large rem" \/ x # taken.page => label[x] = "free"
         /\ taken.for = "large rem" => taken.count > 1 /\ label[taken.page] = "large"
         /\ \A n \in LargeSizes : ~Stands(taken.page, n)
         /\ phase # "parallel"
<1>1. /\ taken.page \in Page /\ taken.count \in 1..LastPage
      /\ taken.page + taken.count <= LastPage + 1
      /\ taken = [for |-> taken.for, page |-> taken.page, count |-> taken.count]
      /\ taken.for = "large rem" => taken.count > 1 /\ label[taken.page] = "large"
      /\ phase # "parallel"
  BY DEF AllocInv, TakenTyped, Phases
<1>2. /\ taken.for \in Class => taken.count = 1 /\ localRuns[taken.for] = None
      /\ taken.for \notin Class => /\ taken.for \in {"large", "large rem"}
                                   /\ taken.count \in LargeSizes
  BY ClassIs DEF AllocInv, TakenTyped
<1>3. TakenPages = PagesFrom(taken.page, taken.count)
  BY DEF TakenPages
<1>4. taken.page \in TakenPages
  <2> PICK p \in Page, n \in 1..LastPage : p = taken.page /\ n = taken.count
    BY <1>1
  <2>1. LastPage \in Nat /\ p \in Nat
    BY PagesAre
  <2>2. p <= p /\ p < p + n
    BY <2>1
  <2> QED BY <1>3, <2>2 DEF PagesFrom
<1>5. ASSUME NEW x \in TakenPages
      PROVE  /\ x \in Page /\ x \notin freePages /\ ~Given(x) /\ label[x] # "run"
             /\ taken.for # "large rem" \/ x # taken.page => label[x] = "free"
  <2>1. x \in Page
    BY <1>3 DEF PagesFrom
  <2>2. PageIsOwned(x)
    BY <2>1 DEF AllocInv, HeapInOrder, FreePagesAreOwned
  <2>3. taken.for # "large rem" \/ x # taken.page => label[x] = "free"
    BY <2>2 DEF PageIsOwned, NotLabelled
  <2> QED BY <1>1, <2>1, <2>2, <2>3 DEF PageIsOwned
<1>6. \A n \in LargeSizes : ~Stands(taken.page, n)
  <2> SUFFICES ASSUME NEW n \in LargeSizes, Stands(taken.page, n) PROVE FALSE
    OBVIOUS
  <2> PICK p \in Page : p = taken.page
    BY <1>1
  <2>1. p \in PagesFrom(p, n)
    BY LargeIs DEF Stands
  <2> QED BY <1>4, <2>1, StandsApart
<1> QED BY <1>1, <1>2, <1>3, <1>4, <1>5, <1>6

\* The mutator labels other pages than those of the objects that stand.
LEMMA LabelFrame ==
  ASSUME AllocInv,
         \A q \in Page, m \in LargeSizes : Stands(q, m) => Stands(q, m)',
         \A q \in Page, m \in LargeSizes : Stands(q, m) =>
           \A x \in PagesFrom(q, m) : label'[x] = label[x],
         \A w \in Workers : /\ Clearing(w)' <=> Clearing(w)
                            /\ Clearing(w) => /\ at'[w] = at[w]
                                              /\ LargeAt(at[w].page) \cap marked' = {}
  PROVE  /\ LargeCleared'
         /\ \A q \in Page, m \in LargeSizes :
              Stands(q, m) /\ (\A w \in Workers : Clearing(w)' => at'[w].page # q) => Labelled(q, m, 0)'
<1>1. ASSUME NEW q \in Page, NEW m \in LargeSizes, Stands(q, m), NEW k, Labelled(q, m, k)
      PROVE  Labelled(q, m, k)'
  BY <1>1 DEF Labelled
<1>2. ASSUME NEW q \in Page, NEW m \in LargeSizes, Stands(q, m),
             \A w \in Workers : Clearing(w)' => at'[w].page # q
      PROVE  Labelled(q, m, 0)'
  <2>1. Labelled(q, m, 0)
    BY <1>2 DEF AllocInv, LargeInv, LargeLabelled, Clearing
  <2> QED BY <1>1, <1>2, <2>1
<1>3. LargeCleared'
  <2> SUFFICES ASSUME NEW w \in Workers, Clearing(w)'
               PROVE  /\ LargeAt(at[w].page) \cap marked' = {} /\ at[w].locked = None
                      /\ \E m \in LargeSizes :
                           /\ Stands(at[w].page, m)' /\ Labelled(at[w].page, m, at[w].cleared)'
                           /\ at[w].cleared <= m /\ (at[w].pc = "large region" => at[w].cleared = m)
    BY DEF LargeCleared
  <2>1. Clearing(w) /\ at[w].page \in Page
    BY DEF Clearing, AllocInv, AtTyped
  <2>2. PICK q \in Page : \E k : q = at[w].page /\ k = at[w].cleared
    BY <2>1
  <2> PICK k : k = at[w].cleared
    OBVIOUS
  <2>3. PICK m \in LargeSizes : /\ Stands(q, m) /\ Labelled(q, m, k)
                                /\ k <= m /\ (at[w].pc = "large region" => k = m)
    BY <2>1, <2>2 DEF AllocInv, LargeInv, LargeCleared
  <2>4. Stands(q, m)' /\ Labelled(q, m, k)'
    BY <1>1, <2>3
  <2>5. Stands(at[w].page, m)' /\ Labelled(at[w].page, m, at[w].cleared)'
    BY <2>2, <2>4 DEF Stands, Labelled
  <2> QED BY <2>1, <2>2, <2>3, <2>5 DEF AllocInv, LargeInv, LargeCleared
<1> QED BY <1>2, <1>3

\* The first page of a large object is labelled, and the others are not: the workers have no
\* such label in the snapshot.
LEMMA LabelLargeHeadKeeps ==
  ASSUME AllocInv, LabelLargeHead
  PROVE  AllocInv'
<1> PICK p, n : p = taken.page /\ n = taken.count
  OBVIOUS
<1>1. /\ taken.for = "large" /\ n > 1
      /\ label' = [label EXCEPT ![p] = "large"]
      /\ taken' = [taken EXCEPT !.for = "large rem"]
      /\ UNCHANGED <<snapshot, freePages, runs, objects, sweep>>
      /\ UNCHANGED <<allocated, marked, phase, pending, at, runLocks>>
      /\ UNCHANGED <<mIdx, freeList, localRuns, freeLists, nonFullRuns>>
  BY DEF LabelLargeHead, HeadLabel, objects, sweep, runs
<1>2. taken # NoPages /\ taken.for \notin Class
  <2>1. NoPages.for = "nothing"
    BY DEF NoPages
  <2>2. "large" \notin Class
    BY ClassIs
  <2> QED BY <1>1, <2>1, <2>2
<1>3. /\ p \in Page /\ n \in LargeSizes /\ n \in 1..LastPage /\ p + n <= LastPage + 1
      /\ taken = [for |-> "large", page |-> p, count |-> n]
      /\ TakenPages = PagesFrom(p, n) /\ p \in TakenPages /\ label[p] = "free"
      /\ p \notin freePages /\ ~Given(p) /\ phase # "parallel"
  BY <1>1, <1>2, TakenIs
<1>4. taken' = [for |-> "large rem", page |-> p, count |-> n]
  BY <1>1, <1>3
<1>5. taken' # NoPages
  BY <1>4 DEF NoPages
<1>6. TakenPages' = TakenPages
  BY <1>3, <1>4, <1>5 DEF TakenPages
<1>7. label' \in [Page -> Label \ {"swept"}] /\ label'[p] = "large"
      /\ \A x \in Page : x # p => label'[x] = label[x]
  BY <1>1, <1>3 DEF AllocInv, HeapInOrder, TypeOK, Label
<1>8. \A q \in Page : label'[q] = "run" <=> label[q] = "run"
  BY <1>3, <1>7
<1>9. /\ RunsInOnePlace' /\ ListsHoldRuns' /\ SlotsAreLocal' /\ RunsHaveClass'
      /\ \A q \in Page : label[q] = "run" => RunSame(q)
  BY <1>1, <1>8, RunsUnchanged
<1>10. \A q \in Page, m \in LargeSizes : Stands(q, m)' <=> Stands(q, m)
  BY <1>1, <1>8 DEF Stands
<1>11. SweepKept'
  <2>1. /\ marked' \subseteq allocated' /\ (phase = "run" => marked' = {})
        /\ \A o \in allocated' \ marked' : o \in allocated \ marked
    BY <1>1 DEF AllocInv, Phases
  <2>2. \A q \in Page : label[q] = "run" => label'[q] = "run" /\ mIdx'[q] = mIdx[q]
    BY <1>1, <1>8
  <2> QED BY <1>1, <1>3, <1>9, <1>10, <2>1, <2>2, MutatorFrame
<1>12. ObjectsArePlaced'
  BY <1>1, <1>8, <1>10, PlacedFrame DEF AllocInv
<1>13. TypeOK'
  BY <1>1, <1>7 DEF AllocInv, HeapInOrder, TypeOK
<1>14. TakenTyped'
  BY <1>1, <1>3, <1>4, <1>7 DEF TakenTyped
<1>15. FreePagesAreOwned'
  <2>1. \A x \in Page : Given(x)' <=> Given(x)
    BY <1>1 DEF Given, GivenBack
  <2>2. \A x \in Page : x # p => (NotLabelled(x)' <=> NotLabelled(x))
    BY <1>1, <1>3, <1>4, <1>6 DEF NotLabelled
  <2>3. ~NotLabelled(p)'
    BY <1>4 DEF NotLabelled
  <2>4. \A x \in Page : PageIsOwned(x) => PageIsOwned(x)'
    BY <1>1, <1>3, <1>6, <1>7, <2>1, <2>2, <2>3 DEF PageIsOwned
  <2>5. \A v, w \in Workers : v # w => GivenBack(v)' \cap GivenBack(w)' = {}
    BY <1>1 DEF GivenBack, AllocInv, HeapInOrder, FreePagesAreOwned
  <2> QED BY <2>4, <2>5 DEF AllocInv, HeapInOrder, FreePagesAreOwned
<1>16. LargeInv'
  <2>1. LargeApart' /\ LargeNotTaken'
    BY <1>6, <1>10 DEF AllocInv, LargeInv, LargeApart, LargeNotTaken
  <2>2. \A q \in Page, m \in LargeSizes : Stands(q, m) =>
          \A x \in PagesFrom(q, m) : label'[x] = label[x]
    BY <1>3, <1>7, StandsApart
  <2>3. \A w \in Workers : Clearing(w) => LargeAt(at[w].page) \cap marked' = {}
    BY <1>1 DEF AllocInv, LargeInv, LargeCleared
  <2>4. LargeCleared' /\ LargeLabelled'
    BY <1>1, <1>10, <2>2, <2>3, LabelFrame DEF LargeLabelled, Clearing
  <2>5. LabelsStand'
    <3>1. \A x \in Page : label'[x] = "large rem" => label[x] = "large rem"
      BY <1>7
    <3>2. \A x \in Page : label'[x] = "large" => x = p \/ label[x] = "large"
      BY <1>7
    <3>3. taken.for # "large rem" /\ taken'.for = "large rem" /\ taken'.page = p
      BY <1>1, <1>4
    <3> QED BY <1>10, <3>1, <3>2, <3>3 DEF AllocInv, LargeInv, LabelsStand
  <2> QED BY <2>1, <2>4, <2>5 DEF LargeInv
<1> QED BY <1>9, <1>11, <1>12, <1>13, <1>14, <1>15, <1>16, InvIs DEF HeapKept

\* The pages that have been taken hold no object, so the new one is not among the old.
LEMMA NewLargeIs ==
  ASSUME AllocInv, NewLargeObject
  PROVE  /\ taken # NoPages /\ taken.for \notin Class
         /\ Large(taken.page, taken.count) \in Object
         /\ Large(taken.page, taken.count) \notin allocated
         /\ \A q \in Page : label[q] = "run" =>
              Large(taken.page, taken.count) \notin Slots(mIdx[q], q)
<1>1. taken.for \in {"large", "large rem"}
  BY DEF NewLargeObject
<1>2. taken # NoPages /\ taken.for \notin Class
  <2>1. NoPages.for = "nothing"
    BY DEF NoPages
  <2>2. "large" \notin Class /\ "large rem" \notin Class
    BY ClassIs
  <2> QED BY <1>1, <2>1, <2>2
<1> PICK p \in Page, n \in LargeSizes : p = taken.page /\ n = taken.count
  BY <1>2, TakenIs
<1>3. p + n <= LastPage + 1 /\ p \in TakenPages /\ label[p] # "run"
  BY <1>2, TakenIs
<1>4. Large(p, n) \in Object
  BY <1>3, LargeIs, ObjectsAre
<1>5. \A q \in Page : label[q] = "run" => Large(p, n) \notin Slots(mIdx[q], q)
  BY <1>3, RunFacts, SlotsDiffer
<1>6. ASSUME Large(p, n) \in allocated PROVE FALSE
  <2>1. Placed(Large(p, n))
    BY <1>6 DEF AllocInv, ObjectsArePlaced
  <2>2. PICK q \in Page, m \in LargeSizes : Stands(q, m) /\ Large(p, n) = Large(q, m)
    BY <1>5, <2>1 DEF Placed
  <2>3. q = p
    BY <1>3, <2>2, LargeDiffer DEF Stands
  <2> QED BY <1>2, <2>2, <2>3, TakenIs
<1> QED BY <1>2, <1>4, <1>5, <1>6

\* A large object stands on the pages taken for it, and on no others.
LEMMA NewLargeObjectKeeps ==
  ASSUME AllocInv, NewLargeObject
  PROVE  AllocInv'
<1>1. /\ taken # NoPages /\ taken.for \notin Class
      /\ Large(taken.page, taken.count) \in Object
      /\ Large(taken.page, taken.count) \notin allocated
      /\ \A q \in Page : label[q] = "run" =>
           Large(taken.page, taken.count) \notin Slots(mIdx[q], q)
  BY NewLargeIs
<1> PICK p \in Page, n \in LargeSizes : p = taken.page /\ n = taken.count
  BY <1>1, TakenIs
<1> PICK o \in Object : o = Large(p, n)
  BY <1>1
<1>2. /\ taken.for = IF n > 1 THEN "large rem" ELSE "large"
      /\ label' = [q \in Page |-> IF q = p THEN "large"
                                  ELSE IF q \in PagesFrom(p, n) THEN "large rem" ELSE label[q]]
      /\ NewObject(o) /\ taken' = NoPages
      /\ UNCHANGED <<snapshot, freePages, runs, sweep>>
      /\ UNCHANGED <<phase, pending, at, runLocks>>
      /\ UNCHANGED <<mIdx, freeList, localRuns, freeLists, nonFullRuns>>
  BY DEF NewLargeObject, sweep, runs
<1>3. /\ p + n <= LastPage + 1 /\ TakenPages = PagesFrom(p, n) /\ p \in TakenPages
      /\ \A x \in TakenPages : x \in Page /\ x \notin freePages /\ ~Given(x) /\ label[x] # "run"
      /\ \A m \in LargeSizes : ~Stands(p, m)
      /\ phase # "parallel"
  BY <1>1, TakenIs
<1>4. /\ allocated' = allocated \cup {o} /\ allocated' \subseteq Object
      /\ marked' \subseteq allocated' /\ marked' \subseteq Object
      /\ phase = "run" => marked' = {}
      /\ phase # "run" => \A r \in allocated' \ marked' : r \in allocated \ marked
      /\ \A q \in Page : LargeAt(q) \cap marked = {} /\ o \notin LargeAt(q) =>
           LargeAt(q) \cap marked' = {}
  BY <1>2, NewObjectIs
<1>5. TakenPages' = {}
  BY <1>2 DEF TakenPages
<1>6. /\ label' \in [Page -> Label \ {"swept"}] /\ label'[p] = "large"
      /\ \A x \in PagesFrom(p, n) : x # p => label'[x] = "large rem"
      /\ \A x \in Page : x \notin PagesFrom(p, n) => label'[x] = label[x]
  BY <1>2, <1>3 DEF AllocInv, HeapInOrder, TypeOK, Label
<1>7. \A q \in Page : label'[q] = "run" <=> label[q] = "run"
  <2> TAKE q \in Page
  <2>1. CASE q \in PagesFrom(p, n)
    BY <1>3, <1>6, <2>1
  <2>2. CASE q \notin PagesFrom(p, n)
    BY <1>6, <2>2
  <2> QED BY <2>1, <2>2
<1>8. /\ RunsInOnePlace' /\ ListsHoldRuns' /\ SlotsAreLocal' /\ RunsHaveClass'
      /\ \A q \in Page : label[q] = "run" => RunSame(q)
  <2>1. \A q \in Page : label[q] = "run" =>
          \A r \in Slots(mIdx[q], q) : r \in allocated' <=> r \in allocated
    BY <1>1, <1>4
  <2> QED BY <1>2, <1>7, <2>1, RunsUnchanged
<1>9. \A q \in Page, m \in LargeSizes : Stands(q, m) => Stands(q, m)'
  BY <1>4, <1>7 DEF Stands
<1>10. Stands(p, n)'
  BY <1>3, <1>4, <1>6 DEF Stands
<1>11. ASSUME NEW q \in Page, NEW m \in LargeSizes, Stands(q, m)'
       PROVE  Stands(q, m) \/ (q = p /\ m = n)
  <2>1. q + m <= LastPage + 1 /\ label[q] # "run" /\ (Large(q, m) \in allocated \/ Large(q, m) = o)
    BY <1>4, <1>7, <1>11 DEF Stands
  <2>2. CASE Large(q, m) = o
    BY <1>3, <2>1, <2>2, LargeDiffer
  <2>3. CASE Large(q, m) \in allocated
    BY <2>1, <2>3 DEF Stands
  <2> QED BY <2>1, <2>2, <2>3
<1>12. SweepKept'
  <2>2. \A q \in Page : label[q] = "run" => label'[q] = "run" /\ mIdx'[q] = mIdx[q]
    BY <1>2, <1>7
  <2> QED BY <1>2, <1>3, <1>4, <1>8, <1>9, <2>2, MutatorFrame
<1>13. ObjectsArePlaced'
  <2>1. \A r \in allocated' : r \in allocated \/ Placed(r)'
    BY <1>4, <1>10 DEF Placed
  <2> QED BY <1>2, <1>7, <1>9, <2>1, PlacedFrame DEF AllocInv
<1>14. TypeOK' /\ TakenTyped'
  BY <1>2, <1>4, <1>6 DEF AllocInv, HeapInOrder, TypeOK, TakenTyped
<1>15. FreePagesAreOwned'
  <2>1. \A x \in Page : Given(x)' <=> Given(x)
    BY <1>2 DEF Given, GivenBack
  <2>2. \A x \in Page : ~NotLabelled(x)'
    BY <1>5 DEF NotLabelled
  <2> SUFFICES ASSUME NEW x \in Page PROVE PageIsOwned(x)'
    BY <1>2 DEF GivenBack, AllocInv, HeapInOrder, FreePagesAreOwned
  <2>3. PageIsOwned(x)
    BY DEF AllocInv, HeapInOrder, FreePagesAreOwned
  <2>4. CASE x \in PagesFrom(p, n)
    <3>1. label'[x] # "free"
      BY <1>6, <2>4
    <3> QED BY <1>2, <1>3, <1>5, <2>1, <2>2, <2>4, <3>1 DEF PageIsOwned
  <2>5. CASE x \notin PagesFrom(p, n)
    <3>1. label'[x] = label[x] /\ ~NotLabelled(x)
      BY <1>3, <1>6, <2>5 DEF NotLabelled
    <3> QED BY <1>2, <1>5, <2>1, <2>2, <2>3, <3>1 DEF PageIsOwned
  <2> QED BY <2>4, <2>5
<1>16. LargeInv'
  <2>1. \A q \in Page, m \in LargeSizes : Stands(q, m) =>
          PagesFrom(p, n) \cap PagesFrom(q, m) = {} /\ q # p
    BY <1>3 DEF AllocInv, LargeInv, LargeNotTaken
  <2>2. LargeApart'
    BY <1>11, <2>1 DEF AllocInv, LargeInv, LargeApart
  <2>3. LargeNotTaken'
    BY <1>5 DEF LargeNotTaken
  <2>4. \A q \in Page, m \in LargeSizes : Stands(q, m) =>
          \A x \in PagesFrom(q, m) : label'[x] = label[x]
    BY <1>6, <2>1 DEF PagesFrom
  <2>5. \A w \in Workers : Clearing(w) => LargeAt(at[w].page) \cap marked' = {}
    <3> SUFFICES ASSUME NEW w \in Workers, Clearing(w), NEW q \in Page, q = at[w].page
                 PROVE  LargeAt(q) \cap marked' = {}
      BY DEF AllocInv, AtTyped, Clearing
    <3>1. LargeAt(q) \cap marked = {} /\ \E m \in LargeSizes : Stands(q, m)
      BY DEF AllocInv, LargeInv, LargeCleared
    <3>2. q # p
      BY <2>1, <3>1
    <3>3. o \notin LargeAt(q)
      BY <1>3, <3>2, LargeIsAt, LargeDiffer
    <3> QED BY <1>4, <3>1, <3>3
  <2>6. /\ LargeCleared'
        /\ \A q \in Page, m \in LargeSizes :
             Stands(q, m) /\ (\A w \in Workers : Clearing(w)' => at'[w].page # q) => Labelled(q, m, 0)'
    BY <1>2, <1>9, <2>4, <2>5, LabelFrame DEF Clearing
  <2>7. Labelled(p, n, 0)'
    <3>1. \A x \in PagesFrom(p, n) : ~(x < p + 0)
      BY PagesAre DEF PagesFrom
    <3> QED BY <1>6, <3>1 DEF Labelled
  <2>8. LargeLabelled'
    BY <1>11, <2>6, <2>7 DEF LargeLabelled
  <2>9. LabelsStand'
    <3>1. ASSUME NEW x \in Page, label'[x] = "large rem"
          PROVE  \E q \in Page, m \in LargeSizes : Stands(q, m)' /\ x \in PagesFrom(q, m) /\ x # q
      <4>1. CASE x \in PagesFrom(p, n)
        BY <1>6, <1>10, <3>1, <4>1
      <4>2. CASE x \notin PagesFrom(p, n)
        BY <1>6, <1>9, <3>1, <4>2 DEF AllocInv, LargeInv, LabelsStand
      <4> QED BY <4>1, <4>2
    <3>2. ASSUME NEW x \in Page, label'[x] = "large"
          PROVE  \E m \in LargeSizes : Stands(x, m)'
      <4>1. CASE x = p
        BY <1>10, <4>1
      <4>2. CASE x # p
        <5>1. x \notin PagesFrom(p, n) /\ label[x] = "large"
          BY <1>6, <3>2, <4>2
        <5> QED BY <1>9, <4>2, <5>1 DEF AllocInv, LargeInv, LabelsStand
      <4> QED BY <4>1, <4>2
    <3> QED BY <3>1, <3>2 DEF LabelsStand
  <2> QED BY <2>2, <2>3, <2>6, <2>8, <2>9 DEF LargeInv
<1> QED BY <1>8, <1>12, <1>13, <1>14, <1>15, <1>16, InvIs DEF HeapKept

\* The page taken for a run becomes a run, and it is local.
LEMMA NewRunLocalises ==
  ASSUME AllocInv, NEW c \in Class, NewRun(c)
  PROVE  /\ taken # NoPages /\ taken.page \in Page /\ TakenPages = {taken.page}
         /\ label' \in [Page -> Label \ {"swept"}] /\ mIdx' \in [Page -> Class \cup {None}]
         /\ Localises(c, taken.page, Slots(c, taken.page))
<1>1. /\ taken.for = c /\ label' = [label EXCEPT ![taken.page] = "run"]
      /\ mIdx' = [mIdx EXCEPT ![taken.page] = c]
      /\ LocaliseAndAlloc(c, taken.page, Slots(c, taken.page))
      /\ UNCHANGED <<nonFullRuns, at, phase>>
  BY DEF NewRun, sweep
<1>2. taken # NoPages
  <2>1. NoPages.for = "nothing"
    BY DEF NoPages
  <2> QED BY <1>1, <2>1, ClassIs
<1> PICK p \in Page : p = taken.page
  BY <1>2, TakenIs
<1>3. /\ taken.count = 1 /\ localRuns[c] = None /\ TakenPages = PagesFrom(p, 1) /\ p \in TakenPages
      /\ \A m \in LargeSizes : ~Stands(p, m)
      /\ p \notin freePages /\ ~Given(p) /\ label[p] # "run"
  BY <1>1, <1>2, TakenIs
<1>4. TakenPages = {p}
  <2>1. \A x \in Page : x \in Nat
    BY PagesAre
  <2>2. \A x \in PagesFrom(p, 1) : x = p
    BY <2>1 DEF PagesFrom
  <2> QED BY <1>3, <2>2
<1>5. /\ label' \in [Page -> Label \ {"swept"}] /\ mIdx' \in [Page -> Class \cup {None}]
      /\ label'[p] = "run" /\ mIdx'[p] = c
      /\ \A q \in Page \ {p} : label'[q] = label[q] /\ mIdx'[q] = mIdx[q]
  BY <1>1 DEF AllocInv, HeapInOrder, TypeOK, Label
<1>6. freeLists[c] = {}
  BY <1>3 DEF AllocInv, SlotsAreLocal
<1>7. \A d \in Class : localRuns[d] # p /\ p \notin nonFullRuns[d].in
  <2>1. p # None
    BY RunListAssumption
  <2> QED BY <1>3, <2>1, LocalFacts, ListFacts
<1>8. Slots(c, p) \cap allocated = {}
  <2> SUFFICES ASSUME NEW o \in Slots(c, p), o \in allocated PROVE FALSE
    OBVIOUS
  <2>1. PICK q \in Page : \/ label[q] = "run" /\ o \in Slots(mIdx[q], q)
                          \/ \E m \in LargeSizes : Stands(q, m) /\ o = Large(q, m)
    BY DEF AllocInv, ObjectsArePlaced, Placed
  <2>2. q # p
    BY <1>3, <2>1
  <2>3. CASE label[q] = "run" /\ o \in Slots(mIdx[q], q)
    BY <2>2, <2>3, SlotsDiffer, RunFacts
  <2>4. CASE \E m \in LargeSizes : Stands(q, m) /\ o = Large(q, m)
    BY <2>2, <2>4, SlotsDiffer DEF Stands
  <2> QED BY <2>1, <2>3, <2>4
<1>9. ~Swept(p)
  <2> SUFFICES ASSUME NEW w \in Workers, at[w].page = p, at[w].pc # "unlock" PROVE FALSE
    BY DEF Swept
  <2>1. at[w].pc \in PC /\ at[w].pc # "idle"
    BY IdleIs, RunListAssumption DEF AllocInv, AtTyped, Place
  <2>2. CASE at[w].pc \in {"lock", "sweep", "update", "free"}
    BY <1>3, <2>2 DEF AllocInv, WorkersAtRuns, AtRun
  <2>3. CASE at[w].pc = "region"
    <3>1. p \in GivenBack(w)
      BY <2>3 DEF GivenBack
    <3> QED BY <1>3, <3>1 DEF Given
  <2>4. CASE Clearing(w)
    BY <1>3, <2>4 DEF AllocInv, LargeInv, LargeCleared
  <2> QED BY <2>1, <2>2, <2>3, <2>4 DEF PC, Clearing
<1>10. Localises(c, p, Slots(c, p))
  BY <1>1, <1>3, <1>5, <1>6, <1>7, <1>8, <1>9 DEF Localises
<1> QED BY <1>2, <1>4, <1>5, <1>10

\* A new run is local, and each of its slots is free or the new object.
LEMMA NewRunKeeps ==
  ASSUME AllocInv, NEW c \in Class, NewRun(c)
  PROVE  AllocInv'
<1>1. /\ taken # NoPages /\ taken.page \in Page /\ TakenPages = {taken.page}
      /\ label' \in [Page -> Label \ {"swept"}] /\ mIdx' \in [Page -> Class \cup {None}]
      /\ Localises(c, taken.page, Slots(c, taken.page))
  BY NewRunLocalises
<1> PICK p \in Page : p = taken.page
  BY <1>1
<1>2. Localises(c, p, Slots(c, p))
  BY <1>1
<1>3. /\ taken' = NoPages /\ taken.for = c
      /\ UNCHANGED <<snapshot, freePages, nonFullRuns, sweep>>
      /\ UNCHANGED <<phase, pending, at, runLocks>>
  BY DEF NewRun, sweep
<1>4. /\ \A m \in LargeSizes : ~Stands(p, m)
      /\ p \notin freePages /\ ~Given(p) /\ label[p] # "run" /\ phase # "parallel"
  BY <1>1, TakenIs
<1>5. PICK o \in Slots(c, p) : NewObject(o)
  BY <1>2, LocaliseTyped
<1>6. o \in Object
  BY ObjectsAre
<1>7. /\ allocated' = allocated \cup {o} /\ allocated' \subseteq Object
      /\ marked' \subseteq allocated' /\ marked' \subseteq Object
      /\ phase = "run" => marked' = {}
      /\ phase # "run" => \A r \in allocated' \ marked' : r \in allocated \ marked
      /\ \A q \in Page : LargeAt(q) \cap marked = {} /\ o \notin LargeAt(q) =>
           LargeAt(q) \cap marked' = {}
  BY <1>5, <1>6, NewObjectIs
<1>8. /\ freeList' \in [Page -> SUBSET Object] /\ freeLists' \in [Class -> SUBSET Object]
      /\ localRuns' \in [Class -> Page \cup {None}] /\ SlotsAreLocal' /\ localRuns'[c] = p
      /\ \A d \in Class : d # c => localRuns'[d] = localRuns[d]
  BY <1>2, LocaliseTyped
<1>9. /\ label'[p] = "run" /\ mIdx'[p] = c
      /\ \A q \in Page : q # p => label'[q] = label[q] /\ mIdx'[q] = mIdx[q]
  BY <1>2 DEF Localises
<1>10. \A q \in Page : label[q] = "run" => label'[q] = "run" /\ mIdx'[q] = mIdx[q]
  BY <1>4, <1>9
<1>11. \A q \in Page, m \in LargeSizes : Stands(q, m)' <=> Stands(q, m)
  <2>1. ASSUME NEW q \in Page, NEW m \in LargeSizes, Stands(q, m) PROVE Stands(q, m)'
    BY <1>4, <1>7, <1>9, <2>1 DEF Stands
  <2>2. ASSUME NEW q \in Page, NEW m \in LargeSizes, Stands(q, m)' PROVE Stands(q, m)
    <3>1. q # p
      BY <1>9, <2>2 DEF Stands
    <3>2. Large(q, m) # o
      BY <2>2, <3>1, SlotsDiffer DEF Stands
    <3> QED BY <1>7, <1>9, <2>2, <3>1, <3>2 DEF Stands
  <2> QED BY <2>1, <2>2
<1>12. SweepKept'
  <2>1. ASSUME NEW q \in Page, label[q] = "run", ~IsLocal(q) PROVE RunSame(q)
    BY <1>2, <1>4, <2>1, LocaliseSame
  <2> QED BY <1>3, <1>4, <1>7, <1>10, <1>11, <2>1, MutatorFrame
<1>13. TypeOK' /\ TakenTyped'
  BY <1>1, <1>3, <1>7, <1>8 DEF AllocInv, HeapInOrder, TypeOK, TakenTyped
<1>14. RunsInOnePlace'
  BY <1>2, LocaliseRuns
<1>15. ListsHoldRuns'
  <2> SUFFICES ASSUME NEW d \in Class
               PROVE  /\ IsList(nonFullRuns[d])'
                      /\ \A q \in nonFullRuns'[d].in : label'[q] = "run" /\ mIdx'[q] = d
                      /\ localRuns'[d] # None => label'[localRuns'[d]] = "run" /\ mIdx'[localRuns'[d]] = d
    BY DEF ListsHoldRuns
  <2>1. IsList(nonFullRuns[d])'
    BY <1>3, ListFacts
  <2>2. \A q \in nonFullRuns'[d].in : label'[q] = "run" /\ mIdx'[q] = d
    BY <1>3, <1>10, ListFacts
  <2>3. localRuns'[d] # None => label'[localRuns'[d]] = "run" /\ mIdx'[localRuns'[d]] = d
    <3>1. CASE d = c
      BY <1>8, <1>9, <3>1
    <3>2. CASE d # c
      BY <1>8, <1>10, <3>2, LocalFacts
    <3> QED BY <3>1, <3>2
  <2> QED BY <2>1, <2>2, <2>3
<1>16. RunsHaveClass'
  BY <1>9 DEF AllocInv, RunsHaveClass
<1>17. ObjectsArePlaced'
  <2>1. \A r \in allocated' : r \in allocated \/ Placed(r)'
    BY <1>7, <1>9 DEF Placed
  <2> QED BY <1>10, <1>11, <2>1, PlacedFrame DEF AllocInv
<1>18. TakenPages' = {}
  BY <1>3 DEF TakenPages
<1>19. FreePagesAreOwned'
  <2>1. \A x \in Page : Given(x)' <=> Given(x)
    BY <1>3 DEF Given, GivenBack
  <2>2. \A x \in Page : ~NotLabelled(x)'
    BY <1>18 DEF NotLabelled
  <2> SUFFICES ASSUME NEW x \in Page PROVE PageIsOwned(x)'
    BY <1>3 DEF GivenBack, AllocInv, HeapInOrder, FreePagesAreOwned
  <2>3. PageIsOwned(x)
    BY DEF AllocInv, HeapInOrder, FreePagesAreOwned
  <2>4. CASE x = p
    BY <1>3, <1>4, <1>9, <1>18, <2>1, <2>2, <2>4 DEF PageIsOwned
  <2>5. CASE x # p
    <3>1. label'[x] = label[x] /\ ~NotLabelled(x)
      BY <1>1, <1>9, <2>5 DEF NotLabelled
    <3> QED BY <1>3, <1>18, <2>1, <2>2, <2>3, <3>1 DEF PageIsOwned
  <2> QED BY <2>4, <2>5
<1>20. LargeInv'
  <2>1. LargeApart' /\ LargeNotTaken'
    BY <1>11, <1>18 DEF AllocInv, LargeInv, LargeApart, LargeNotTaken
  <2>2. \A q \in Page, m \in LargeSizes : Stands(q, m) =>
          \A x \in PagesFrom(q, m) : label'[x] = label[x]
    BY <1>1, <1>9, StandsApart
  <2>3. \A w \in Workers : Clearing(w) => LargeAt(at[w].page) \cap marked' = {}
    <3> SUFFICES ASSUME NEW w \in Workers, Clearing(w), NEW q \in Page, q = at[w].page
                 PROVE  LargeAt(q) \cap marked' = {}
      BY DEF AllocInv, AtTyped, Clearing
    <3>1. LargeAt(q) \cap marked = {} /\ \E m \in LargeSizes : Stands(q, m)
      BY DEF AllocInv, LargeInv, LargeCleared
    <3>2. q # p
      BY <1>4, <3>1
    <3>3. o \notin LargeAt(q)
      BY <3>2, SlotsDiffer
    <3> QED BY <1>7, <3>1, <3>3
  <2>4. LargeCleared' /\ LargeLabelled'
    BY <1>3, <1>11, <2>2, <2>3, LabelFrame DEF LargeLabelled, Clearing
  <2>5. LabelsStand'
    <3>1. \A x \in Page : label'[x] \in {"large", "large rem"} => label'[x] = label[x]
      BY <1>9
    <3>2. taken.for # "large rem"
      BY <1>3, ClassIs
    <3> QED BY <1>11, <3>1, <3>2 DEF AllocInv, LargeInv, LabelsStand
  <2> QED BY <2>1, <2>4, <2>5 DEF LargeInv
<1> QED BY <1>8, <1>12, <1>13, <1>14, <1>15, <1>16, <1>17, <1>19, <1>20, InvIs DEF HeapKept

-----------------------------------------------------------------------------
(* The collector.                                                          *)

\* Between sweeps the workers are idle.
LEMMA IdleKeeps ==
  ASSUME AllocInv, \A w \in Workers : at[w] = Idle, at' = at, pending' \subseteq Page
  PROVE  /\ AtTyped' /\ WorkersApart' /\ WorkersAtRuns'
         /\ \A w \in Workers : ~Clearing(w) /\ ~Clearing(w)' /\ GivenBack(w) = {} /\ GivenBack(w)' = {}
<1>1. AtTyped'
  BY DEF AllocInv, AtTyped
<1>2. \A w \in Workers : at'[w] = Idle
  OBVIOUS
<1>3. WorkersAtRuns'
  BY <1>2, IdleIs DEF WorkersAtRuns, AtRun
<1>4. WorkersApart'
  <2>1. None \notin pending'
    BY RunListAssumption
  <2> QED BY <1>2, <2>1, IdleIs DEF WorkersApart
<1>5. \A w \in Workers : ~Clearing(w) /\ ~Clearing(w)' /\ GivenBack(w) = {} /\ GivenBack(w)' = {}
  BY IdleIs DEF Clearing, GivenBack
<1> QED BY <1>1, <1>3, <1>4, <1>5

\* Any objects in use may be those that are marked.
LEMMA MarkKeeps ==
  ASSUME AllocInv, Mark
  PROVE  AllocInv'
<1>1. /\ phase = "run" /\ taken = NoPages /\ phase' = "final" /\ marked' \subseteq allocated
      /\ UNCHANGED <<runs, label, snapshot, freePages, allocated, taken, pending, at, runLocks>>
      /\ UNCHANGED <<mIdx, freeList, localRuns, freeLists, nonFullRuns>>
  BY DEF Mark, heap, runs
<1>2. pending = {} /\ \A w \in Workers : at[w] = Idle
  BY <1>1 DEF AllocInv, Phases
<1>3. /\ AtTyped' /\ WorkersApart' /\ WorkersAtRuns'
      /\ \A w \in Workers : ~Clearing(w) /\ ~Clearing(w)' /\ GivenBack(w) = {} /\ GivenBack(w)' = {}
  BY <1>1, <1>2, IdleKeeps DEF AllocInv, HeapInOrder, TypeOK
<1>4. Phases' /\ SnapshotHolds' /\ GarbageIsAhead' /\ (phase # "concurrent" => snapshot = None)'
  BY <1>1, <1>2 DEF Phases, SnapshotHolds, GarbageIsAhead, AllocInv, HeapInOrder
<1>5. LocksAreHeld' /\ TakenTyped'
  BY <1>1 DEF AllocInv, HeapInOrder, LocksAreHeld, TakenTyped
<1>6. TypeOK'
  BY <1>1 DEF AllocInv, HeapInOrder, TypeOK
<1>7. FreePagesAreOwned'
  BY <1>1, <1>3, OwnedFrame DEF AllocInv, HeapInOrder
<1>8. RunsInOnePlace' /\ ListsHoldRuns' /\ SlotsAreLocal' /\ RunsHaveClass'
  BY <1>1, RunsUnchanged
<1>9. LargeInv'
  BY <1>1, <1>3, LargeFrame, TakenFrame DEF AllocInv
<1>10. ObjectsArePlaced'
  BY <1>1, PlacedFrame DEF AllocInv, Stands
<1> QED BY <1>3, <1>4, <1>5, <1>6, <1>7, <1>8, <1>9, <1>10, InvIs DEF HeapKept, SweepKept

\* What a worker is to find at an object in use.
LEMMA PlacedIsLabelled ==
  ASSUME AllocInv, \A w \in Workers : ~Clearing(w), NEW p \in Page, NEW n \in LargeSizes, Stands(p, n)
  PROVE  label[p] = "large"
<1>1. Labelled(p, n, 0)
  BY DEF AllocInv, LargeInv, LargeLabelled
<1>2. p \in PagesFrom(p, n) /\ ~(p < p + 0)
  BY LargeIs, PagesAre DEF Stands
<1> QED BY <1>1, <1>2 DEF Labelled

\* Every object that is not marked is ahead of a parallel sweep.
LEMMA BeginParallelSweepKeeps ==
  ASSUME AllocInv, BeginParallelSweep
  PROVE  AllocInv'
<1>1. /\ phase = "final" /\ taken = NoPages /\ phase' = "parallel" /\ pending' = Page
      /\ UNCHANGED <<runs, label, snapshot, freePages, allocated, marked, taken, at, runLocks>>
      /\ UNCHANGED <<mIdx, freeList, localRuns, freeLists, nonFullRuns>>
  BY DEF BeginParallelSweep, heap, runs, objects
<1>2. \A w \in Workers : at[w] = Idle
  BY <1>1 DEF AllocInv, Phases
<1>3. /\ AtTyped' /\ WorkersApart' /\ WorkersAtRuns'
      /\ \A w \in Workers : ~Clearing(w) /\ ~Clearing(w)' /\ GivenBack(w) = {} /\ GivenBack(w)' = {}
  BY <1>1, <1>2, IdleKeeps DEF AllocInv, HeapInOrder, TypeOK
<1>4. Phases' /\ SnapshotHolds' /\ (phase # "concurrent" => snapshot = None)'
  BY <1>1, <1>2 DEF Phases, SnapshotHolds, AllocInv, HeapInOrder
<1>5. LocksAreHeld' /\ TakenTyped'
  BY <1>1 DEF AllocInv, HeapInOrder, LocksAreHeld, TakenTyped
<1>6. TypeOK'
  BY <1>1 DEF AllocInv, HeapInOrder, TypeOK
<1>7. FreePagesAreOwned'
  BY <1>1, <1>3, OwnedFrame DEF AllocInv, HeapInOrder
<1>8. RunsInOnePlace' /\ ListsHoldRuns' /\ SlotsAreLocal' /\ RunsHaveClass'
  BY <1>1, RunsUnchanged
<1>9. LargeInv'
  BY <1>1, <1>3, LargeFrame, TakenFrame DEF AllocInv, LargeInv, LargeCleared
<1>10. ObjectsArePlaced'
  BY <1>1, PlacedFrame DEF AllocInv, Stands
<1>11. GarbageIsAhead'
  <2> SUFFICES ASSUME NEW o \in allocated
               PROVE  \E p \in Page :
                        \/ /\ label'[p] = "run" /\ (o \in Slots(mIdx[p], p))'
                           /\ Ahead(p, "run", {"lock", "sweep"})'
                        \/ /\ \E n \in LargeSizes : Stands(p, n)' /\ o = Large(p, n)
                           /\ Ahead(p, "large", {"clear large", "large region"})'
    BY <1>1 DEF GarbageIsAhead
  <2>1. PICK p \in Page : \/ label[p] = "run" /\ o \in Slots(mIdx[p], p)
                          \/ \E n \in LargeSizes : Stands(p, n) /\ o = Large(p, n)
    BY DEF AllocInv, ObjectsArePlaced, Placed
  <2>2. \A kind, pcs : label[p] = kind => Ahead(p, kind, pcs)'
    BY <1>1 DEF Ahead, LabelToSweep
  <2>3. CASE label[p] = "run" /\ o \in Slots(mIdx[p], p)
    BY <1>1, <2>2, <2>3
  <2>4. CASE \E n \in LargeSizes : Stands(p, n) /\ o = Large(p, n)
    <3>1. PICK n \in LargeSizes : Stands(p, n) /\ o = Large(p, n)
      BY <2>4
    <3>2. label[p] = "large" /\ Stands(p, n)'
      BY <1>1, <1>3, <3>1, PlacedIsLabelled DEF Stands
    <3> QED BY <2>2, <3>1, <3>2
  <2> QED BY <2>1, <2>3, <2>4
<1> QED BY <1>3, <1>4, <1>5, <1>6, <1>7, <1>8, <1>9, <1>10, <1>11, InvIs DEF HeapKept, SweepKept

\* A concurrent sweep ends with every worker idle.
LEMMA EndConcurrentSweepKeeps ==
  ASSUME AllocInv, EndConcurrentSweep
  PROVE  AllocInv'
<1>1. /\ taken = NoPages /\ phase' = "run" /\ snapshot' = None /\ marked' = {}
      /\ pending = {} /\ \A w \in Workers : at[w] = Idle
      /\ UNCHANGED <<runs, label, freePages, allocated, taken, pending, at, runLocks>>
      /\ UNCHANGED <<mIdx, freeList, localRuns, freeLists, nonFullRuns>>
  BY DEF EndConcurrentSweep, SweepIsDone, runs
<1>2. /\ AtTyped' /\ WorkersApart' /\ WorkersAtRuns'
      /\ \A w \in Workers : ~Clearing(w) /\ ~Clearing(w)' /\ GivenBack(w) = {} /\ GivenBack(w)' = {}
  BY <1>1, IdleKeeps DEF AllocInv, HeapInOrder, TypeOK
<1>3. Phases' /\ SnapshotHolds' /\ GarbageIsAhead' /\ (phase # "concurrent" => snapshot = None)'
  BY <1>1 DEF Phases, SnapshotHolds, GarbageIsAhead
<1>4. LocksAreHeld' /\ TakenTyped'
  BY <1>1 DEF AllocInv, HeapInOrder, LocksAreHeld, TakenTyped
<1>5. TypeOK'
  BY <1>1 DEF AllocInv, HeapInOrder, TypeOK
<1>6. FreePagesAreOwned'
  BY <1>1, <1>2, OwnedFrame DEF AllocInv, HeapInOrder
<1>7. RunsInOnePlace' /\ ListsHoldRuns' /\ SlotsAreLocal' /\ RunsHaveClass'
  BY <1>1, RunsUnchanged
<1>8. LargeInv'
  BY <1>1, <1>2, LargeFrame, TakenFrame DEF AllocInv
<1>9. ObjectsArePlaced'
  BY <1>1, PlacedFrame DEF AllocInv, Stands
<1> QED BY <1>2, <1>3, <1>4, <1>5, <1>6, <1>7, <1>8, <1>9, InvIs DEF HeapKept, SweepKept

\* The sweep of a run, wherever it is done.
LEMMA GarbageIs ==
  ASSUME AllocInv, NEW p \in Page, label[p] = "run"
  PROVE  /\ Garbage(p) = {o \in Slots(mIdx[p], p) : o \in allocated /\ o \notin marked}
         /\ Garbage(p) \subseteq Object
         /\ \A q \in Page : label[q] = "run" /\ q # p => Garbage(p) \cap Slots(mIdx[q], q) = {}
         /\ \A q \in Page, n \in LargeSizes :
              q + n <= LastPage + 1 /\ label[q] # "run" => Large(q, n) \notin Garbage(p)
<1>1. Garbage(p) = {o \in Slots(mIdx[p], p) : o \in allocated /\ o \notin marked}
  BY DEF Garbage
<1>2. mIdx[p] \in Class
  BY RunFacts
<1>3. Garbage(p) \subseteq Object
  BY <1>1, <1>2, ObjectsAre
<1>4. \A q \in Page : label[q] = "run" /\ q # p => Garbage(p) \cap Slots(mIdx[q], q) = {}
  BY <1>1, <1>2, RunFacts, SlotsDiffer
<1>5. \A q \in Page, n \in LargeSizes :
        q + n <= LastPage + 1 /\ label[q] # "run" => Large(q, n) \notin Garbage(p)
  BY <1>1, <1>2, SlotsDiffer
<1> QED BY <1>1, <1>3, <1>4, <1>5

\* A run that is swept: its garbage is free.
LEMMA SweptRunKeeps ==
  ASSUME AllocInv, NEW p \in Page, label[p] = "run",
         IsLocal(p) \/ Listed(p) \/ Swept(p)',
         label'[p] = label[p], mIdx'[p] = mIdx[p], freeList'[p] = freeList[p] \cup Garbage(p),
         \A o \in Slots(mIdx[p], p) : o \in allocated' <=> o \in allocated /\ o \notin Garbage(p),
         UNCHANGED <<localRuns, freeLists, nonFullRuns>>,
         Swept(p)' /\ phase' = "concurrent" => ~IsLocal(p)
  PROVE  RunInOnePlace(p)'
<1> PICK all, c : all = Slots(mIdx[p], p) /\ c = mIdx[p]
  OBVIOUS
<1>1. RunInOnePlace(p)
  BY RunFacts
<1>2. /\ IsLocal(p)' <=> IsLocal(p)
      /\ Listed(p)' <=> Listed(p)
      /\ Mine(p)' = Mine(p) /\ Slots(mIdx[p], p)' = all
  BY DEF IsLocal, Listed, Mine
<1>3. Listed(p)' => ~IsLocal(p)' /\ ~IsFull(p)'
  BY <1>1, <1>2 DEF RunInOnePlace, IsFull
<1>4. ~IsLocal(p)' /\ ~Listed(p)' => Swept(p)'
  BY <1>2
<1>5. /\ all = freeList[p] \cup Mine(p) \cup (allocated \cap all)
      /\ freeList[p] \cap Mine(p) = {} /\ (freeList[p] \cup Mine(p)) \cap allocated = {}
  BY <1>1 DEF RunInOnePlace
<1>6. Garbage(p) \subseteq allocated \cap all
  BY GarbageIs
<1>7. allocated' \cap all = (allocated \cap all) \ Garbage(p)
  OBVIOUS
<1>8. (freeList'[p] \cup Mine(p)) \subseteq all
  BY <1>5, <1>6
<1>9. /\ all = freeList'[p] \cup Mine(p) \cup (allocated' \cap all)
      /\ freeList'[p] \cap Mine(p) = {} /\ (freeList'[p] \cup Mine(p)) \cap (allocated' \cap all) = {}
  BY <1>5, <1>6, <1>7
<1>10. (freeList'[p] \cup Mine(p)) \cap allocated' = {}
  BY <1>8, <1>9
<1> QED BY <1>2, <1>3, <1>4, <1>9, <1>10 DEF RunInOnePlace

\* The local runs are swept, and every other object that is not marked is ahead of the
\* workers.
LEMMA BeginConcurrentSweepKeeps ==
  ASSUME AllocInv, BeginConcurrentSweep
  PROVE  AllocInv'
<1>1. /\ phase = "final" /\ taken = NoPages /\ phase' = "concurrent" /\ pending' = Page
      /\ snapshot' = [p \in Page |-> IF IsLocal(p) THEN "swept" ELSE label[p]]
      /\ freeList' = [p \in Page |-> IF IsLocal(p) THEN freeList[p] \cup Garbage(p) ELSE freeList[p]]
      /\ allocated' = allocated \ UNION {Garbage(p) : p \in {q \in Page : IsLocal(q)}}
      /\ UNCHANGED <<label, freePages, mIdx, localRuns, freeLists, nonFullRuns, marked, taken, at,
                     runLocks>>
  BY DEF BeginConcurrentSweep
<1>2. \A w \in Workers : at[w] = Idle
  BY <1>1 DEF AllocInv, Phases
<1>3. /\ AtTyped' /\ WorkersApart' /\ WorkersAtRuns'
      /\ \A w \in Workers : ~Clearing(w) /\ ~Clearing(w)' /\ GivenBack(w) = {} /\ GivenBack(w)' = {}
  BY <1>1, <1>2, IdleKeeps
<1>4. \A p \in Page : IsLocal(p) => label[p] = "run"
  BY LocalFacts, RunListAssumption DEF IsLocal
<1>5. \A p \in Page : IsLocal(p) => Garbage(p) \subseteq Object
  BY <1>4, GarbageIs
<1>6. \A o : o \in allocated' <=> o \in allocated /\ \A p \in Page : IsLocal(p) => o \notin Garbage(p)
  BY <1>1
<1>7. \A o \in allocated : o \in marked => o \in allocated'
  BY <1>6 DEF Garbage
<1>8. \A p \in Page, n \in LargeSizes : p + n <= LastPage + 1 /\ label[p] # "run" =>
        (Large(p, n) \in allocated' <=> Large(p, n) \in allocated)
  BY <1>4, <1>6, GarbageIs
<1>9. \A p \in Page, n \in LargeSizes : Stands(p, n)' <=> Stands(p, n)
  BY <1>1, <1>8 DEF Stands
<1>10. Phases' /\ (phase # "concurrent" => snapshot = None)'
  <2>1. snapshot' \in [Page -> Label]
    BY <1>1 DEF AllocInv, HeapInOrder, TypeOK, Label
  <2>2. marked' \subseteq allocated'
    BY <1>1, <1>7 DEF AllocInv, Phases
  <2> QED BY <1>1, <2>1, <2>2 DEF Phases
<1>11. SnapshotHolds'
  <2> SUFFICES ASSUME NEW p \in Page
               PROVE  /\ snapshot'[p] = "run" => label'[p] = "run" /\ ~IsLocal(p)'
                      /\ snapshot'[p] = "large" => \E n \in LargeSizes : Stands(p, n)'
    BY <1>1 DEF SnapshotHolds
  <2>1. snapshot'[p] = IF IsLocal(p) THEN "swept" ELSE label[p]
    BY <1>1
  <2>2. IsLocal(p)' <=> IsLocal(p)
    BY <1>1 DEF IsLocal
  <2>3. label[p] = "large" => \E n \in LargeSizes : Stands(p, n)
    BY <1>1 DEF AllocInv, LargeInv, LabelsStand, NoPages
  <2> QED BY <1>1, <1>9, <2>1, <2>2, <2>3
<1>12. LocksAreHeld' /\ TakenTyped' /\ RunsHaveClass' /\ SlotsAreLocal'
  BY <1>1 DEF AllocInv, HeapInOrder, LocksAreHeld, TakenTyped, RunsHaveClass, SlotsAreLocal
<1>13. TypeOK'
  <2>1. freeList' \in [Page -> SUBSET Object]
    BY <1>1, <1>5 DEF AllocInv, HeapInOrder, TypeOK
  <2>2. snapshot' \in [Page -> Label]
    BY <1>1 DEF AllocInv, HeapInOrder, TypeOK, Label
  <2> QED BY <1>1, <1>6, <2>1, <2>2 DEF AllocInv, HeapInOrder, TypeOK
<1>14. FreePagesAreOwned'
  BY <1>1, <1>3, OwnedFrame DEF AllocInv, HeapInOrder
<1>15. RunsInOnePlace'
  <2> SUFFICES ASSUME NEW p \in Page, label[p] = "run" PROVE RunInOnePlace(p)'
    BY <1>1 DEF RunsInOnePlace
  <2>1. ~Swept(p) /\ ~Swept(p)'
    BY <1>1, <1>2, IdleIs, RunListAssumption DEF Swept
  <2>2. RunInOnePlace(p) /\ mIdx[p] \in Class
    BY RunFacts
  <2>3. CASE IsLocal(p)
    <3>1. \A o \in Slots(mIdx[p], p) : o \in allocated' <=> o \in allocated /\ o \notin Garbage(p)
      BY <1>4, <1>6, <2>3, GarbageIs
    <3> QED BY <1>1, <2>1, <2>3, <3>1, SweptRunKeeps
  <2>4. CASE ~IsLocal(p)
    <3>1. \A o \in Slots(mIdx[p], p) : o \in allocated' <=> o \in allocated
      BY <1>4, <1>6, <2>4, GarbageIs
    <3>2. RunSame(p) /\ Mine(p)' = Mine(p)
      BY <1>1, <2>4 DEF RunSame, IsLocal, Listed, Mine
    <3> QED BY <2>1, <2>2, <3>1, <3>2, RunFrame DEF RunKept
  <2> QED BY <2>3, <2>4
<1>16. ListsHoldRuns'
  <2> SUFFICES ASSUME NEW d \in Class
               PROVE  /\ IsList(nonFullRuns[d])'
                      /\ \A q \in nonFullRuns'[d].in : label'[q] = "run" /\ mIdx'[q] = d
                      /\ localRuns'[d] # None => label'[localRuns'[d]] = "run" /\ mIdx'[localRuns'[d]] = d
    BY DEF ListsHoldRuns
  <2>1. IsList(nonFullRuns[d])'
    BY <1>1, ListFacts
  <2> QED BY <1>1, <2>1, LocalFacts, ListFacts
<1>17. LargeInv'
  BY <1>1, <1>3, <1>8, LargeFrame, TakenFrame DEF AllocInv
<1>18. ObjectsArePlaced'
  BY <1>1, <1>6, <1>9, PlacedFrame DEF AllocInv
<1>19. GarbageIsAhead'
  <2> SUFFICES ASSUME NEW o \in allocated', o \notin marked
               PROVE  \E p \in Page :
                        \/ /\ label'[p] = "run" /\ (o \in Slots(mIdx[p], p))'
                           /\ Ahead(p, "run", {"lock", "sweep"})'
                        \/ /\ \E n \in LargeSizes : Stands(p, n)' /\ o = Large(p, n)
                           /\ Ahead(p, "large", {"clear large", "large region"})'
    BY <1>1 DEF GarbageIsAhead
  <2>0. o \in allocated
    BY <1>6
  <2>1. PICK p \in Page : \/ label[p] = "run" /\ o \in Slots(mIdx[p], p)
                          \/ \E n \in LargeSizes : Stands(p, n) /\ o = Large(p, n)
    BY <2>0 DEF AllocInv, ObjectsArePlaced, Placed
  <2>2. \A kind, pcs : label[p] = kind /\ ~IsLocal(p) => Ahead(p, kind, pcs)'
    BY <1>1 DEF Ahead, LabelToSweep
  <2>3. CASE label[p] = "run" /\ o \in Slots(mIdx[p], p)
    <3>1. ~IsLocal(p)
      BY <1>6, <2>0, <2>3, GarbageIs
    <3> QED BY <1>1, <2>2, <2>3, <3>1
  <2>4. CASE \E n \in LargeSizes : Stands(p, n) /\ o = Large(p, n)
    <3>1. PICK n \in LargeSizes : Stands(p, n) /\ o = Large(p, n)
      BY <2>4
    <3>2. label[p] = "large" /\ Stands(p, n)' /\ ~IsLocal(p)
      BY <1>3, <1>4, <1>9, <3>1, PlacedIsLabelled DEF Stands
    <3> QED BY <2>2, <3>1, <3>2
  <2> QED BY <2>1, <2>3, <2>4
<1> QED BY <1>3, <1>10, <1>11, <1>12, <1>13, <1>14, <1>15, <1>16, <1>17, <1>18, <1>19, InvIs
        DEF HeapKept, SweepKept

\* Runs without an object in use are given up.
LEMMA RunsEnd ==
  ASSUME AllocInv, NEW ended \in SUBSET Page,
         \A p \in ended : label[p] = "run" /\ label'[p] = "free" /\ Slots(mIdx[p], p) \cap allocated = {},
         \A p \in Page : p \notin ended => label'[p] = label[p] /\ mIdx'[p] = mIdx[p],
         allocated' = allocated, taken' = taken,
         \A w \in Workers : /\ Clearing(w)' <=> Clearing(w)
                            /\ Clearing(w) => /\ at'[w] = at[w]
                                              /\ LargeAt(at[w].page) \cap marked' = {}
  PROVE  /\ \A q \in Page, n \in LargeSizes : Stands(q, n)' <=> Stands(q, n)
         /\ LargeInv' /\ ObjectsArePlaced'
<1>1. ASSUME NEW q \in Page, NEW n \in LargeSizes, Stands(q, n) PROVE Stands(q, n)'
  BY <1>1 DEF Stands
<1>2. ASSUME NEW q \in Page, NEW n \in LargeSizes, Stands(q, n)' PROVE Stands(q, n)
  <2>1. q + n <= LastPage + 1 /\ Large(q, n) \in allocated
    BY <1>2 DEF Stands
  <2>2. q \notin ended
    <3> SUFFICES ASSUME q \in ended PROVE FALSE
      OBVIOUS
    <3>1. PICK p \in Page : \/ label[p] = "run" /\ Large(q, n) \in Slots(mIdx[p], p)
                            \/ \E m \in LargeSizes : Stands(p, m) /\ Large(q, n) = Large(p, m)
      BY <2>1 DEF AllocInv, ObjectsArePlaced, Placed
    <3>2. CASE label[p] = "run" /\ Large(q, n) \in Slots(mIdx[p], p)
      <4>1. p = q
        BY <2>1, <3>2, RunFacts, SlotsDiffer
      <4> QED BY <2>1, <3>2, <4>1
    <3>3. CASE \E m \in LargeSizes : Stands(p, m) /\ Large(q, n) = Large(p, m)
      <4>1. PICK m \in LargeSizes : Stands(p, m) /\ Large(q, n) = Large(p, m)
        BY <3>3
      <4>2. p = q
        BY <2>1, <4>1, LargeDiffer DEF Stands
      <4> QED BY <4>1, <4>2 DEF Stands
    <3> QED BY <3>1, <3>2, <3>3
  <2> QED BY <1>2, <2>2 DEF Stands
<1>3. TakenPages' = TakenPages
  BY DEF TakenPages
<1>4. \A q \in Page, m \in LargeSizes : Stands(q, m) =>
        \A x \in PagesFrom(q, m) : label'[x] = label[x]
  BY StandsApart
<1>5. LargeCleared' /\ LargeLabelled'
  <2>1. /\ LargeCleared'
        /\ \A q \in Page, m \in LargeSizes :
             Stands(q, m) /\ (\A w \in Workers : Clearing(w)' => at'[w].page # q) => Labelled(q, m, 0)'
    BY <1>1, <1>4, LabelFrame
  <2> QED BY <1>2, <2>1 DEF LargeLabelled
<1>6. LargeApart' /\ LargeNotTaken'
  BY <1>2, <1>3 DEF AllocInv, LargeInv, LargeApart, LargeNotTaken
<1>7. LabelsStand'
  <2>1. \A x \in Page : label'[x] \in {"large", "large rem"} => label'[x] = label[x]
    OBVIOUS
  <2>2. LabelsStand
    BY DEF AllocInv, LargeInv
  <2>3. ASSUME NEW x \in Page, label'[x] = "large rem"
        PROVE  \E q \in Page, m \in LargeSizes : Stands(q, m)' /\ x \in PagesFrom(q, m) /\ x # q
    <3>1. label[x] = "large rem"
      BY <2>1, <2>3
    <3>2. PICK q \in Page, m \in LargeSizes : Stands(q, m) /\ x \in PagesFrom(q, m) /\ x # q
      BY <2>2, <3>1 DEF LabelsStand
    <3>3. Stands(q, m)'
      BY <1>1, <3>2
    <3> QED BY <3>2, <3>3
  <2>4. ASSUME NEW x \in Page, label'[x] = "large"
        PROVE  (\E m \in LargeSizes : Stands(x, m)') \/ (taken.for = "large rem" /\ taken.page = x)'
    <3>1. label[x] = "large"
      BY <2>1, <2>4
    <3> QED BY <1>1, <2>2, <3>1 DEF LabelsStand
  <2> QED BY <2>3, <2>4 DEF LabelsStand
<1>8. ObjectsArePlaced'
  BY <1>1, PlacedFrame DEF AllocInv
<1> QED BY <1>1, <1>2, <1>5, <1>6, <1>7, <1>8 DEF LargeInv

\* A parallel sweep ends with every worker idle, and the empty local runs are released.
LEMMA EndParallelSweepKeeps ==
  ASSUME AllocInv, EndParallelSweep
  PROVE  AllocInv'
<1> PICK ended : ended = {localRuns[c] : c \in EmptyLocalRuns}
  OBVIOUS
<1>1. /\ phase = "parallel" /\ pending = {} /\ \A w \in Workers : at[w] = Idle
      /\ phase' = "run" /\ marked' = {}
      /\ label' = [p \in Page |-> IF p \in ended THEN "free" ELSE label[p]]
      /\ freePages' = freePages \cup ended
      /\ mIdx' = [p \in Page |-> IF p \in ended THEN None ELSE mIdx[p]]
      /\ freeList' = [p \in Page |-> IF p \in ended THEN {} ELSE freeList[p]]
      /\ localRuns' = [c \in Class |-> IF c \in EmptyLocalRuns THEN None ELSE localRuns[c]]
      /\ freeLists' = [c \in Class |-> IF c \in EmptyLocalRuns THEN {} ELSE freeLists[c]]
      /\ UNCHANGED <<snapshot, nonFullRuns, allocated, taken, pending, at, runLocks>>
  BY DEF EndParallelSweep, SweepIsDone
<1>2. /\ AtTyped' /\ WorkersApart' /\ WorkersAtRuns'
      /\ \A w \in Workers : ~Clearing(w) /\ ~Clearing(w)' /\ GivenBack(w) = {} /\ GivenBack(w)' = {}
  BY <1>1, IdleKeeps DEF AllocInv, HeapInOrder, TypeOK
<1>3. taken = NoPages /\ TakenPages = {} /\ TakenPages' = {}
  BY <1>1 DEF AllocInv, Phases, TakenPages
<1>4. \A p \in ended : /\ p \in Page /\ label[p] = "run" /\ IsLocal(p)
                       /\ Slots(mIdx[p], p) \cap allocated = {}
  BY LocalFacts DEF EmptyLocalRuns
<1>5. \A c \in Class : c \in EmptyLocalRuns <=> localRuns[c] # None /\ localRuns[c] \in ended
  BY LocalFacts DEF EmptyLocalRuns
<1>6. /\ \A q \in Page, n \in LargeSizes : Stands(q, n)' <=> Stands(q, n)
      /\ LargeInv' /\ ObjectsArePlaced'
  BY <1>1, <1>2, <1>4, RunsEnd
<1>7. Phases' /\ SnapshotHolds' /\ GarbageIsAhead' /\ (phase # "concurrent" => snapshot = None)'
  BY <1>1 DEF Phases, SnapshotHolds, GarbageIsAhead, AllocInv, HeapInOrder
<1>8. LocksAreHeld' /\ TakenTyped' /\ SlotsAreLocal' /\ RunsHaveClass'
  BY <1>1, <1>3 DEF AllocInv, HeapInOrder, LocksAreHeld, TakenTyped, SlotsAreLocal, RunsHaveClass
<1>9. TypeOK'
  BY <1>1, <1>4 DEF AllocInv, HeapInOrder, TypeOK, Label
<1>10. FreePagesAreOwned'
  <2>1. \A x \in Page : ~Given(x) /\ ~Given(x)' /\ ~NotLabelled(x) /\ ~NotLabelled(x)'
    BY <1>2, <1>3 DEF Given, NotLabelled
  <2>2. \A x \in Page : label'[x] = "free" <=> label[x] = "free" \/ x \in ended
    BY <1>1
  <2>3. \A x \in Page : PageIsOwned(x) => PageIsOwned(x)'
    BY <1>1, <1>3, <2>1, <2>2 DEF PageIsOwned
  <2> QED BY <1>2, <2>3 DEF AllocInv, HeapInOrder, FreePagesAreOwned
<1>11. \A p \in Page : p \notin ended => (IsLocal(p)' <=> IsLocal(p))
  <2> SUFFICES ASSUME NEW p \in Page, p \notin ended PROVE IsLocal(p)' <=> IsLocal(p)
    OBVIOUS
  <2>1. p # None
    BY RunListAssumption
  <2>2. \A c \in Class : localRuns'[c] = p <=> localRuns[c] = p
    BY <1>1, <1>5, <2>1
  <2> QED BY <2>2 DEF IsLocal
<1>12. RunsInOnePlace'
  <2> SUFFICES ASSUME NEW q \in Page, label'[q] = "run" PROVE RunInOnePlace(q)'
    BY DEF RunsInOnePlace
  <2>1. q \notin ended /\ label[q] = "run" /\ q # None
    BY <1>1, RunListAssumption
  <2>2. RunInOnePlace(q) /\ mIdx[q] \in Class
    BY <2>1, RunFacts
  <2>3. RunSame(q)
    BY <1>1, <1>11, <2>1 DEF RunSame, Listed
  <2>4. Mine(q)' = Mine(q)
    BY <1>1, <1>5, <2>1, <2>2 DEF Mine
  <2>5. Swept(q)' <=> Swept(q)
    BY <1>1 DEF Swept
  <2> QED BY <1>1, <2>2, <2>3, <2>4, <2>5, RunFrame DEF RunKept
<1>13. ListsHoldRuns'
  <2> SUFFICES ASSUME NEW d \in Class
               PROVE  /\ IsList(nonFullRuns[d])'
                      /\ \A q \in nonFullRuns'[d].in : label'[q] = "run" /\ mIdx'[q] = d
                      /\ localRuns'[d] # None => label'[localRuns'[d]] = "run" /\ mIdx'[localRuns'[d]] = d
    BY DEF ListsHoldRuns
  <2>1. IsList(nonFullRuns[d])'
    BY <1>1, ListFacts
  <2>2. \A q \in nonFullRuns'[d].in : label'[q] = "run" /\ mIdx'[q] = d
    BY <1>1, <1>4, ListFacts
  <2>3. localRuns'[d] # None => label'[localRuns'[d]] = "run" /\ mIdx'[localRuns'[d]] = d
    BY <1>1, <1>5, LocalFacts
  <2> QED BY <2>1, <2>2, <2>3
<1> QED BY <1>2, <1>6, <1>7, <1>8, <1>9, <1>10, <1>12, <1>13, InvIs DEF HeapKept, SweepKept

-----------------------------------------------------------------------------
(* The workers.                                                            *)

\* The pages of two workers differ.
LEMMA PagesDiffer ==
  ASSUME AllocInv, NEW v \in Workers, NEW w \in Workers, v # w,
         at[v].pc # "idle" \/ at[w].pc # "idle"
  PROVE  at[v].page # at[w].page
BY IdleIs, RunListAssumption DEF AllocInv, AtTyped, WorkersApart

\* A worker that is not idle has a page of its own in a sweep that goes on.
LEMMA SweepGoesOn ==
  ASSUME AllocInv, NEW w \in Workers, at[w].pc # "idle"
  PROVE  /\ phase \in {"concurrent", "parallel"} /\ at[w].page \in Page /\ at[w].page \notin pending
         /\ AtRun(w)
BY IdleIs DEF AllocInv, HeapInOrder, TypeOK, Phases, AtTyped, WorkersApart, WorkersAtRuns

\* The run at p is as it was, but for the lists and the workers.
LEMMA RunStays ==
  ASSUME NEW p, RunInOnePlace(p), UNCHANGED <<mIdx, freeList, localRuns, freeLists, allocated>>,
         Listed(p)' => ~IsLocal(p) /\ ~IsFull(p),
         ~IsLocal(p) /\ ~Listed(p)' => IsFull(p) \/ Swept(p)',
         Swept(p)' /\ phase' = "concurrent" => ~IsLocal(p)
  PROVE  RunInOnePlace(p)'
<1>1. /\ IsLocal(p)' <=> IsLocal(p)
      /\ IsFull(p)' <=> IsFull(p)
      /\ Mine(p)' = Mine(p)
  BY DEF IsLocal, IsFull, Mine
<1> QED BY <1>1 DEF RunInOnePlace

\* The place of w and the lists change, and nothing else.
Moves(w) ==
  /\ AtTyped' /\ Others(w)
  /\ UNCHANGED <<label, snapshot, freePages, mIdx, freeList, localRuns, freeLists, allocated,
                 marked, phase, taken, pending>>
  /\ at'[w].page \in {None, at[w].page}
  /\ \A q \in Page : q # at[w].page /\ label[q] = "run" => (Listed(q)' <=> Listed(q))

\* A worker goes on with a run, which stays in one place, and changes no label.
LEMMA MovesKeeps ==
  ASSUME AllocInv, NEW w \in Workers, Moves(w), at[w].pc \in {"lock", "sweep", "update", "unlock"},
         at[w].pc \in {"lock", "sweep"} => at'[w].pc \in {"lock", "sweep"} /\ at'[w].page = at[w].page,
         ~Clearing(w)', at'[w].pc # "region", AtRun(w)',
         \A q \in Page : q = at[w].page /\ label[q] = "run" => RunInOnePlace(q)',
         ListsHoldRuns', nonFullRuns' \in [Class -> Lists],
         runLocks' \in [Class -> Workers \cup {None}], LocksAreHeld'
  PROVE  AllocInv'
<1> PICK p \in Page : p = at[w].page
  BY SweepGoesOn
<1>1. /\ UNCHANGED <<label, snapshot, freePages, mIdx, freeList, localRuns, freeLists, allocated,
                     marked, phase, taken, pending>>
      /\ AtTyped' /\ at'[w].page \in {None, p} /\ p \notin pending /\ p # None
      /\ phase \in {"concurrent", "parallel"}
      /\ \A v \in Workers : v # w => at'[v] = at[v] /\ at[v].page # p
      /\ \A q \in Page : q # p /\ label[q] = "run" => (Listed(q)' <=> Listed(q))
  BY SweepGoesOn, PagesDiffer, RunListAssumption DEF Moves, Others
<1>2. \A v \in Workers : /\ Clearing(v)' <=> Clearing(v)
                         /\ Clearing(v) => at'[v] = at[v]
                         /\ GivenBack(v)' = GivenBack(v)
  <2> TAKE v \in Workers
  <2>1. CASE v = w
    <3>1. ~Clearing(w) /\ at[w].pc # "region"
      BY DEF Clearing
    <3> QED BY <2>1, <3>1 DEF Clearing, GivenBack
  <2>2. CASE v # w
    BY <1>1, <2>2 DEF Clearing, GivenBack
  <2> QED BY <2>1, <2>2
<1>3. \A q \in Page : q # p /\ label[q] = "run" => RunSame(q)
  BY <1>1 DEF RunSame, IsLocal
<1>4. TypeOK'
  BY <1>1 DEF AllocInv, HeapInOrder, TypeOK
<1>5. FreePagesAreOwned'
  BY <1>1, <1>2, OwnedFrame DEF AllocInv, HeapInOrder
<1>6. RunsInOnePlace'
  <2> SUFFICES ASSUME NEW q \in Page, label'[q] = "run" PROVE RunInOnePlace(q)'
    BY DEF RunsInOnePlace
  <2>1. CASE q = p
    BY <1>1, <2>1
  <2>2. CASE q # p
    <3>1. RunInOnePlace(q) /\ q # None
      BY <1>1, RunFacts, RunListAssumption
    <3>2. Swept(q)' <=> Swept(q)
      BY <1>1, <2>2, <3>1 DEF Swept
    <3>3. Mine(q)' = Mine(q)
      BY <1>1 DEF Mine
    <3> QED BY <1>1, <1>3, <2>2, <3>1, <3>2, <3>3, RunFrame DEF RunKept
  <2> QED BY <2>1, <2>2
<1>7. TakenTyped' /\ RunsHaveClass' /\ SlotsAreLocal'
  BY <1>1 DEF AllocInv, TakenTyped, RunsHaveClass, SlotsAreLocal
<1>8. LargeInv'
  BY <1>1, <1>2, LargeFrame, TakenFrame DEF AllocInv, LargeInv, LargeCleared
<1>9. \A q \in Page, n \in LargeSizes : Stands(q, n)' <=> Stands(q, n)
  BY <1>1 DEF Stands
<1>10. ObjectsArePlaced'
  BY <1>1, <1>9, PlacedFrame DEF AllocInv
<1>11. Phases'
  BY <1>1 DEF AllocInv, Phases
<1>12. WorkersApart'
  <2>1. ASSUME NEW v \in Workers, NEW u \in Workers, at'[v].page = at'[u].page
        PROVE  v = u \/ at'[v].page = None
    <3>1. at'[v].page \in {None, at[v].page} /\ at'[u].page \in {None, at[u].page}
      BY <1>1
    <3> QED BY <2>1, <3>1 DEF AllocInv, WorkersApart
  <2>2. None \notin pending
    BY RunListAssumption DEF AllocInv, HeapInOrder, TypeOK
  <2>3. \A v \in Workers : at'[v].page \notin pending
    BY <1>1, <2>2 DEF AllocInv, WorkersApart
  <2> QED BY <1>1, <2>1, <2>3 DEF WorkersApart
<1>13. WorkersAtRuns'
  <2> SUFFICES ASSUME NEW v \in Workers, v # w PROVE AtRun(v)'
    BY DEF WorkersAtRuns
  <2>1. AtRun(v) /\ at'[v] = at[v] /\ phase' = phase
    BY <1>1 DEF AllocInv, WorkersAtRuns
  <2>2. at[v].pc \in {"lock", "sweep", "update", "free"} => RunSame(at[v].page)
    BY <1>1, <1>3, <2>1, SweepGoesOn DEF AtRun
  <2> QED BY <2>1, <2>2, AtRunFrame
<1>14. SnapshotHolds'
  <2> SUFFICES ASSUME phase = "concurrent", NEW q \in pending
               PROVE  /\ snapshot[q] = "run" => label[q] = "run" /\ ~IsLocal(q)'
                      /\ snapshot[q] = "large" => \E n \in LargeSizes : Stands(q, n)'
    BY <1>1 DEF SnapshotHolds
  <2>1. q \in Page BY DEF AllocInv, HeapInOrder, TypeOK
  <2>2. IsLocal(q)' <=> IsLocal(q)
    BY <1>1 DEF IsLocal
  <2> QED BY <1>9, <2>1, <2>2 DEF AllocInv, SnapshotHolds
<1>15. GarbageIsAhead'
  <2>1. \A q \in Page : Ahead(q, "run", {"lock", "sweep"}) => Ahead(q, "run", {"lock", "sweep"})'
    <3> SUFFICES ASSUME NEW q \in Page, Ahead(q, "run", {"lock", "sweep"})
                 PROVE  Ahead(q, "run", {"lock", "sweep"})'
      OBVIOUS
    <3>1. CASE q \in pending /\ LabelToSweep(q) = "run"
      BY <1>1, <3>1 DEF Ahead, LabelToSweep
    <3>2. CASE \E v \in Workers : at[v].page = q /\ at[v].pc \in {"lock", "sweep"}
      <4>1. PICK v \in Workers : at[v].page = q /\ at[v].pc \in {"lock", "sweep"}
        BY <3>2
      <4>2. at'[v].page = q /\ at'[v].pc \in {"lock", "sweep"}
        BY <1>1, <4>1
      <4> QED BY <4>2 DEF Ahead
    <3> QED BY <3>1, <3>2 DEF Ahead
  <2>2. \A q \in Page : Ahead(q, "large", {"clear large", "large region"}) =>
          Ahead(q, "large", {"clear large", "large region"})'
    <3> SUFFICES ASSUME NEW q \in Page, Ahead(q, "large", {"clear large", "large region"})
                 PROVE  Ahead(q, "large", {"clear large", "large region"})'
      OBVIOUS
    <3>1. CASE q \in pending /\ LabelToSweep(q) = "large"
      BY <1>1, <3>1 DEF Ahead, LabelToSweep
    <3>2. CASE \E v \in Workers : at[v].page = q /\ at[v].pc \in {"clear large", "large region"}
      <4>1. PICK v \in Workers : at[v].page = q /\ at[v].pc \in {"clear large", "large region"}
        BY <3>2
      <4>2. at'[v] = at[v]
        BY <1>2, <4>1 DEF Clearing
      <4> QED BY <4>1, <4>2 DEF Ahead
    <3> QED BY <3>1, <3>2 DEF Ahead
  <2> QED BY <1>1, <1>9, <2>1, <2>2, GarbageFrame DEF AllocInv
<1>16. (phase # "concurrent" => snapshot = None)'
  BY <1>1 DEF AllocInv, HeapInOrder
<1> QED BY <1>1, <1>4, <1>5, <1>6, <1>7, <1>8, <1>10, <1>11, <1>12, <1>13, <1>14, <1>15, <1>16, InvIs
        DEF HeapKept, SweepKept

\* The lists are as they were, if no run they hold ends.
LEMMA ListsStay ==
  ASSUME AllocInv, UNCHANGED <<localRuns, nonFullRuns>>,
         \A q \in Page : label[q] = "run" /\ (IsLocal(q) \/ Listed(q)) =>
           label'[q] = "run" /\ mIdx'[q] = mIdx[q]
  PROVE  ListsHoldRuns' /\ nonFullRuns' \in [Class -> Lists]
<1> SUFFICES ASSUME NEW d \in Class
             PROVE  /\ IsList(nonFullRuns[d])'
                    /\ \A q \in nonFullRuns'[d].in : label'[q] = "run" /\ mIdx'[q] = d
                    /\ localRuns'[d] # None => label'[localRuns'[d]] = "run" /\ mIdx'[localRuns'[d]] = d
  BY DEF ListsHoldRuns, AllocInv, HeapInOrder, TypeOK
<1>1. IsList(nonFullRuns[d])'
  BY ListFacts
<1>2. \A q \in nonFullRuns'[d].in : label'[q] = "run" /\ mIdx'[q] = d
  BY ListFacts
<1> QED BY <1>1, <1>2, LocalFacts

\* A worker that waited for the lock of a class gets it.
LEMMA LockKeeps ==
  ASSUME AllocInv, NEW w \in Workers, Lock(w)
  PROVE  AllocInv'
<1> PICK a \in Place : a = at[w]
  BY DEF AllocInv, AtTyped
<1>1. /\ a.pc = "lock" /\ a.page \in Page /\ AtRun(w) /\ at[w].pc # "idle"
      /\ phase = "concurrent"
  BY SweepGoesOn DEF Lock, AtRun
<1> PICK p \in Page : p = a.page
  BY <1>1
<1>2. label[p] = "run" /\ ~IsLocal(p) /\ Listed(p) /\ ~a.wasFull /\ a.locked = None
  BY <1>1 DEF AtRun
<1> PICK c \in Class : c = mIdx[p]
  BY <1>2, RunFacts
<1>3. /\ runLocks[c] = None /\ runLocks' = [runLocks EXCEPT ![c] = w]
      /\ at' = [at EXCEPT ![w].pc = "sweep", ![w].locked = c]
      /\ UNCHANGED <<label, snapshot, freePages, allocated, marked, phase, taken, pending>>
      /\ UNCHANGED <<mIdx, freeList, localRuns, freeLists, nonFullRuns>>
  BY DEF Lock, heap, runs, objects
<1>4. PICK b \in Place : b = [pc |-> "sweep", page |-> p, wasFull |-> a.wasFull, locked |-> c,
                              cleared |-> a.cleared]
  BY DEF Place, PC
<1>5. at' = [at EXCEPT ![w] = b]
  <2>1. at' = [at EXCEPT ![w] = [a EXCEPT !.pc = "sweep", !.locked = c]]
    BY <1>3 DEF AllocInv, AtTyped
  <2>2. a = [pc |-> a.pc, page |-> p, wasFull |-> a.wasFull, locked |-> a.locked,
             cleared |-> a.cleared]
    BY DEF Place
  <2>3. [a EXCEPT !.pc = "sweep"]
          = [pc |-> "sweep", page |-> p, wasFull |-> a.wasFull, locked |-> a.locked,
             cleared |-> a.cleared]
    BY <2>2
  <2>4. [a EXCEPT !.pc = "sweep", !.locked = c] = [[a EXCEPT !.pc = "sweep"] EXCEPT !.locked = c]
    OBVIOUS
  <2>5. [[pc |-> "sweep", page |-> p, wasFull |-> a.wasFull, locked |-> a.locked,
          cleared |-> a.cleared] EXCEPT !.locked = c] = b
    BY <1>4
  <2> QED BY <2>1, <2>3, <2>4, <2>5
<1>6. AtTyped' /\ Others(w) /\ at'[w] = b
  <2>1. AtTyped
    BY DEF AllocInv
  <2>2. b.pc = "sweep" /\ b.page \in Page
    BY <1>4
  <2> QED BY <1>5, <2>1, <2>2, MovesTo
<1>7. b.pc = "sweep" /\ b.page = p /\ ~b.wasFull /\ b.locked = c
  BY <1>2, <1>4
<1>8. Moves(w)
  BY <1>3, <1>6, <1>7 DEF Moves, Listed
<1>9. AtRun(w)'
  <2>1. IsLocal(p)' <=> IsLocal(p)
    BY <1>3 DEF IsLocal
  <2>2. Listed(p)' <=> Listed(p)
    BY <1>3 DEF Listed
  <2>3. /\ IsLocal(at[w].page)' <=> IsLocal(p)'
        /\ Listed(at[w].page)' <=> Listed(p)'
    BY <1>6, <1>7 DEF IsLocal, Listed
  <2> QED BY <1>1, <1>2, <1>3, <1>6, <1>7, <2>1, <2>2, <2>3 DEF AtRun
<1>10. RunInOnePlace(p)'
  <2>1. RunInOnePlace(p)
    BY <1>2, RunFacts
  <2>2. Listed(p)' <=> Listed(p)
    BY <1>3 DEF Listed
  <2> QED BY <1>2, <1>3, <2>1, <2>2, RunStays DEF RunInOnePlace
<1>11. runLocks' \in [Class -> Workers \cup {None}] /\ runLocks'[c] = w
       /\ \A d \in Class : d # c => runLocks'[d] = runLocks[d]
  BY <1>3 DEF AllocInv, HeapInOrder, TypeOK
<1>12. LocksAreHeld'
  <2> SUFFICES ASSUME NEW d \in Class, NEW v \in Workers
               PROVE  (runLocks'[d] = v) = (at'[v].locked = d)
    BY DEF LocksAreHeld
  <2>0. LocksAreHeld
    BY DEF AllocInv, HeapInOrder
  <2>1. (runLocks[d] = v) = (at[v].locked = d) /\ v # None /\ d # None
    <3>1. (runLocks[d] = v) = (at[v].locked = d)
      BY <2>0 DEF LocksAreHeld
    <3>2. v # None /\ d # None
      BY AllocatorAssumption
    <3> QED BY <3>1, <3>2
  <2>2. CASE v = w
    BY <1>2, <1>6, <1>7, <1>11, <2>1, <2>2
  <2>3. CASE v # w
    BY <1>3, <1>6, <1>11, <2>1, <2>3 DEF Others
  <2> QED BY <2>2, <2>3
<1>13. ListsHoldRuns' /\ nonFullRuns' \in [Class -> Lists]
  <2>1. UNCHANGED <<label, mIdx, localRuns, nonFullRuns>>
    BY <1>3
  <2> QED BY <2>1, ListsStay
<1>14. ~Clearing(w)' /\ at'[w].pc # "region"
  BY <1>6, <1>7 DEF Clearing
<1> QED BY <1>1, <1>6, <1>7, <1>8, <1>9, <1>10, <1>11, <1>12, <1>13, <1>14, MovesKeeps

\* Nothing taken is no labelled first page.
LEMMA NothingIs == NoPages.for # "large rem"
BY DEF NoPages

\* A worker that has finished is at no page and holds no lock.
LEMMA EndsIs ==
  ASSUME NEW w \in Workers, Ends(w)
  PROVE  AtRun(w)' /\ ~Clearing(w)' /\ at'[w].pc # "region" /\ at'[w].page = None /\ at'[w].locked = None
BY IdleIs DEF Ends, AtRun, Clearing

\* The locks are held as they were.
LEMMA LocksStay ==
  ASSUME AllocInv, runLocks' = runLocks, \A v \in Workers : at'[v].locked = at[v].locked
  PROVE  LocksAreHeld' /\ runLocks' \in [Class -> Workers \cup {None}]
BY DEF AllocInv, HeapInOrder, TypeOK, LocksAreHeld

\* A worker gives up the lock it holds.
LEMMA UnlockKeeps ==
  ASSUME AllocInv, NEW w \in Workers, Unlock(w)
  PROVE  AllocInv'
<1>1. /\ at[w].pc = "unlock" /\ Finish(w)
      /\ runLocks' = [runLocks EXCEPT ![at[w].locked] = None]
      /\ UNCHANGED <<label, snapshot, freePages, allocated, marked, phase, taken, pending>>
      /\ UNCHANGED <<mIdx, freeList, localRuns, freeLists, nonFullRuns>>
  BY DEF Unlock, heap, runs, objects
<1>2. Ends(w)
  BY <1>1, FinishEnds DEF AllocInv
<1>3. at[w].page \in Page /\ AtRun(w)
  BY <1>1, SweepGoesOn
<1> PICK p \in Page : p = at[w].page
  BY <1>3
<1> PICK c \in Class : c = at[w].locked
  BY <1>1, <1>3 DEF AtRun, AllocInv, AtTyped, Place
<1>4. /\ AtRun(w)' /\ ~Clearing(w)' /\ at'[w].pc # "region" /\ at'[w].page = None
      /\ at'[w].locked = None
  BY <1>2, EndsIs
<1>5. Moves(w)
  BY <1>1, <1>2, <1>4 DEF Moves, Listed, Ends
<1>6. ASSUME label[p] = "run" PROVE RunInOnePlace(p)'
  <2>1. RunInOnePlace(p)
    BY <1>6, RunFacts
  <2>2. Swept(p)' <=> Swept(p)
    BY <1>1, <1>2, <1>4, RunListAssumption DEF Swept, Ends, Others
  <2>3. Listed(p)' <=> Listed(p)
    BY <1>1 DEF Listed
  <2> QED BY <1>1, <2>1, <2>2, <2>3, RunStays DEF RunInOnePlace
<1>7. UNCHANGED <<label, mIdx, localRuns, nonFullRuns>>
  BY <1>1
<1>8. ListsHoldRuns' /\ nonFullRuns' \in [Class -> Lists]
  BY <1>7, ListsStay
<1>9. runLocks' \in [Class -> Workers \cup {None}] /\ runLocks'[c] = None
      /\ \A d \in Class : d # c => runLocks'[d] = runLocks[d]
  BY <1>1 DEF AllocInv, HeapInOrder, TypeOK
<1>10. LocksAreHeld'
  <2> SUFFICES ASSUME NEW d \in Class, NEW v \in Workers
               PROVE  (runLocks'[d] = v) = (at'[v].locked = d)
    BY DEF LocksAreHeld
  <2>0. LocksAreHeld
    BY DEF AllocInv, HeapInOrder
  <2>1. /\ (runLocks[d] = v) = (at[v].locked = d) /\ v # None /\ d # None
        /\ (runLocks[c] = w) = (at[w].locked = c)
        /\ (runLocks[c] = v) = (at[v].locked = c)
    <3>1. (runLocks[d] = v) = (at[v].locked = d)
      BY <2>0 DEF LocksAreHeld
    <3>2. (runLocks[c] = w) = (at[w].locked = c)
      BY <2>0 DEF LocksAreHeld
    <3>3. (runLocks[c] = v) = (at[v].locked = c)
      BY <2>0 DEF LocksAreHeld
    <3>4. v # None /\ d # None
      BY AllocatorAssumption
    <3> QED BY <3>1, <3>2, <3>3, <3>4
  <2>2. CASE v = w
    BY <1>4, <1>9, <2>1, <2>2
  <2>3. CASE v # w
    BY <1>2, <1>9, <2>1, <2>3 DEF Ends, Others
  <2> QED BY <2>2, <2>3
<1> QED BY <1>1, <1>4, <1>5, <1>6, <1>8, <1>9, <1>10, MovesKeeps

\* The list of one class is replaced.
LEMMA ListsChange ==
  ASSUME AllocInv, NEW c \in Class, NEW m \in Lists, IsList(m),
         nonFullRuns' = [nonFullRuns EXCEPT ![c] = m],
         \A q \in m.in : label[q] = "run" /\ mIdx[q] = c,
         UNCHANGED <<label, mIdx, localRuns>>
  PROVE  /\ ListsHoldRuns' /\ nonFullRuns' \in [Class -> Lists] /\ nonFullRuns'[c] = m
         /\ \A d \in Class : d # c => nonFullRuns'[d] = nonFullRuns[d]
<1>1. /\ nonFullRuns' \in [Class -> Lists] /\ nonFullRuns'[c] = m
      /\ \A d \in Class : d # c => nonFullRuns'[d] = nonFullRuns[d]
  BY DEF AllocInv, HeapInOrder, TypeOK
<1>2. ListsHoldRuns'
  <2> SUFFICES ASSUME NEW d \in Class
               PROVE  /\ IsList(nonFullRuns[d])'
                      /\ \A q \in nonFullRuns'[d].in : label'[q] = "run" /\ mIdx'[q] = d
                      /\ localRuns'[d] # None => label'[localRuns'[d]] = "run" /\ mIdx'[localRuns'[d]] = d
    BY DEF ListsHoldRuns
  <2>1. IsList(nonFullRuns'[d])
    BY <1>1, ListFacts
  <2>2. IsList(nonFullRuns[d])'
    BY <2>1 DEF IsList
  <2>3. \A q \in nonFullRuns'[d].in : label'[q] = "run" /\ mIdx'[q] = d
    BY <1>1, ListFacts
  <2> QED BY <2>2, <2>3, LocalFacts
<1> QED BY <1>1, <1>2

\* Erase takes a run out of the list of its class, and no other run out of any.
LEMMA EraseFromLists ==
  ASSUME AllocInv, NEW p \in Page, label[p] = "run", Listed(p),
         nonFullRuns' = [nonFullRuns EXCEPT ![mIdx[p]] = Erase(@, p)],
         UNCHANGED <<label, mIdx, localRuns>>
  PROVE  /\ ListsHoldRuns' /\ nonFullRuns' \in [Class -> Lists] /\ ~Listed(p)'
         /\ \A q \in Page : q # p /\ label[q] = "run" => (Listed(q)' <=> Listed(q))
<1> PICK c \in Class : c = mIdx[p]
  BY RunFacts
<1> PICK l \in Lists : l = nonFullRuns[c]
  BY ListFacts
<1>1. IsList(l) /\ p \in l.in
  BY ListFacts DEF Listed
<1> PICK m \in Lists : m = Erase(l, p)
  BY <1>1, PagesAre, EraseKeepsList
<1>2. IsList(m) /\ m.in = l.in \ {p}
  BY <1>1, PagesAre, EraseKeepsList
<1>3. nonFullRuns' = [nonFullRuns EXCEPT ![c] = m]
  OBVIOUS
<1>4. \A q \in m.in : label[q] = "run" /\ mIdx[q] = c
  BY <1>2, ListFacts
<1>5. /\ ListsHoldRuns' /\ nonFullRuns' \in [Class -> Lists] /\ nonFullRuns'[c] = m
      /\ \A d \in Class : d # c => nonFullRuns'[d] = nonFullRuns[d]
  BY <1>2, <1>3, <1>4, ListsChange
<1>6. \A q \in Page : label[q] = "run" =>
        nonFullRuns'[mIdx[q]] = nonFullRuns[mIdx[q]] \/ mIdx[q] = c
  BY <1>5, RunFacts
<1> QED BY <1>2, <1>5, <1>6 DEF Listed

\* Insert puts a run into the list of its class, and no other run into any.
LEMMA InsertInLists ==
  ASSUME AllocInv, NEW p \in Page, label[p] = "run", ~Listed(p), NEW tier \in Tier,
         nonFullRuns' = [nonFullRuns EXCEPT ![mIdx[p]] = Insert(@, p, tier)],
         UNCHANGED <<label, mIdx, localRuns>>
  PROVE  /\ ListsHoldRuns' /\ nonFullRuns' \in [Class -> Lists] /\ Listed(p)'
         /\ \A q \in Page : q # p /\ label[q] = "run" => (Listed(q)' <=> Listed(q))
<1> PICK c \in Class : c = mIdx[p]
  BY RunFacts
<1> PICK l \in Lists : l = nonFullRuns[c]
  BY ListFacts
<1>1. IsList(l) /\ p \in Page \ l.in
  BY ListFacts DEF Listed
<1> PICK m \in Lists : m = Insert(l, p, tier)
  BY <1>1, PagesAre, InsertKeepsList
<1>2. IsList(m) /\ m.in = l.in \cup {p}
  BY <1>1, PagesAre, InsertKeepsList
<1>3. nonFullRuns' = [nonFullRuns EXCEPT ![c] = m]
  OBVIOUS
<1>4. \A q \in m.in : label[q] = "run" /\ mIdx[q] = c
  BY <1>2, ListFacts
<1>5. /\ ListsHoldRuns' /\ nonFullRuns' \in [Class -> Lists] /\ nonFullRuns'[c] = m
      /\ \A d \in Class : d # c => nonFullRuns'[d] = nonFullRuns[d]
  BY <1>2, <1>3, <1>4, ListsChange
<1>6. \A q \in Page : label[q] = "run" =>
        nonFullRuns'[mIdx[q]] = nonFullRuns[mIdx[q]] \/ mIdx[q] = c
  BY <1>5, RunFacts
<1> QED BY <1>2, <1>5, <1>6 DEF Listed

\* A worker leaves a run whose slots it has swept.
LEMMA UpdateIs ==
  ASSUME AllocInv, NEW w \in Workers, at[w].pc = "update",
         UNCHANGED <<label, mIdx, freeList, localRuns>>
  PROVE  /\ at[w].page \in Page /\ label[at[w].page] = "run" /\ mIdx[at[w].page] \in Class
         /\ RunInOnePlace(at[w].page)
         /\ phase = "concurrent" => ~IsLocal(at[w].page)
         /\ IF Listed(at[w].page) THEN ~at[w].wasFull ELSE IsLocal(at[w].page) \/ at[w].wasFull
         /\ at[w].locked # None => /\ phase = "concurrent" /\ at[w].locked = mIdx[at[w].page]
                                   /\ Listed(at[w].page)
         /\ \A p \in Page : IsLocal(p)' <=> IsLocal(p)
         /\ \A p \in Page : IsEmpty(p)' <=> IsEmpty(p)
BY SweepGoesOn, RunFacts DEF AtRun, IsLocal, IsEmpty

\* The run at p, empty and erased from the list, is to be given up.
LEMMA GoesToFree ==
  ASSUME AllocInv, NEW w \in Workers, at[w].pc = "update", GoesOn(w, "free"),
         NEW p \in Page, p = at[w].page, IsEmpty(p), ~IsLocal(p), ~Listed(p)',
         UNCHANGED <<label, mIdx, freeList, localRuns, freeLists, allocated, phase, runLocks>>
  PROVE  /\ AtRun(w)' /\ RunInOnePlace(p)' /\ ~Clearing(w)' /\ at'[w].pc # "region"
         /\ LocksAreHeld' /\ runLocks' \in [Class -> Workers \cup {None}]
<1>1. /\ label[p] = "run" /\ RunInOnePlace(p)
      /\ at[w].locked # None => phase = "concurrent" /\ at[w].locked = mIdx[p]
      /\ ~IsLocal(p)' /\ IsEmpty(p)'
  BY UpdateIs
<1>2. at'[w].pc = "free" /\ at'[w].page = p /\ at'[w].locked = at[w].locked /\ Others(w)
  BY DEF GoesOn
<1>3. AtRun(w)'
  <2>1. /\ IsLocal(at[w].page)' <=> IsLocal(p)'
        /\ Listed(at[w].page)' <=> Listed(p)'
        /\ IsEmpty(at[w].page)' <=> IsEmpty(p)'
    BY <1>2 DEF IsLocal, Listed, IsEmpty
  <2> QED BY <1>1, <1>2, <2>1 DEF AtRun
<1>4. RunInOnePlace(p)'
  <2>1. Swept(p)'
    BY <1>2 DEF Swept
  <2> QED BY <1>1, <2>1, RunStays
<1>5. \A v \in Workers : at'[v].locked = at[v].locked
  BY <1>2 DEF Others
<1> QED BY <1>2, <1>3, <1>4, <1>5, LocksStay DEF Clearing

\* A run that was in the list, and is empty, is taken out of it under the lock.
LEMMA UpdateLockedKeeps ==
  ASSUME AllocInv, NEW w \in Workers, UpdateLocked(w)
  PROVE  AllocInv'
<1>1. /\ at[w].pc = "update" /\ at[w].locked # None
      /\ UNCHANGED <<label, snapshot, freePages, allocated, marked, phase, taken, pending, runLocks>>
      /\ UNCHANGED <<mIdx, freeList, localRuns, freeLists>>
  BY DEF UpdateLocked, heap, objects
<1>2. at[w].page \in Page
  BY <1>1, UpdateIs
<1> PICK p \in Page : p = at[w].page
  BY <1>2
<1>3. /\ label[p] = "run" /\ RunInOnePlace(p) /\ phase = "concurrent" /\ ~IsLocal(p) /\ Listed(p)
      /\ at[w].locked = mIdx[p] /\ (IsLocal(p)' <=> IsLocal(p))
  BY <1>1, UpdateIs
<1>4. CASE IsEmpty(p)
  <2>1. /\ nonFullRuns' = [nonFullRuns EXCEPT ![mIdx[p]] = Erase(@, p)] /\ Goto(w, "free")
    BY <1>4 DEF UpdateLocked
  <2>2. GoesOn(w, "free")
    BY <1>1, <2>1, GotoGoesOn DEF AllocInv, PC
  <2>3. /\ ListsHoldRuns' /\ nonFullRuns' \in [Class -> Lists] /\ ~Listed(p)'
        /\ \A q \in Page : q # p /\ label[q] = "run" => (Listed(q)' <=> Listed(q))
    BY <1>1, <1>3, <2>1, EraseFromLists
  <2>4. /\ AtRun(w)' /\ RunInOnePlace(p)' /\ ~Clearing(w)' /\ at'[w].pc # "region"
        /\ LocksAreHeld' /\ runLocks' \in [Class -> Workers \cup {None}]
    BY <1>1, <1>3, <1>4, <2>2, <2>3, GoesToFree
  <2>5. Moves(w)
    BY <1>1, <2>2, <2>3 DEF Moves, GoesOn
  <2> QED BY <1>1, <2>3, <2>4, <2>5, MovesKeeps
<1>5. CASE ~IsEmpty(p)
  <2>1. Goto(w, "unlock") /\ nonFullRuns' = nonFullRuns
    BY <1>5 DEF UpdateLocked
  <2>2. GoesOn(w, "unlock")
    BY <1>1, <2>1, GotoGoesOn DEF AllocInv, PC
  <2>3. ListsHoldRuns' /\ nonFullRuns' \in [Class -> Lists]
    BY <1>1, <2>1, ListsStay
  <2>4. \A q \in Page : Listed(q)' <=> Listed(q)
    BY <1>1, <2>1 DEF Listed
  <2>5. Moves(w)
    BY <1>1, <2>2, <2>4 DEF Moves, GoesOn
  <2>6. AtRun(w)'
    BY <1>1, <1>3, <2>2 DEF GoesOn, AtRun
  <2>7. RunInOnePlace(p)'
    BY <1>1, <1>3, <2>4, RunStays DEF RunInOnePlace
  <2>8. LocksAreHeld' /\ runLocks' \in [Class -> Workers \cup {None}]
    BY <1>1, <2>2, LocksStay DEF GoesOn, Others
  <2>9. ~Clearing(w)' /\ at'[w].pc # "region"
    BY <2>2 DEF GoesOn, Clearing
  <2> QED BY <1>1, <2>3, <2>5, <2>6, <2>7, <2>8, <2>9, MovesKeeps
<1> QED BY <1>4, <1>5

\* A run that was swept without the lock, or with the mutator waiting, goes to where it
\* belongs.
LEMMA UpdateGlobalsKeeps ==
  ASSUME AllocInv, NEW w \in Workers, UpdateGlobals(w)
  PROVE  AllocInv'
<1>1. /\ at[w].pc = "update" /\ at[w].locked = None
      /\ UNCHANGED <<label, snapshot, freePages, allocated, marked, phase, taken, pending, runLocks>>
      /\ UNCHANGED <<mIdx, freeList, localRuns, freeLists>>
  BY DEF UpdateGlobals, heap, objects
<1>2. at[w].page \in Page
  BY <1>1, UpdateIs
<1> PICK p \in Page : p = at[w].page
  BY <1>2
<1>3. /\ label[p] = "run" /\ RunInOnePlace(p) /\ (phase = "concurrent" => ~IsLocal(p))
      /\ IF Listed(p) THEN ~at[w].wasFull ELSE IsLocal(p) \/ at[w].wasFull
      /\ IsLocal(p)' <=> IsLocal(p)
  BY <1>1, UpdateIs
<1>4. ASSUME Finish(w), ListsHoldRuns', nonFullRuns' \in [Class -> Lists],
             Listed(p)' => ~IsLocal(p) /\ ~IsFull(p),
             Listed(p)' \/ IsLocal(p) \/ IsFull(p),
             \A q \in Page : q # p /\ label[q] = "run" => (Listed(q)' <=> Listed(q))
      PROVE  AllocInv'
  <2>1. Ends(w)
    BY <1>4, FinishEnds DEF AllocInv
  <2>2. /\ AtRun(w)' /\ ~Clearing(w)' /\ at'[w].pc # "region" /\ at'[w].page = None
        /\ at'[w].locked = None
    BY <2>1, EndsIs
  <2>3. Moves(w)
    BY <1>1, <1>4, <2>1, <2>2 DEF Moves, Ends
  <2>4. LocksAreHeld' /\ runLocks' \in [Class -> Workers \cup {None}]
    BY <1>1, <2>1, <2>2, LocksStay DEF Ends, Others
  <2>5. RunInOnePlace(p)'
    BY <1>1, <1>3, <1>4, RunStays
  <2> QED BY <1>1, <1>4, <2>2, <2>3, <2>4, <2>5, MovesKeeps
<1>5. ASSUME Goto(w, "free"), IsEmpty(p), ~IsLocal(p), ~Listed(p)',
             ListsHoldRuns', nonFullRuns' \in [Class -> Lists],
             \A q \in Page : q # p /\ label[q] = "run" => (Listed(q)' <=> Listed(q))
      PROVE  AllocInv'
  <2>1. GoesOn(w, "free")
    BY <1>1, <1>5, GotoGoesOn DEF AllocInv, PC
  <2>2. /\ AtRun(w)' /\ RunInOnePlace(p)' /\ ~Clearing(w)' /\ at'[w].pc # "region"
        /\ LocksAreHeld' /\ runLocks' \in [Class -> Workers \cup {None}]
    BY <1>1, <1>5, <2>1, GoesToFree
  <2>3. Moves(w)
    BY <1>1, <1>5, <2>1 DEF Moves, GoesOn
  <2> QED BY <1>1, <1>5, <2>2, <2>3, MovesKeeps
<1>6. ASSUME nonFullRuns' = nonFullRuns
      PROVE  /\ ListsHoldRuns' /\ nonFullRuns' \in [Class -> Lists]
             /\ \A q \in Page : Listed(q)' <=> Listed(q)
  <2>1. \A q \in Page : Listed(q)' <=> Listed(q)
    BY <1>1, <1>6 DEF Listed
  <2> QED BY <1>1, <1>6, <2>1, ListsStay
<1>7. CASE IsLocal(p) /\ Finish(w) /\ nonFullRuns' = nonFullRuns
  <2>1. ~Listed(p)
    BY <1>3, <1>7 DEF RunInOnePlace
  <2> QED BY <1>4, <1>6, <1>7, <2>1
<1>8. CASE /\ ~IsLocal(p) /\ IsEmpty(p) /\ Listed(p)
           /\ nonFullRuns' = [nonFullRuns EXCEPT ![mIdx[p]] = Erase(@, p)] /\ Goto(w, "free")
  BY <1>1, <1>3, <1>5, <1>8, EraseFromLists
<1>9. CASE /\ ~IsLocal(p) /\ IsEmpty(p) /\ ~Listed(p) /\ nonFullRuns' = nonFullRuns
           /\ IF at[w].wasFull THEN Goto(w, "free") ELSE Finish(w)
  BY <1>3, <1>5, <1>6, <1>9
<1>10. CASE /\ ~IsLocal(p) /\ BackInList(p, at[w].wasFull) /\ Finish(w)
            /\ \E tier \in Tier : nonFullRuns' = [nonFullRuns EXCEPT ![mIdx[p]] = Insert(@, p, tier)]
  <2>1. ~Listed(p) /\ ~IsFull(p)
    BY <1>3, <1>10 DEF BackInList
  <2>2. /\ ListsHoldRuns' /\ nonFullRuns' \in [Class -> Lists] /\ Listed(p)'
        /\ \A q \in Page : q # p /\ label[q] = "run" => (Listed(q)' <=> Listed(q))
    BY <1>1, <1>3, <1>10, <2>1, InsertInLists
  <2> QED BY <1>4, <1>10, <2>1, <2>2
<1>11. CASE /\ ~IsLocal(p) /\ ~IsEmpty(p) /\ ~BackInList(p, at[w].wasFull)
            /\ Finish(w) /\ nonFullRuns' = nonFullRuns
  <2>1. (Listed(p) => ~IsFull(p)) /\ (Listed(p) \/ IsFull(p))
    BY <1>3, <1>11 DEF BackInList, RunInOnePlace
  <2> QED BY <1>4, <1>6, <1>11, <2>1
<1> QED BY <1>7, <1>8, <1>9, <1>10, <1>11 DEF UpdateGlobals, Listed

\* What a step of w leaves to the other workers.
LEMMA OthersKeep ==
  ASSUME AllocInv, NEW w \in Workers, at[w].pc # "idle", AtTyped', Others(w),
         at'[w].page \in {None, at[w].page}, AtRun(w)',
         UNCHANGED <<snapshot, marked, phase, taken, pending>>, marked \subseteq allocated',
         \A q \in Page : q # at[w].page /\ label[q] = "run" => RunSame(q),
         \A q \in Page, n \in LargeSizes : q # at[w].page /\ Stands(q, n) => Stands(q, n)'
  PROVE  /\ AtTyped' /\ Phases' /\ WorkersApart' /\ WorkersAtRuns' /\ SnapshotHolds'
         /\ (phase # "concurrent" => snapshot = None)'
<1> PICK p \in Page : p = at[w].page
  BY SweepGoesOn
<1>1. /\ UNCHANGED <<snapshot, marked, phase, taken, pending>>
      /\ at'[w].page \in {None, p} /\ p \notin pending /\ p # None
      /\ phase \in {"concurrent", "parallel"}
      /\ \A v \in Workers : v # w => at'[v] = at[v] /\ at[v].page # p
  BY SweepGoesOn, PagesDiffer, RunListAssumption DEF Others
<1>2. Phases' /\ (phase # "concurrent" => snapshot = None)'
  BY <1>1 DEF AllocInv, HeapInOrder, Phases
<1>3. WorkersApart'
  <2>1. ASSUME NEW v \in Workers, NEW u \in Workers, at'[v].page = at'[u].page
        PROVE  v = u \/ at'[v].page = None
    <3>1. at'[v].page \in {None, at[v].page} /\ at'[u].page \in {None, at[u].page}
      BY <1>1
    <3> QED BY <2>1, <3>1 DEF AllocInv, WorkersApart
  <2>2. None \notin pending
    BY RunListAssumption DEF AllocInv, HeapInOrder, TypeOK
  <2>3. \A v \in Workers : at'[v].page \notin pending
    BY <1>1, <2>2 DEF AllocInv, WorkersApart
  <2> QED BY <1>1, <2>1, <2>3 DEF WorkersApart
<1>4. WorkersAtRuns'
  <2> SUFFICES ASSUME NEW v \in Workers, v # w PROVE AtRun(v)'
    BY DEF WorkersAtRuns
  <2>1. AtRun(v) /\ at'[v] = at[v] /\ phase' = phase
    BY <1>1 DEF AllocInv, WorkersAtRuns
  <2>2. at[v].pc \in {"lock", "sweep", "update", "free"} => RunSame(at[v].page)
    BY <1>1, <2>1, SweepGoesOn DEF AtRun
  <2> QED BY <2>1, <2>2, AtRunFrame
<1>5. SnapshotHolds'
  <2> SUFFICES ASSUME phase = "concurrent", NEW q \in pending
               PROVE  /\ snapshot[q] = "run" => label'[q] = "run" /\ ~IsLocal(q)'
                      /\ snapshot[q] = "large" => \E n \in LargeSizes : Stands(q, n)'
    BY <1>1 DEF SnapshotHolds
  <2>1. q \in Page /\ q # p
    BY <1>1 DEF AllocInv, HeapInOrder, TypeOK
  <2>2. label[q] = "run" => label'[q] = "run" /\ (IsLocal(q)' <=> IsLocal(q))
    BY <2>1 DEF RunSame
  <2> QED BY <2>1, <2>2 DEF AllocInv, SnapshotHolds
<1> QED BY <1>2, <1>3, <1>4, <1>5

\* A page that is ahead of the sweep stays so, if another worker's page is the one that
\* changes.
LEMMA AheadStays ==
  ASSUME AllocInv, NEW w \in Workers, Others(w), UNCHANGED <<snapshot, phase, pending>>,
         NEW q \in Page, q # at[w].page, NEW kind, NEW pcs, label[q] = kind => label'[q] = kind,
         Ahead(q, kind, pcs)
  PROVE  Ahead(q, kind, pcs)'
<1>1. CASE q \in pending /\ LabelToSweep(q) = kind
  BY <1>1 DEF Ahead, LabelToSweep
<1>2. CASE \E v \in Workers : at[v].page = q /\ at[v].pc \in pcs
  <2>1. PICK v \in Workers : at[v].page = q /\ at[v].pc \in pcs
    BY <1>2
  <2>2. at'[v] = at[v]
    BY <2>1 DEF Others
  <2> QED BY <2>1, <2>2 DEF Ahead
<1> QED BY <1>1, <1>2 DEF Ahead

\* The garbage of a run becomes free, and none of it is ahead of the sweep.
LEMMA SweepRunKeeps ==
  ASSUME AllocInv, NEW w \in Workers, SweepRun(w)
  PROVE  AllocInv'
<1>1. /\ at[w].pc = "sweep" /\ Goto(w, "update")
      /\ allocated' = allocated \ Garbage(at[w].page)
      /\ freeList' = [freeList EXCEPT ![at[w].page] = @ \cup Garbage(at[w].page)]
      /\ UNCHANGED <<label, snapshot, freePages, mIdx, localRuns, freeLists, nonFullRuns, marked,
                     phase, taken, pending, runLocks>>
  BY DEF SweepRun, heap
<1> PICK p \in Page : p = at[w].page
  BY <1>1, SweepGoesOn
<1>2. /\ AtRun(w) /\ phase \in {"concurrent", "parallel"} /\ label[p] = "run"
      /\ phase = "concurrent" => ~IsLocal(p)
  BY <1>1, SweepGoesOn DEF AtRun
<1>3. GoesOn(w, "update")
  BY <1>1, GotoGoesOn DEF AllocInv, PC
<1>4. /\ AtTyped' /\ at'[w].pc = "update" /\ at'[w].page = p /\ at'[w].locked = at[w].locked
      /\ at'[w].wasFull = at[w].wasFull
      /\ \A v \in Workers : v # w => at'[v] = at[v]
  <2>1. at[w].wasFull \in BOOLEAN
    BY DEF AllocInv, AtTyped, Place
  <2> QED BY <1>3, <2>1 DEF GoesOn, Others
<1>5. freeList' \in [Page -> SUBSET Object] /\ freeList'[p] = freeList[p] \cup Garbage(p)
      /\ \A q \in Page : q # p => freeList'[q] = freeList[q]
  BY <1>1, <1>2, GarbageIs DEF AllocInv, HeapInOrder, TypeOK
<1>6. \A q \in Page : /\ IsLocal(q)' <=> IsLocal(q)
                      /\ Listed(q)' <=> Listed(q)
                      /\ Mine(q)' = Mine(q)
  BY <1>1 DEF IsLocal, Listed, Mine
<1>7. \A q \in Page : q # p => RunSame(q)
  BY <1>1, <1>5, <1>6 DEF RunSame
<1>8. AtRun(w)'
  <2>1. /\ IsLocal(at[w].page)' <=> IsLocal(p)'
        /\ Listed(at[w].page)' <=> Listed(p)'
    BY <1>4 DEF IsLocal, Listed
  <2> QED BY <1>1, <1>2, <1>4, <1>6, <2>1 DEF AtRun
<1>9. \A q \in Page, n \in LargeSizes : q + n <= LastPage + 1 /\ label[q] # "run" =>
        (Large(q, n) \in allocated' <=> Large(q, n) \in allocated)
  BY <1>1, <1>2, GarbageIs
<1>10. \A q \in Page, n \in LargeSizes : Stands(q, n)' <=> Stands(q, n)
  BY <1>1, <1>9 DEF Stands
<1>11. marked \subseteq allocated'
  BY <1>1 DEF Garbage, AllocInv, Phases
<1>12. /\ AtTyped' /\ Phases' /\ WorkersApart' /\ WorkersAtRuns' /\ SnapshotHolds'
       /\ (phase # "concurrent" => snapshot = None)'
  BY <1>1, <1>4, <1>7, <1>8, <1>10, <1>11, OthersKeep DEF Others
<1>13. \A v \in Workers : /\ Clearing(v)' <=> Clearing(v)
                          /\ Clearing(v) => at'[v] = at[v]
                          /\ GivenBack(v)' = GivenBack(v)
                          /\ at'[v].locked = at[v].locked
  BY <1>1, <1>4 DEF Clearing, GivenBack
<1>14. TypeOK'
  BY <1>1, <1>5 DEF AllocInv, HeapInOrder, TypeOK
<1>15. FreePagesAreOwned'
  BY <1>1, <1>13, OwnedFrame DEF AllocInv, HeapInOrder
<1>16. LocksAreHeld'
  BY <1>1, <1>13, LocksStay
<1>17. RunsInOnePlace'
  <2> SUFFICES ASSUME NEW q \in Page, label[q] = "run" PROVE RunInOnePlace(q)'
    BY <1>1 DEF RunsInOnePlace
  <2>1. CASE q = p
    <3>1. Swept(p)'
      BY <1>4 DEF Swept
    <3>2. \A o \in Slots(mIdx[p], p) : o \in allocated' <=> o \in allocated /\ o \notin Garbage(p)
      BY <1>1
    <3> QED BY <1>1, <1>2, <1>5, <2>1, <3>1, <3>2, SweptRunKeeps
  <2>2. CASE q # p
    <3>1. \A o \in Slots(mIdx[q], q) : o \in allocated' <=> o \in allocated
      BY <1>1, <1>2, <2>2, GarbageIs
    <3>2. Swept(q)' <=> Swept(q)
      BY <1>4, <2>2 DEF Swept
    <3> QED BY <1>1, <1>6, <1>7, <2>2, <3>1, <3>2, RunFacts, RunFrame DEF RunKept
  <2> QED BY <2>1, <2>2
<1>18. ListsHoldRuns'
  <2>1. UNCHANGED <<label, mIdx, localRuns, nonFullRuns>>
    BY <1>1
  <2> QED BY <2>1, ListsStay
<1>19. TakenTyped' /\ RunsHaveClass' /\ SlotsAreLocal'
  BY <1>1 DEF AllocInv, TakenTyped, RunsHaveClass, SlotsAreLocal
<1>20. LargeInv'
  BY <1>1, <1>9, <1>13, LargeFrame, TakenFrame DEF AllocInv, LargeInv, LargeCleared
<1>21. ObjectsArePlaced'
  BY <1>1, <1>10, PlacedFrame DEF AllocInv
<1>22. GarbageIsAhead'
  <2>1. Slots(mIdx[p], p) \cap (allocated' \ marked') = {}
    BY <1>1, <1>2, GarbageIs
  <2>2. ASSUME NEW q \in Page, q # p, Ahead(q, "run", {"lock", "sweep"})
        PROVE  Ahead(q, "run", {"lock", "sweep"})'
    BY <1>1, <1>4, <2>2, AheadStays DEF Others
  <2>3. ASSUME NEW q \in Page, NEW n \in LargeSizes, Stands(q, n),
               Ahead(q, "large", {"clear large", "large region"})
        PROVE  Ahead(q, "large", {"clear large", "large region"})'
    <3>1. q # p
      BY <1>2, <2>3 DEF Stands
    <3> QED BY <1>1, <1>4, <2>3, <3>1, AheadStays DEF Others
  <2>4. \A o \in allocated' \ marked' : o \in allocated \ marked
    BY <1>1
  <2> QED BY <1>1, <1>2, <1>10, <2>1, <2>2, <2>3, <2>4, GarbageFrame DEF AllocInv
<1> QED BY <1>12, <1>14, <1>15, <1>16, <1>17, <1>18, <1>19, <1>20, <1>21, <1>22, InvIs
        DEF HeapKept, SweepKept

\* A run that is empty, in no list and not local ends, and its page is the worker's to give
\* back.
LEMMA ClearRunPageKeeps ==
  ASSUME AllocInv, NEW w \in Workers, ClearRunPage(w)
  PROVE  AllocInv'
<1>1. /\ at[w].pc = "free" /\ Goto(w, "region")
      /\ label' = [label EXCEPT ![at[w].page] = "free"]
      /\ mIdx' = [mIdx EXCEPT ![at[w].page] = None]
      /\ freeList' = [freeList EXCEPT ![at[w].page] = {}]
      /\ UNCHANGED <<snapshot, freePages, localRuns, freeLists, nonFullRuns, allocated, marked,
                     phase, taken, pending, runLocks>>
  BY DEF ClearRunPage, objects
<1> PICK p \in Page : p = at[w].page
  BY <1>1, SweepGoesOn
<1>2. /\ AtRun(w) /\ phase \in {"concurrent", "parallel"} /\ label[p] = "run" /\ p \notin pending
      /\ ~IsLocal(p) /\ ~Listed(p) /\ IsEmpty(p)
  BY <1>1, SweepGoesOn DEF AtRun
<1>3. GoesOn(w, "region")
  BY <1>1, GotoGoesOn DEF AllocInv, PC
<1>4. /\ AtTyped' /\ at'[w].pc = "region" /\ at'[w].page = p /\ at'[w].locked = at[w].locked
      /\ \A v \in Workers : v # w => at'[v] = at[v]
  BY <1>3 DEF GoesOn, Others
<1>5. Slots(mIdx[p], p) \cap allocated = {}
  BY <1>2, RunFacts DEF RunInOnePlace, IsEmpty
<1>6. /\ label' \in [Page -> Label \ {"swept"}] /\ mIdx' \in [Page -> Class \cup {None}]
      /\ freeList' \in [Page -> SUBSET Object] /\ label'[p] = "free"
      /\ \A q \in Page : q # p => label'[q] = label[q] /\ mIdx'[q] = mIdx[q]
                                  /\ freeList'[q] = freeList[q]
  BY <1>1 DEF AllocInv, HeapInOrder, TypeOK, Label
<1>7. \A q \in Page : q # p => RunSame(q) /\ Mine(q)' = Mine(q)
  BY <1>1, <1>6 DEF RunSame, IsLocal, Listed, Mine
<1>8. AtRun(w)'
  BY <1>1, <1>2, <1>4 DEF AtRun
<1>9. \A v \in Workers : /\ Clearing(v)' <=> Clearing(v)
                         /\ Clearing(v) => at'[v] = at[v]
                         /\ v # w => GivenBack(v)' = GivenBack(v)
                         /\ at'[v].locked = at[v].locked
  BY <1>1, <1>4 DEF Clearing, GivenBack
<1>10. /\ \A q \in Page, n \in LargeSizes : Stands(q, n)' <=> Stands(q, n)
       /\ LargeInv' /\ ObjectsArePlaced'
  <2>1. \A v \in Workers : Clearing(v) => LargeAt(at[v].page) \cap marked' = {}
    BY <1>1 DEF AllocInv, LargeInv, LargeCleared
  <2>2. \A q \in Page : q \notin {p} => label'[q] = label[q] /\ mIdx'[q] = mIdx[q]
    BY <1>6
  <2>3. \A q \in {p} : label[q] = "run" /\ label'[q] = "free" /\ Slots(mIdx[q], q) \cap allocated = {}
    BY <1>2, <1>5, <1>6
  <2>4. {p} \in SUBSET Page /\ allocated' = allocated /\ taken' = taken
    BY <1>1
  <2> QED BY <1>9, <2>1, <2>2, <2>3, <2>4, RunsEnd
<1>11. /\ AtTyped' /\ Phases' /\ WorkersApart' /\ WorkersAtRuns' /\ SnapshotHolds'
       /\ (phase # "concurrent" => snapshot = None)'
  <2>1. marked \subseteq allocated'
    BY <1>1 DEF AllocInv, Phases
  <2> QED BY <1>1, <1>4, <1>7, <1>8, <1>10, <2>1, OthersKeep DEF Others
<1>12. TypeOK'
  BY <1>1, <1>6 DEF AllocInv, HeapInOrder, TypeOK
<1>13. LocksAreHeld'
  BY <1>1, <1>9, LocksStay
<1>14. FreePagesAreOwned'
  <2>1. TakenPages' = TakenPages /\ \A x \in Page : NotLabelled(x)' <=> NotLabelled(x)
    BY <1>1 DEF TakenPages, NotLabelled
  <2>2. p \notin TakenPages
    <3>1. taken = NoPages => TakenPages = {}
      BY DEF TakenPages
    <3> QED BY <1>2, <3>1, TakenIs
  <2>3. PageIsOwned(p) /\ p \notin freePages /\ ~Given(p)
    BY <1>2 DEF AllocInv, HeapInOrder, FreePagesAreOwned, PageIsOwned
  <2>4. GivenBack(w)' = {p} /\ GivenBack(w) = {}
    BY <1>1, <1>4 DEF GivenBack
  <2>5. \A x \in Page : Given(x)' <=> Given(x) \/ x = p
    BY <1>9, <2>4 DEF Given
  <2>6. PageIsOwned(p)'
    BY <1>1, <1>6, <2>1, <2>2, <2>3, <2>5 DEF PageIsOwned
  <2>7. \A x \in Page : x # p /\ PageIsOwned(x) => PageIsOwned(x)'
    BY <1>1, <1>6, <2>1, <2>5 DEF PageIsOwned
  <2>8. ASSUME NEW v \in Workers, NEW u \in Workers, v # u
        PROVE  GivenBack(v)' \cap GivenBack(u)' = {}
    <3>1. GivenBack(v) \cap GivenBack(u) = {}
      BY <2>8 DEF AllocInv, HeapInOrder, FreePagesAreOwned
    <3>2. p \notin GivenBack(v) /\ p \notin GivenBack(u)
      BY <2>3 DEF Given
    <3> QED BY <1>9, <2>4, <2>8, <3>1, <3>2
  <2> QED BY <2>6, <2>7, <2>8 DEF AllocInv, HeapInOrder, FreePagesAreOwned
<1>15. RunsInOnePlace'
  <2> SUFFICES ASSUME NEW q \in Page, label'[q] = "run" PROVE RunInOnePlace(q)'
    BY DEF RunsInOnePlace
  <2>1. q # p /\ label[q] = "run"
    BY <1>6
  <2>2. Swept(q)' <=> Swept(q)
    BY <1>4, <2>1 DEF Swept
  <2> QED BY <1>1, <1>7, <2>1, <2>2, RunFacts, RunFrame DEF RunKept
<1>16. ListsHoldRuns'
  <2>1. UNCHANGED <<localRuns, nonFullRuns>>
    BY <1>1
  <2>2. \A q \in Page : label[q] = "run" /\ (IsLocal(q) \/ Listed(q)) =>
          label'[q] = "run" /\ mIdx'[q] = mIdx[q]
    BY <1>2, <1>6
  <2> QED BY <2>1, <2>2, ListsStay
<1>17. RunsHaveClass' /\ SlotsAreLocal'
  BY <1>1, <1>6 DEF AllocInv, RunsHaveClass, SlotsAreLocal
<1>18. TakenTyped'
  <2>1. taken = NoPages => taken.for # "large rem"
    BY DEF NoPages
  <2>2. taken.for = "large rem" => taken.page # p
    BY <1>2, <2>1, TakenIs
  <2> QED BY <1>1, <1>6, <2>2 DEF AllocInv, TakenTyped
<1>19. GarbageIsAhead'
  <2>1. Slots(mIdx[p], p) \cap (allocated' \ marked') = {}
    BY <1>1, <1>5
  <2>2. ASSUME NEW q \in Page, q # p, NEW kind, NEW pcs, Ahead(q, kind, pcs)
        PROVE  Ahead(q, kind, pcs)'
    BY <1>1, <1>4, <1>6, <2>2, AheadStays DEF Others
  <2>3. \A q \in Page, n \in LargeSizes : Stands(q, n) => q # p
    BY <1>2 DEF Stands
  <2>4. \A o \in allocated' \ marked' : o \in allocated \ marked
    BY <1>1
  <2> QED BY <1>2, <1>6, <1>10, <2>1, <2>2, <2>3, <2>4, GarbageFrame DEF AllocInv
<1> QED BY <1>10, <1>11, <1>12, <1>13, <1>14, <1>15, <1>16, <1>17, <1>18, <1>19, InvIs
        DEF HeapKept, SweepKept

\* The page of a run that has ended is put into the tree.
LEMMA FreeRunRegionKeeps ==
  ASSUME AllocInv, NEW w \in Workers, FreeRunRegion(w)
  PROVE  AllocInv'
<1>1. /\ at[w].pc = "region"
      /\ freePages' = freePages \cup {at[w].page}
      /\ IF at[w].locked # None THEN Goto(w, "unlock") ELSE Finish(w)
      /\ UNCHANGED <<label, snapshot, allocated, marked, phase, taken, pending, runLocks>>
      /\ UNCHANGED <<mIdx, freeList, localRuns, freeLists, nonFullRuns>>
  BY DEF FreeRunRegion, runs, objects
<1> PICK p \in Page : p = at[w].page
  BY <1>1, SweepGoesOn
<1>2. /\ GivenBack(w) = {p} /\ Given(p) /\ p \notin freePages /\ p \notin TakenPages
      /\ label[p] = "free" /\ p \notin pending
  <2>1. GivenBack(w) = {p}
    BY <1>1 DEF GivenBack
  <2>2. Given(p)
    BY <2>1 DEF Given
  <2>3. PageIsOwned(p)
    BY DEF AllocInv, HeapInOrder, FreePagesAreOwned
  <2> QED BY <1>1, <2>1, <2>2, <2>3, SweepGoesOn DEF PageIsOwned
<1>3. /\ AtTyped' /\ Others(w) /\ AtRun(w)' /\ at'[w].pc \in {"unlock", "idle"}
      /\ at'[w].page \in {None, p} /\ at'[w].locked = at[w].locked
  <2>1. CASE at[w].locked # None
    <3>1. GoesOn(w, "unlock")
      BY <1>1, <2>1, GotoGoesOn DEF AllocInv, PC
    <3>2. AtRun(w)
      BY <1>1, SweepGoesOn
    <3>3. at[w].locked # None => phase' = "concurrent"
      BY <1>1, <3>2 DEF AtRun
    <3>4. AtTyped' /\ Others(w) /\ at'[w].pc = "unlock" /\ at'[w].page = p /\ at'[w].locked = at[w].locked
      BY <3>1 DEF GoesOn
    <3>5. AtRun(w)'
      BY <2>1, <3>3, <3>4 DEF AtRun
    <3> QED BY <3>4, <3>5
  <2>2. CASE at[w].locked = None
    <3>1. Ends(w)
      BY <1>1, <2>2, FinishEnds DEF AllocInv
    <3> QED BY <2>2, <3>1, EndsIs, IdleIs DEF Ends
  <2> QED BY <2>1, <2>2
<1>4. \A v \in Workers : v # w => at'[v] = at[v]
  BY <1>3 DEF Others
<1>5. \A v \in Workers : /\ Clearing(v)' <=> Clearing(v)
                         /\ Clearing(v) => at'[v] = at[v]
                         /\ v # w => GivenBack(v)' = GivenBack(v)
                         /\ at'[v].locked = at[v].locked
  BY <1>1, <1>3, <1>4 DEF Clearing, GivenBack
<1>6. \A q \in Page : /\ RunSame(q) /\ Mine(q)' = Mine(q)
                      /\ \A o \in Slots(mIdx[q], q) : o \in allocated' <=> o \in allocated
  BY <1>1 DEF RunSame, IsLocal, Listed, Mine
<1>7. \A q \in Page, n \in LargeSizes : Stands(q, n)' <=> Stands(q, n)
  BY <1>1 DEF Stands
<1>8. /\ AtTyped' /\ Phases' /\ WorkersApart' /\ WorkersAtRuns' /\ SnapshotHolds'
      /\ (phase # "concurrent" => snapshot = None)'
  <2>1. marked \subseteq allocated'
    BY <1>1 DEF AllocInv, Phases
  <2> QED BY <1>1, <1>3, <1>6, <1>7, <2>1, OthersKeep
<1>9. TypeOK'
  BY <1>1 DEF AllocInv, HeapInOrder, TypeOK
<1>10. LocksAreHeld'
  BY <1>1, <1>5, LocksStay
<1>11. FreePagesAreOwned'
  <2>1. TakenPages' = TakenPages /\ \A x \in Page : NotLabelled(x)' <=> NotLabelled(x)
    BY <1>1 DEF TakenPages, NotLabelled
  <2>2. GivenBack(w)' = {}
    BY <1>3 DEF GivenBack
  <2>3. \A v \in Workers : v # w => p \notin GivenBack(v)
    BY <1>2 DEF AllocInv, HeapInOrder, FreePagesAreOwned
  <2>4. \A x \in Page : Given(x)' <=> Given(x) /\ x # p
    BY <1>2, <1>5, <2>2, <2>3 DEF Given
  <2>5. \A x \in Page : PageIsOwned(x) => PageIsOwned(x)'
    BY <1>1, <1>2, <2>1, <2>4 DEF PageIsOwned
  <2>6. ASSUME NEW v \in Workers, NEW u \in Workers, v # u
        PROVE  GivenBack(v)' \cap GivenBack(u)' = {}
    BY <1>5, <2>2, <2>6 DEF AllocInv, HeapInOrder, FreePagesAreOwned
  <2> QED BY <2>5, <2>6 DEF AllocInv, HeapInOrder, FreePagesAreOwned
<1>12. RunsInOnePlace'
  <2> SUFFICES ASSUME NEW q \in Page, label[q] = "run" PROVE RunInOnePlace(q)'
    BY <1>1 DEF RunsInOnePlace
  <2>1. q # p /\ q # None
    BY <1>2, RunListAssumption
  <2>2. Swept(q)' <=> Swept(q)
    BY <1>3, <1>4, <2>1 DEF Swept
  <2> QED BY <1>1, <1>6, <2>2, RunFacts, RunFrame DEF RunKept
<1>13. ListsHoldRuns'
  BY <1>1, ListsStay
<1>14. TakenTyped' /\ RunsHaveClass' /\ SlotsAreLocal'
  BY <1>1 DEF AllocInv, TakenTyped, RunsHaveClass, SlotsAreLocal
<1>15. LargeInv'
  BY <1>1, <1>5, <1>8, LargeFrame, TakenFrame DEF AllocInv, LargeInv, LargeCleared
<1>16. ObjectsArePlaced'
  BY <1>1, <1>7, PlacedFrame DEF AllocInv
<1>17. GarbageIsAhead'
  <2>1. ASSUME NEW q \in Page, q # p, NEW kind, NEW pcs, Ahead(q, kind, pcs)
        PROVE  Ahead(q, kind, pcs)'
    BY <1>1, <1>3, <2>1, AheadStays
  <2>2. \A q : q = p => (\A v \in Workers : at[v].page = q => v = w)
    BY <1>1, PagesDiffer
  <2>3. ~Ahead(p, "large", {"clear large", "large region"})
    BY <1>1, <1>2, <2>2 DEF Ahead
  <2>4. \A o \in allocated' \ marked' : o \in allocated \ marked
    BY <1>1
  <2>5. phase \in {"concurrent", "parallel"}
    BY <1>1, SweepGoesOn
  <2> QED BY <1>1, <1>2, <1>7, <2>1, <2>3, <2>4, <2>5, GarbageFrame DEF AllocInv
<1> QED BY <1>8, <1>9, <1>10, <1>11, <1>12, <1>13, <1>14, <1>15, <1>16, <1>17, InvIs
        DEF HeapKept, SweepKept

\* The first k pages of a large object.
LEMMA CountIs ==
  ASSUME NEW p \in Page, NEW n \in LargeSizes, p + n <= LastPage + 1, NEW k \in Nat, k <= n
  PROVE  /\ k < n => p + k \in PagesFrom(p, n)
         /\ k # n => k < n /\ k + 1 \in Nat /\ k + 1 <= n
         /\ k = 0 => k # n
         /\ p + k = p => k = 0
         /\ ~(p + k < p + k)
         /\ PagesFrom(p, k) \subseteq PagesFrom(p, n)
         /\ \A x \in PagesFrom(p, n) : x \in Page /\ (x < p + (k + 1) <=> x < p + k \/ x = p + k)
         /\ \A q \in Page, m \in LargeSizes : p + n \in PagesFrom(q, m) /\ p + n # q =>
              p + (n - 1) \in PagesFrom(q, m) /\ (p # q \/ n # m)
<1>1. /\ LastPage \in Nat /\ Page = 1..LastPage /\ p \in Nat /\ p >= 1 /\ n \in Nat /\ n >= 1
      /\ \A x \in Page : x \in Nat
      /\ \A m \in LargeSizes : m \in Nat
  BY PagesAre
<1>2. k < n => p + k \in PagesFrom(p, n)
  <2> SUFFICES ASSUME k < n PROVE p + k \in Page /\ p <= p + k /\ p + k < p + n
    BY DEF PagesFrom
  <2> QED BY <1>1
<1>3. /\ k # n => k < n /\ k + 1 \in Nat /\ k + 1 <= n
      /\ k = 0 => k # n
      /\ p + k = p => k = 0
      /\ ~(p + k < p + k)
  BY <1>1
<1>4. ASSUME NEW x \in PagesFrom(p, k) PROVE x \in PagesFrom(p, n)
  <2>1. x \in Page /\ x \in Nat /\ p <= x /\ x < p + k
    BY <1>1 DEF PagesFrom
  <2>2. x < p + n
    BY <1>1, <2>1
  <2> QED BY <2>1, <2>2 DEF PagesFrom
<1>5. ASSUME NEW x \in PagesFrom(p, n)
      PROVE  x \in Page /\ (x < p + (k + 1) <=> x < p + k \/ x = p + k)
  <2>1. x \in Page /\ x \in Nat
    BY <1>1 DEF PagesFrom
  <2> QED BY <1>1, <2>1
<1>6. ASSUME NEW q \in Page, NEW m \in LargeSizes, p + n \in PagesFrom(q, m), p + n # q
      PROVE  p + (n - 1) \in PagesFrom(q, m) /\ (p # q \/ n # m)
  <2>1. q \in Nat /\ m \in Nat /\ q <= p + n /\ p + n < q + m
    BY <1>1, <1>6 DEF PagesFrom
  <2>2. q <= p + (n - 1) /\ p + (n - 1) < q + m /\ p + (n - 1) \in Page /\ (p # q \/ n # m)
    BY <1>1, <1>6, <2>1
  <2> QED BY <2>2 DEF PagesFrom
<1> QED BY <1>2, <1>3, <1>4, <1>5, <1>6

\* What a worker that clears a large object knows about it.
LEMMA ClearingIs ==
  ASSUME AllocInv, NEW w \in Workers, Clearing(w)
  PROVE  /\ at[w].page \in Page /\ at[w].cleared \in Nat /\ at[w].locked = None
         /\ LargeAt(at[w].page) \cap marked = {}
         /\ GivenBack(w) = PagesFrom(at[w].page, at[w].cleared)
         /\ \E n \in LargeSizes :
              /\ Stands(at[w].page, n) /\ Labelled(at[w].page, n, at[w].cleared)
              /\ at[w].cleared <= n /\ (at[w].pc = "large region" => at[w].cleared = n)
<1>1. at[w].page \in Page /\ at[w].cleared \in Nat
  BY DEF AllocInv, AtTyped, Place, Clearing
<1>2. GivenBack(w) = PagesFrom(at[w].page, at[w].cleared)
  BY DEF GivenBack, Clearing
<1> QED BY <1>1, <1>2 DEF AllocInv, LargeInv, LargeCleared

\* The pages of the object that stand at p are no other's.
LEMMA ClearedApart ==
  ASSUME AllocInv, NEW w \in Workers, Clearing(w), NEW p \in Page, p = at[w].page,
         NEW n \in LargeSizes, Stands(p, n), Labelled(p, n, at[w].cleared)
  PROVE  /\ \A v \in Workers : v # w => GivenBack(v) \cap PagesFrom(p, n) = {}
         /\ \A q \in Page, m \in LargeSizes :
              Stands(q, m) /\ q # p => PagesFrom(q, m) \cap PagesFrom(p, n) = {}
         /\ \A v \in Workers : v # w => at[v].page # p
         /\ p \notin pending
<1>1. ASSUME NEW v \in Workers, v # w, NEW x \in PagesFrom(p, n) PROVE x \notin GivenBack(v)
  <2>1. x \in Page
    BY DEF PagesFrom
  <2>2. CASE x < p + at[w].cleared
    <3>1. x \in GivenBack(w)
      BY <2>1, <2>2, ClearingIs DEF PagesFrom
    <3> QED BY <1>1, <3>1 DEF AllocInv, HeapInOrder, FreePagesAreOwned
  <2>3. CASE ~(x < p + at[w].cleared)
    <3>1. label[x] # "free"
      BY <2>3 DEF Labelled
    <3> QED BY <2>1, <3>1 DEF AllocInv, HeapInOrder, FreePagesAreOwned, PageIsOwned, Given
  <2> QED BY <2>2, <2>3
<1>2. ASSUME NEW q \in Page, NEW m \in LargeSizes, Stands(q, m), q # p
      PROVE  PagesFrom(q, m) \cap PagesFrom(p, n) = {}
  BY <1>2 DEF AllocInv, LargeInv, LargeApart
<1>3. at[w].pc # "idle"
  BY DEF Clearing
<1> QED BY <1>1, <1>2, <1>3, PagesDiffer, SweepGoesOn

Relabels(p, n) ==
  /\ label' \in [Page -> Label \ {"swept"}]
  /\ \A x \in Page : x \notin PagesFrom(p, n) => label'[x] = label[x]
ClearsTo(w, p, n, j) ==
  /\ Relabels(p, n) /\ Labelled(p, n, j)' /\ j <= n
  /\ AtTyped' /\ Others(w)
  /\ at'[w].page = p /\ at'[w].cleared = j /\ at'[w].locked = at[w].locked
  /\ at'[w].pc = "clear large" \/ (at'[w].pc = "large region" /\ j = n)

\* The labels of the object at p are cleared, up to the one before p + j.
LEMMA ClearingKeeps ==
  ASSUME AllocInv, NEW w \in Workers, Clearing(w), NEW p \in Page, p = at[w].page,
         NEW n \in LargeSizes, Stands(p, n), Labelled(p, n, at[w].cleared), at[w].cleared <= n,
         NEW j \in Nat, ClearsTo(w, p, n, j),
         UNCHANGED <<snapshot, freePages, mIdx, freeList, localRuns, freeLists, nonFullRuns,
                     allocated, marked, phase, taken, pending, runLocks>>
  PROVE  AllocInv'
<1> PICK k \in Nat : k = at[w].cleared
  BY ClearingIs
<1>0. /\ label' \in [Page -> Label \ {"swept"}]
      /\ \A x \in Page : x \notin PagesFrom(p, n) => label'[x] = label[x]
      /\ Labelled(p, n, j)' /\ j <= n /\ AtTyped' /\ Others(w)
      /\ at'[w].page = p /\ at'[w].cleared = j /\ at'[w].locked = at[w].locked
      /\ at'[w].pc = "clear large" \/ (at'[w].pc = "large region" /\ j = n)
  BY DEF Relabels, ClearsTo
<1>1. /\ Labelled(p, n, k) /\ k <= n /\ GivenBack(w) = PagesFrom(p, k)
      /\ LargeAt(p) \cap marked = {} /\ at[w].locked = None
  BY ClearingIs
<1>2. /\ \A v \in Workers : v # w => GivenBack(v) \cap PagesFrom(p, n) = {}
      /\ \A q \in Page, m \in LargeSizes :
           Stands(q, m) /\ q # p => PagesFrom(q, m) \cap PagesFrom(p, n) = {}
      /\ \A v \in Workers : v # w => at[v].page # p
      /\ p \notin pending
  BY ClearedApart
<1>3. \A v \in Workers : v # w => at'[v] = at[v]
  BY <1>0 DEF Others
<1>4. Clearing(w)' /\ GivenBack(w)' = PagesFrom(p, j)
  BY <1>0 DEF Clearing, GivenBack
<1>5. \A v \in Workers : /\ Clearing(v)' <=> Clearing(v)
                         /\ v # w => GivenBack(v)' = GivenBack(v)
                         /\ at'[v].page = at[v].page /\ at'[v].locked = at[v].locked
  BY <1>0, <1>3, <1>4 DEF Clearing, GivenBack
<1>6. /\ p \in PagesFrom(p, n) /\ p \in Nat /\ n \in Nat
      /\ \A x \in PagesFrom(p, n) : x \in Page /\ x \in Nat /\ p <= x /\ x < p + n
  BY LargeIs, PagesAre DEF Stands
<1>7. ASSUME NEW x \in PagesFrom(p, n)
      PROVE  /\ label'[x] = IF x < p + j THEN "free" ELSE IF x = p THEN "large" ELSE "large rem"
             /\ label[x] = IF x < p + k THEN "free" ELSE IF x = p THEN "large" ELSE "large rem"
             /\ x \notin TakenPages /\ x \notin freePages
  BY <1>0, <1>1, <1>7, StandsApart DEF Labelled
<1>8. /\ \A q \in Page : label'[q] = "run" <=> label[q] = "run"
      /\ \A q \in Page : q # p /\ label[q] = "large" => label'[q] = "large"
  BY <1>0, <1>7
<1>9. \A q \in Page, m \in LargeSizes : Stands(q, m)' <=> Stands(q, m)
  BY <1>8 DEF Stands
<1>10. \A q \in Page : label[q] = "run" => RunSame(q) /\ Mine(q)' = Mine(q)
  BY <1>8 DEF RunSame, IsLocal, Listed, Mine
<1>11. AtRun(w)'
  BY <1>0, <1>1 DEF AtRun
<1>12. /\ AtTyped' /\ Phases' /\ WorkersApart' /\ WorkersAtRuns' /\ SnapshotHolds'
       /\ (phase # "concurrent" => snapshot = None)'
  <2>1. marked \subseteq allocated' /\ at[w].pc # "idle"
    BY DEF AllocInv, Phases, Clearing
  <2> QED BY <1>0, <1>9, <1>10, <1>11, <2>1, OthersKeep
<1>13. TypeOK' /\ LocksAreHeld'
  BY <1>0, <1>5, LocksStay DEF AllocInv, HeapInOrder, TypeOK
<1>14. FreePagesAreOwned'
  <2>1. TakenPages' = TakenPages /\ \A x \in Page : NotLabelled(x)' <=> NotLabelled(x)
    BY DEF TakenPages, NotLabelled
  <2>2. GivenBack(w) \subseteq PagesFrom(p, n) /\ GivenBack(w)' \subseteq PagesFrom(p, n)
    <3>1. p + n <= LastPage + 1
      BY DEF Stands
    <3>2. \A i \in Nat : i <= n => PagesFrom(p, i) \subseteq PagesFrom(p, n)
      BY <3>1, CountIs
    <3> QED BY <1>0, <1>1, <1>4, <3>2
  <2>3. ASSUME NEW x \in Page, x \notin PagesFrom(p, n) PROVE PageIsOwned(x)'
    <3>1. Given(x)' <=> Given(x)
      BY <1>5, <2>2, <2>3 DEF Given
    <3>2. PageIsOwned(x)
      BY DEF AllocInv, HeapInOrder, FreePagesAreOwned
    <3> QED BY <1>0, <2>1, <2>3, <3>1, <3>2 DEF PageIsOwned
  <2>4. ASSUME NEW x \in PagesFrom(p, n) PROVE PageIsOwned(x)'
    <3>1. \A v \in Workers : v # w => x \notin GivenBack(v)'
      BY <1>2, <1>5
    <3>2. Given(x)' <=> x \in GivenBack(w)'
      BY <3>1 DEF Given
    <3>3. x \in GivenBack(w)' <=> x < p + j
      BY <1>4, <1>6, <2>4 DEF PagesFrom
    <3>4. label'[x] = "free" <=> x < p + j
      BY <1>7, <2>4
    <3>5. x \notin TakenPages' /\ x \notin freePages'
      BY <1>7, <2>1, <2>4
    <3> QED BY <3>2, <3>3, <3>4, <3>5 DEF PageIsOwned, NotLabelled
  <2>5. ASSUME NEW v \in Workers, NEW u \in Workers, v # u
        PROVE  GivenBack(v)' \cap GivenBack(u)' = {}
    <3>1. CASE v # w /\ u # w
      BY <1>5, <2>5, <3>1 DEF AllocInv, HeapInOrder, FreePagesAreOwned
    <3>2. CASE v = w
      BY <1>2, <1>5, <2>2, <2>5, <3>2
    <3>3. CASE u = w
      BY <1>2, <1>5, <2>2, <2>5, <3>3
    <3> QED BY <3>1, <3>2, <3>3
  <2> QED BY <2>3, <2>4, <2>5 DEF FreePagesAreOwned
<1>15. RunsInOnePlace'
  <2> SUFFICES ASSUME NEW q \in Page, label'[q] = "run" PROVE RunInOnePlace(q)'
    BY DEF RunsInOnePlace
  <2>1. label[q] = "run" /\ q # p
    BY <1>6, <1>7, <1>8
  <2>2. Swept(q)' <=> Swept(q)
    BY <1>0, <1>3, <2>1 DEF Swept
  <2> QED BY <1>10, <2>1, <2>2, RunFacts, RunFrame DEF RunKept
<1>16. ListsHoldRuns'
  BY <1>8, ListsStay
<1>17. RunsHaveClass' /\ SlotsAreLocal'
  BY <1>8 DEF AllocInv, RunsHaveClass, SlotsAreLocal
<1>18. TakenTyped'
  <2>1. taken = NoPages => taken.for # "large rem"
    BY NothingIs
  <2>2. taken.for = "large rem" => taken.page \in Page /\ taken.page \notin PagesFrom(p, n)
    BY <1>7, <2>1, TakenIs
  <2> QED BY <1>0, <2>2 DEF AllocInv, TakenTyped
<1>19. LargeApart' /\ LargeNotTaken'
  <2>1. TakenPages' = TakenPages
    BY DEF TakenPages
  <2> QED BY <1>9, <2>1 DEF AllocInv, LargeInv, LargeApart, LargeNotTaken
<1>20. ASSUME NEW q \in Page, NEW m \in LargeSizes, Stands(q, m), q # p, NEW i, Labelled(q, m, i)
       PROVE  Labelled(q, m, i)'
  <2>1. \A x \in PagesFrom(q, m) : x \in Page /\ label'[x] = label[x]
    BY <1>0, <1>2, <1>20 DEF PagesFrom
  <2> QED BY <1>20, <2>1 DEF Labelled
<1>21. LargeLabelled'
  <2> SUFFICES ASSUME NEW q \in Page, NEW m \in LargeSizes, Stands(q, m)',
                      \A v \in Workers : Clearing(v)' => at'[v].page # q
               PROVE  Labelled(q, m, 0)'
    BY DEF LargeLabelled
  <2>1. q # p /\ Stands(q, m) /\ \A v \in Workers : Clearing(v) => at[v].page # q
    BY <1>0, <1>4, <1>5, <1>9
  <2>2. Labelled(q, m, 0)
    BY <2>1 DEF AllocInv, LargeInv, LargeLabelled
  <2> QED BY <1>20, <2>1, <2>2
<1>22. LargeCleared'
  <2> SUFFICES ASSUME NEW v \in Workers, Clearing(v)'
               PROVE  /\ LargeAt(at'[v].page) \cap marked = {} /\ at'[v].locked = None
                      /\ \E m \in LargeSizes :
                           /\ Stands(at[v].page, m)' /\ Labelled(at[v].page, m, at[v].cleared)'
                           /\ at'[v].cleared <= m /\ (at'[v].pc = "large region" => at'[v].cleared = m)
    BY DEF LargeCleared
  <2>1. CASE v = w
    <3>1. Stands(p, n)'
      BY <1>9
    <3>2. Stands(at[w].page, n)'
      BY <1>0, <3>1 DEF Stands
    <3>3. Labelled(at[w].page, n, at[w].cleared)'
      BY <1>0 DEF Labelled
    <3> QED BY <1>0, <1>1, <2>1, <3>2, <3>3
  <2>2. CASE v # w
    <3>1. Clearing(v) /\ at'[v] = at[v]
      BY <1>3, <1>5, <2>2
    <3> PICK q \in Page : q = at[v].page
      BY <3>1, ClearingIs
    <3> PICK i : i = at[v].cleared
      OBVIOUS
    <3>2. PICK m \in LargeSizes : /\ Stands(q, m) /\ Labelled(q, m, i)
                                  /\ i <= m /\ (at[v].pc = "large region" => i = m)
      BY <3>1, ClearingIs
    <3>3. q # p
      BY <1>2, <2>2
    <3>4. Stands(q, m)' /\ Labelled(q, m, i)'
      BY <1>9, <1>20, <3>2, <3>3
    <3>5. Stands(at[v].page, m)' /\ Labelled(at[v].page, m, at[v].cleared)'
      BY <3>1, <3>4 DEF Stands, Labelled
    <3> QED BY <3>1, <3>2, <3>5, ClearingIs
  <2> QED BY <2>1, <2>2
<1>23. LabelsStand'
  <2>0. LabelsStand
    BY DEF AllocInv, LargeInv
  <2>1. ASSUME NEW x \in Page, label'[x] = "large rem"
        PROVE  \E q \in Page, m \in LargeSizes : Stands(q, m)' /\ x \in PagesFrom(q, m) /\ x # q
    <3>1. CASE x \in PagesFrom(p, n)
      <4>1. x # p
        BY <1>7, <2>1, <3>1
      <4> QED BY <1>9, <3>1, <4>1
    <3>2. CASE x \notin PagesFrom(p, n)
      <4>1. label[x] = "large rem"
        BY <1>0, <2>1, <3>2
      <4>2. PICK q \in Page, m \in LargeSizes : Stands(q, m) /\ x \in PagesFrom(q, m) /\ x # q
        BY <2>0, <4>1 DEF LabelsStand
      <4> QED BY <1>9, <4>2
    <3> QED BY <3>1, <3>2
  <2>2. ASSUME NEW x \in Page, label'[x] = "large"
        PROVE  (\E m \in LargeSizes : Stands(x, m)') \/ (taken.for = "large rem" /\ taken.page = x)
    <3>1. CASE x \in PagesFrom(p, n)
      <4>1. x = p
        BY <1>7, <2>2, <3>1
      <4> QED BY <1>9, <4>1
    <3>2. CASE x \notin PagesFrom(p, n)
      BY <1>0, <1>9, <2>0, <2>2, <3>2 DEF LabelsStand
    <3> QED BY <3>1, <3>2
  <2> QED BY <2>1, <2>2 DEF LabelsStand
<1>24. ObjectsArePlaced'
  BY <1>8, <1>9, PlacedFrame DEF AllocInv
<1>25. GarbageIsAhead'
  <2>1. ASSUME NEW q \in Page, q # p, NEW kind \in {"run", "large"}, NEW pcs, Ahead(q, kind, pcs)
        PROVE  Ahead(q, kind, pcs)'
    <3>1. label[q] = kind => label'[q] = kind
      BY <1>8, <2>1
    <3> QED BY <1>0, <2>1, <3>1, AheadStays
  <2>2. Ahead(p, "large", {"clear large", "large region"})'
    BY <1>0 DEF Ahead
  <2>3. label[p] # "run" /\ phase \in {"concurrent", "parallel"}
    BY SweepGoesOn DEF Stands, Clearing
  <2> QED BY <1>8, <1>9, <2>1, <2>2, <2>3, GarbageFrame DEF AllocInv
<1> QED BY <1>12, <1>13, <1>14, <1>15, <1>16, <1>17, <1>18, <1>19, <1>21, <1>22, <1>23, <1>24,
        <1>25, InvIs DEF HeapKept, SweepKept, LargeInv

\* The number of pages that a worker has cleared changes.
LEMMA CountGoesOn ==
  ASSUME AtTyped, NEW w \in Workers, at[w].pc # "idle", NEW j \in Nat,
         at' = [at EXCEPT ![w].cleared = j]
  PROVE  /\ AtTyped' /\ Others(w) /\ at'[w].pc = at[w].pc /\ at'[w].page = at[w].page
         /\ at'[w].locked = at[w].locked /\ at'[w].cleared = j
<1>1. PICK a \in Place : a = at[w]
  BY DEF AtTyped
<1>2. [a EXCEPT !.cleared = j]
        = [pc |-> a.pc, page |-> a.page, wasFull |-> a.wasFull, locked |-> a.locked, cleared |-> j]
  BY <1>1 DEF Place
<1>3. PICK b \in Place :
        b = [pc |-> a.pc, page |-> a.page, wasFull |-> a.wasFull, locked |-> a.locked, cleared |-> j]
  BY <1>1 DEF Place
<1>4. at' = [at EXCEPT ![w] = b]
  BY <1>1, <1>2, <1>3 DEF AtTyped
<1>5. b.page \in Page /\ b.pc # "idle"
  BY <1>1, <1>3 DEF AtTyped
<1>6. AtTyped' /\ Others(w) /\ at'[w] = b
  BY <1>4, <1>5, MovesTo
<1> QED BY <1>1, <1>3, <1>6

\* The labels of a dead large object are cleared one after the other, and no further than it
\* goes.
LEMMA ClearLargePageKeeps ==
  ASSUME AllocInv, NEW w \in Workers, ClearLargePage(w)
  PROVE  AllocInv'
<1> PICK k : k = at[w].cleared
  OBVIOUS
<1>1. /\ at[w].pc = "clear large"
      /\ UNCHANGED <<snapshot, freePages, mIdx, freeList, localRuns, freeLists, nonFullRuns,
                     allocated, marked, phase, taken, pending, runLocks>>
  BY DEF ClearLargePage, runs, objects
<1>2. Clearing(w) /\ at[w].pc # "idle"
  BY <1>1 DEF Clearing
<1> PICK p \in Page : p = at[w].page
  BY <1>2, ClearingIs
<1>3. PICK n \in LargeSizes : Stands(p, n) /\ Labelled(p, n, k) /\ k <= n /\ k \in Nat
  BY <1>2, ClearingIs
<1>4. /\ k < n => p + k \in PagesFrom(p, n)
      /\ k # n => k < n /\ k + 1 \in Nat /\ k + 1 <= n
      /\ k = 0 => k # n
      /\ p + k = p => k = 0
      /\ ~(p + k < p + k)
      /\ \A x \in PagesFrom(p, n) : x \in Page /\ (x < p + (k + 1) <=> x < p + k \/ x = p + k)
      /\ \A q \in Page, m \in LargeSizes : p + n \in PagesFrom(q, m) /\ p + n # q =>
           p + (n - 1) \in PagesFrom(q, m) /\ (p # q \/ n # m)
      /\ p + (n - 1) \in PagesFrom(p, n)
  BY <1>3, CountIs, LargeIs DEF Stands
<1>6. CASE k = 0 \/ (p + k \in Page /\ label[p + k] = "large rem")
  <2>1. /\ label' = [label EXCEPT ![p + k] = "free"]
        /\ at' = [at EXCEPT ![w].cleared = k + 1]
    BY <1>6 DEF ClearLargePage
  <2>2. k < n
    <3> SUFFICES ASSUME k = n, p + k \in Page, label[p + k] = "large rem" PROVE FALSE
      BY <1>4, <1>6
    <3>1. PICK q \in Page, m \in LargeSizes :
            Stands(q, m) /\ p + k \in PagesFrom(q, m) /\ p + k # q
      BY DEF AllocInv, LargeInv, LabelsStand
    <3>2. p + (n - 1) \in PagesFrom(q, m) /\ (p # q \/ n # m)
      BY <1>4, <3>1
    <3>3. PagesFrom(p, n) \cap PagesFrom(q, m) # {}
      BY <1>4, <3>2
    <3> QED BY <1>3, <3>1, <3>2, <3>3 DEF AllocInv, LargeInv, LargeApart
  <2>3. p + k \in PagesFrom(p, n) /\ p + k \in Page
    BY <1>4, <2>2
  <2>4. /\ label' \in [Page -> Label \ {"swept"}] /\ label'[p + k] = "free"
        /\ \A x \in Page : x # p + k => label'[x] = label[x]
    BY <2>1, <2>3 DEF AllocInv, HeapInOrder, TypeOK, Label
  <2>5. Labelled(p, n, k + 1)'
    <3> SUFFICES ASSUME NEW x \in PagesFrom(p, n)
                 PROVE  label'[x] = IF x < p + (k + 1) THEN "free"
                                    ELSE IF x = p THEN "large" ELSE "large rem"
      BY DEF Labelled
    <3>1. x \in Page /\ (x < p + (k + 1) <=> x < p + k \/ x = p + k)
      BY <1>4
    <3>2. label[x] = IF x < p + k THEN "free" ELSE IF x = p THEN "large" ELSE "large rem"
      BY <1>3 DEF Labelled
    <3>3. CASE x = p + k
      BY <2>4, <3>1, <3>3
    <3>4. CASE x # p + k
      BY <2>4, <3>1, <3>2, <3>4
    <3> QED BY <3>3, <3>4
  <2>6. k + 1 \in Nat /\ k + 1 <= n
    BY <1>4, <2>2
  <2>7. /\ AtTyped' /\ Others(w) /\ at'[w].pc = "clear large" /\ at'[w].page = p
        /\ at'[w].locked = at[w].locked /\ at'[w].cleared = k + 1
    BY <1>1, <1>2, <2>1, <2>6, CountGoesOn DEF AllocInv
  <2>8. \A x \in Page : x \notin PagesFrom(p, n) => label'[x] = label[x]
    BY <2>3, <2>4
  <2>9. PICK j \in Nat : j <= n /\ Labelled(p, n, j)' /\ at'[w].cleared = j
    BY <2>5, <2>6, <2>7
  <2>10. Labelled(p, n, at[w].cleared) /\ at[w].cleared <= n
    BY <1>3
  <2>11. Stands(p, n) /\ Relabels(p, n)
    BY <1>3, <2>4, <2>8 DEF Relabels
  <2>12. ClearsTo(w, p, n, j)
    <3>1. /\ AtTyped' /\ Others(w) /\ at'[w].pc = "clear large" /\ at'[w].page = p
          /\ at'[w].locked = at[w].locked
      BY <2>7
    <3> QED BY <2>9, <2>11, <3>1 DEF ClearsTo
  <2> QED BY <1>1, <1>2, <2>10, <2>11, <2>12, ClearingKeeps
<1>7. CASE ~(k = 0 \/ (p + k \in Page /\ label[p + k] = "large rem"))
  <2>1. Goto(w, "large region") /\ label' = label
    BY <1>7 DEF ClearLargePage
  <2>2. k = n
    <3> SUFFICES ASSUME k < n PROVE FALSE
      BY <1>4
    <3>1. p + k \in PagesFrom(p, n) /\ p + k \in Page
      BY <1>4
    <3>2. label[p + k] = IF p + k < p + k THEN "free" ELSE IF p + k = p THEN "large" ELSE "large rem"
      BY <1>3, <3>1 DEF Labelled
    <3>3. ~(p + k < p + k) /\ p + k # p
      BY <1>4, <1>7
    <3> QED BY <1>7, <3>1, <3>2, <3>3
  <2>3. GoesOn(w, "large region")
    BY <1>2, <2>1, GotoGoesOn DEF AllocInv, PC
  <2>4. /\ AtTyped' /\ Others(w) /\ at'[w].pc = "large region" /\ at'[w].page = p
        /\ at'[w].locked = at[w].locked /\ at'[w].cleared = k
    BY <2>3 DEF GoesOn
  <2>5. Labelled(p, n, k)'
    BY <1>3, <2>1 DEF Labelled
  <2>6. Relabels(p, n)
    BY <2>1 DEF AllocInv, HeapInOrder, TypeOK, Relabels
  <2>7. ClearsTo(w, p, n, k)
    BY <1>3, <2>2, <2>4, <2>5, <2>6 DEF ClearsTo
  <2> QED BY <1>1, <1>2, <1>3, <2>7, ClearingKeeps
<1> QED BY <1>6, <1>7

\* The pages of a dead large object, all of them and no others, are put into the tree.
LEMMA FreeLargeRegionKeeps ==
  ASSUME AllocInv, NEW w \in Workers, FreeLargeRegion(w)
  PROVE  AllocInv'
<1>1. /\ at[w].pc = "large region" /\ Finish(w)
      /\ allocated' = allocated \ LargeAt(at[w].page)
      /\ freePages' = freePages \cup PagesFrom(at[w].page, at[w].cleared)
      /\ UNCHANGED <<label, snapshot, mIdx, freeList, localRuns, freeLists, nonFullRuns, marked,
                     phase, taken, pending, runLocks>>
  BY DEF FreeLargeRegion, runs
<1>2. Clearing(w) /\ at[w].pc # "idle"
  BY <1>1 DEF Clearing
<1> PICK p \in Page : p = at[w].page
  BY <1>2, ClearingIs
<1>3. PICK n \in LargeSizes : Stands(p, n) /\ Labelled(p, n, at[w].cleared) /\ at[w].cleared = n
  BY <1>1, <1>2, ClearingIs
<1>4. /\ GivenBack(w) = PagesFrom(p, n) /\ freePages' = freePages \cup PagesFrom(p, n)
      /\ allocated' = allocated \ LargeAt(p) /\ at[w].locked = None
  BY <1>1, <1>2, <1>3, ClearingIs
<1>5. LargeAt(p) \cap marked = {}
  BY <1>2, ClearingIs
<1>6. /\ \A v \in Workers : v # w => GivenBack(v) \cap PagesFrom(p, n) = {}
      /\ \A v \in Workers : v # w => at[v].page # p
      /\ p \notin pending
  BY <1>2, <1>3, ClearedApart
<1>7. p \in PagesFrom(p, n) /\ \A m \in LargeSizes : Stands(p, m) => m = n
  <2>1. \A m \in LargeSizes : Stands(p, m) => p \in PagesFrom(p, m)
    BY LargeIs DEF Stands
  <2> QED BY <1>3, <2>1 DEF AllocInv, LargeInv, LargeApart
<1>8. \A x \in PagesFrom(p, n) : x \in Page /\ label[x] = "free" /\ x \notin TakenPages
  <2> SUFFICES ASSUME NEW x \in PagesFrom(p, n) PROVE label[x] = "free"
    BY <1>3, StandsApart
  <2>1. x < p + n
    BY DEF PagesFrom
  <2> QED BY <1>3, <2>1 DEF Labelled
<1>9. /\ AtTyped' /\ Others(w) /\ AtRun(w)' /\ ~Clearing(w)' /\ at'[w].page = None
      /\ at'[w].locked = None /\ GivenBack(w)' = {}
  <2>1. Ends(w)
    BY <1>1, FinishEnds DEF AllocInv
  <2>2. at'[w].pc # "region" /\ ~Clearing(w)'
    BY <2>1, EndsIs
  <2> QED BY <2>1, <2>2, EndsIs DEF Ends, GivenBack, Clearing
<1>10. \A v \in Workers : v # w => at'[v] = at[v]
  BY <1>9 DEF Others
<1>11. \A v \in Workers : /\ v # w => GivenBack(v)' = GivenBack(v) /\ (Clearing(v)' <=> Clearing(v))
                          /\ at'[v].locked = at[v].locked
  BY <1>4, <1>9, <1>10 DEF Clearing, GivenBack
<1>12. \A q \in Page, m \in LargeSizes : q + m <= LastPage + 1 =>
         (Large(q, m) \in LargeAt(p) <=> q = p)
  BY LargeIs, LargeIsAt, LargeDiffer
<1>13. \A q \in Page, m \in LargeSizes : Stands(q, m)' <=> Stands(q, m) /\ q # p
  BY <1>1, <1>4, <1>12 DEF Stands
<1>14. \A q \in Page : label[q] = "run" =>
         \A o \in Slots(mIdx[q], q) : o \in allocated' <=> o \in allocated
  BY <1>4, <1>7, <1>8, RunFacts, SlotsDiffer
<1>15. \A q \in Page : RunSame(q) /\ Mine(q)' = Mine(q)
  BY <1>1 DEF RunSame, IsLocal, Listed, Mine
<1>16. marked \subseteq allocated' /\ allocated' \subseteq Object
  BY <1>4, <1>5 DEF AllocInv, Phases, HeapInOrder, TypeOK
<1>17. /\ AtTyped' /\ Phases' /\ WorkersApart' /\ WorkersAtRuns' /\ SnapshotHolds'
       /\ (phase # "concurrent" => snapshot = None)'
  BY <1>1, <1>2, <1>9, <1>13, <1>15, <1>16, OthersKeep
<1>18. TypeOK'
  <2>1. freePages' \subseteq Page
    BY <1>4, <1>8 DEF AllocInv, HeapInOrder, TypeOK
  <2> QED BY <1>1, <1>16, <2>1 DEF AllocInv, HeapInOrder, TypeOK
<1>19. LocksAreHeld'
  BY <1>1, <1>11, LocksStay
<1>20. FreePagesAreOwned'
  <2>1. TakenPages' = TakenPages /\ \A x \in Page : NotLabelled(x)' <=> NotLabelled(x)
    BY <1>1 DEF TakenPages, NotLabelled
  <2>2. \A x \in Page : Given(x)' <=> Given(x) /\ x \notin PagesFrom(p, n)
    BY <1>4, <1>6, <1>9, <1>11 DEF Given
  <2>3. \A x \in PagesFrom(p, n) : Given(x)
    BY <1>4 DEF Given
  <2>4. \A x \in Page : PageIsOwned(x) => PageIsOwned(x)'
    BY <1>1, <1>4, <1>8, <2>1, <2>2, <2>3 DEF PageIsOwned
  <2>5. ASSUME NEW v \in Workers, NEW u \in Workers, v # u
        PROVE  GivenBack(v)' \cap GivenBack(u)' = {}
    <3>1. GivenBack(v)' \subseteq GivenBack(v) /\ GivenBack(u)' \subseteq GivenBack(u)
      BY <1>9, <1>11
    <3> QED BY <2>5, <3>1 DEF AllocInv, HeapInOrder, FreePagesAreOwned
  <2> QED BY <2>4, <2>5 DEF AllocInv, HeapInOrder, FreePagesAreOwned
<1>21. RunsInOnePlace'
  <2> SUFFICES ASSUME NEW q \in Page, label[q] = "run" PROVE RunInOnePlace(q)'
    BY <1>1 DEF RunsInOnePlace
  <2>1. q # p /\ q # None
    BY <1>7, <1>8, RunListAssumption
  <2>2. Swept(q)' <=> Swept(q)
    BY <1>9, <1>10, <2>1 DEF Swept
  <2> QED BY <1>1, <1>14, <1>15, <2>2, RunFacts, RunFrame DEF RunKept
<1>22. ListsHoldRuns'
  BY <1>1, ListsStay
<1>23. TakenTyped' /\ RunsHaveClass' /\ SlotsAreLocal'
  BY <1>1 DEF AllocInv, TakenTyped, RunsHaveClass, SlotsAreLocal
<1>24. LargeApart' /\ LargeNotTaken'
  <2>1. TakenPages' = TakenPages
    BY <1>1 DEF TakenPages
  <2> QED BY <1>13, <2>1 DEF AllocInv, LargeInv, LargeApart, LargeNotTaken
<1>25. \A q \in Page, m \in LargeSizes : \A i : Labelled(q, m, i)' <=> Labelled(q, m, i)
  BY <1>1 DEF Labelled
<1>26. LargeLabelled'
  <2> SUFFICES ASSUME NEW q \in Page, NEW m \in LargeSizes, Stands(q, m)',
                      \A v \in Workers : Clearing(v)' => at'[v].page # q
               PROVE  Labelled(q, m, 0)'
    BY DEF LargeLabelled
  <2>1. q # p /\ Stands(q, m)
    BY <1>13
  <2>2. \A v \in Workers : Clearing(v) => at[v].page # q
    BY <1>10, <1>11, <2>1
  <2> QED BY <1>25, <2>1, <2>2 DEF AllocInv, LargeInv, LargeLabelled
<1>27. LargeCleared'
  <2> SUFFICES ASSUME NEW v \in Workers, Clearing(v)'
               PROVE  /\ LargeAt(at'[v].page) \cap marked' = {} /\ at'[v].locked = None
                      /\ \E m \in LargeSizes :
                           /\ Stands(at[v].page, m)' /\ Labelled(at[v].page, m, at[v].cleared)'
                           /\ at'[v].cleared <= m /\ (at'[v].pc = "large region" => at'[v].cleared = m)
    BY DEF LargeCleared
  <2>1. v # w /\ Clearing(v) /\ at'[v] = at[v]
    BY <1>9, <1>10, <1>11
  <2> PICK q \in Page : q = at[v].page
    BY <2>1, ClearingIs
  <2> PICK i : i = at[v].cleared
    OBVIOUS
  <2>2. PICK m \in LargeSizes : /\ Stands(q, m) /\ Labelled(q, m, i)
                                /\ i <= m /\ (at[v].pc = "large region" => i = m)
    BY <2>1, ClearingIs
  <2>3. q # p
    BY <1>6, <2>1
  <2>4. Stands(q, m)' /\ Labelled(q, m, i)'
    BY <1>13, <1>25, <2>2, <2>3
  <2>5. Stands(at[v].page, m)' /\ Labelled(at[v].page, m, at[v].cleared)'
    BY <2>1, <2>4 DEF Stands, Labelled
  <2> QED BY <1>1, <2>1, <2>2, <2>5, ClearingIs
<1>28. LabelsStand'
  <2>1. ASSUME NEW x \in Page, label[x] = "large rem"
        PROVE  \E q \in Page, m \in LargeSizes : Stands(q, m)' /\ x \in PagesFrom(q, m) /\ x # q
    <3>1. PICK q \in Page, m \in LargeSizes : Stands(q, m) /\ x \in PagesFrom(q, m) /\ x # q
      BY <2>1 DEF AllocInv, LargeInv, LabelsStand
    <3>2. q # p
      BY <1>7, <1>8, <2>1, <3>1
    <3> QED BY <1>13, <3>1, <3>2
  <2>2. ASSUME NEW x \in Page, label[x] = "large"
        PROVE  (\E m \in LargeSizes : Stands(x, m)') \/ (taken.for = "large rem" /\ taken.page = x)
    <3>1. x # p
      BY <1>7, <1>8, <2>2
    <3> QED BY <1>13, <2>2, <3>1 DEF AllocInv, LargeInv, LabelsStand
  <2> QED BY <1>1, <2>1, <2>2 DEF LabelsStand
<1>29. ObjectsArePlaced'
  <2>1. \A q \in Page, m \in LargeSizes : Stands(q, m) => Stands(q, m)' \/ Large(q, m) \notin allocated'
    BY <1>4, <1>12, <1>13 DEF Stands
  <2> QED BY <1>1, <1>4, <2>1, PlacedFrame DEF AllocInv
<1>30. GarbageIsAhead'
  <2>1. ASSUME NEW q \in Page, q # p, NEW kind, NEW pcs, Ahead(q, kind, pcs)
        PROVE  Ahead(q, kind, pcs)'
    BY <1>1, <1>9, <2>1, AheadStays
  <2>2. \A q \in Page, m \in LargeSizes : Stands(q, m) /\ Large(q, m) \in allocated' \ marked' => q # p
    BY <1>4, <1>12 DEF Stands
  <2>3. \A o \in allocated' \ marked' : o \in allocated \ marked
    BY <1>1, <1>4
  <2>4. phase \in {"concurrent", "parallel"} /\ label[p] # "run"
    BY <1>2, <1>7, <1>8, SweepGoesOn
  <2> QED BY <1>1, <1>13, <2>1, <2>2, <2>3, <2>4, GarbageFrame DEF AllocInv
<1> QED BY <1>17, <1>18, <1>19, <1>20, <1>21, <1>22, <1>23, <1>24, <1>26, <1>27, <1>28, <1>29,
        <1>30, InvIs DEF HeapKept, SweepKept, LargeInv

\* A worker takes a page of the sweep, or finds nothing to do there.
Looks(w, p) ==
  /\ AtTyped' /\ Others(w) /\ AtRun(w)'
  /\ at'[w].page \in {None, p} /\ at'[w].locked = None /\ at'[w].cleared = 0
  /\ at'[w].pc \in {"idle", "lock", "sweep", "clear large"}
  /\ at'[w].pc = "clear large" =>
       at'[w].page = p /\ LargeAt(p) \cap marked = {} /\ \E n \in LargeSizes : Stands(p, n)
  /\ LabelToSweep(p) = "run" => Ahead(p, "run", {"lock", "sweep"})'
  /\ \A n \in LargeSizes : LabelToSweep(p) = "large" /\ Stands(p, n) /\ Large(p, n) \notin marked =>
       Ahead(p, "large", {"clear large", "large region"})'

\* A page that no worker has looked at holds what the snapshot, or the label, says.
LEMMA PendingIs ==
  ASSUME AllocInv, NEW p \in pending
  PROVE  /\ p \in Page /\ p # None /\ phase \in {"concurrent", "parallel"}
         /\ \A v \in Workers : at[v].page # p
         /\ LabelToSweep(p) = "run" =>
              label[p] = "run" /\ (phase = "concurrent" => ~IsLocal(p))
         /\ LabelToSweep(p) = "large" => \E n \in LargeSizes : Stands(p, n)
<1>1. /\ p \in Page /\ p # None /\ phase \in {"concurrent", "parallel"}
      /\ \A v \in Workers : at[v].page # p
  BY RunListAssumption DEF AllocInv, HeapInOrder, TypeOK, Phases, WorkersApart
<1>2. CASE phase = "concurrent"
  <2>1. LabelToSweep(p) = snapshot[p]
    BY <1>2 DEF LabelToSweep
  <2> QED BY <1>1, <1>2, <2>1 DEF AllocInv, SnapshotHolds
<1>3. CASE phase = "parallel"
  <2>1. LabelToSweep(p) = label[p] /\ taken = NoPages
    BY <1>3 DEF LabelToSweep, AllocInv, Phases
  <2>2. label[p] = "large" => \E n \in LargeSizes : Stands(p, n)
    BY <1>1, <2>1, NothingIs DEF AllocInv, LargeInv, LabelsStand
  <2> QED BY <1>1, <1>3, <2>1, <2>2
<1> QED BY <1>1, <1>2, <1>3

\* A worker looks at a page: it goes to what is to be swept there, or there is nothing.
LEMMA LooksKeeps ==
  ASSUME AllocInv, NEW w \in Workers, at[w] = Idle, NEW p \in pending, Looks(w, p),
         pending' = pending \ {p}, label[p] = "run" => RunInOnePlace(p)',
         UNCHANGED <<label, snapshot, freePages, mIdx, freeList, localRuns, freeLists, nonFullRuns,
                     allocated, marked, phase, taken, runLocks>>
  PROVE  AllocInv'
<1>1. /\ p \in Page /\ p # None /\ phase \in {"concurrent", "parallel"}
      /\ \A v \in Workers : at[v].page # p
  BY PendingIs
<1>2. /\ AtTyped' /\ AtRun(w)' /\ \A v \in Workers : v # w => at'[v] = at[v]
      /\ at'[w].page \in {None, p} /\ at'[w].locked = None /\ at'[w].cleared = 0
      /\ at'[w].pc \in {"idle", "lock", "sweep", "clear large"}
  BY DEF Looks, Others
<1>3. ~Clearing(w) /\ at[w].page = None /\ at[w].locked = None /\ GivenBack(w) = {}
  BY IdleIs DEF Clearing, GivenBack
<1>4. GivenBack(w)' = {}
  <2>1. PagesFrom(p, 0) = {}
    <3> SUFFICES ASSUME NEW x \in PagesFrom(p, 0) PROVE FALSE
      OBVIOUS
    <3>1. x \in Nat /\ p \in Nat /\ p <= x /\ x < p + 0
      BY <1>1, PagesAre DEF PagesFrom
    <3> QED BY <3>1
  <2>2. CASE at'[w].pc = "clear large"
    <3>1. at'[w].page = p
      BY <2>2 DEF Looks
    <3>2. GivenBack(w)' = PagesFrom(p, 0)
      BY <1>2, <2>2, <3>1 DEF GivenBack
    <3> QED BY <2>1, <3>2
  <2>3. CASE at'[w].pc # "clear large"
    BY <1>2, <2>3 DEF GivenBack
  <2> QED BY <2>2, <2>3
<1>5. \A v \in Workers : /\ GivenBack(v)' = GivenBack(v) /\ at'[v].locked = at[v].locked
                         /\ Clearing(v) => v # w /\ Clearing(v)'
                         /\ v # w => (Clearing(v)' <=> Clearing(v))
  BY <1>2, <1>3, <1>4 DEF GivenBack, Clearing
<1>6. \A q \in Page, n \in LargeSizes : Stands(q, n)' <=> Stands(q, n)
  BY DEF Stands
<1>7. \A q \in Page : RunSame(q) /\ Mine(q)' = Mine(q)
  BY DEF RunSame, IsLocal, Listed, Mine
<1>8. TypeOK'
  BY DEF AllocInv, HeapInOrder, TypeOK
<1>9. FreePagesAreOwned'
  BY <1>5, OwnedFrame DEF AllocInv, HeapInOrder
<1>10. LocksAreHeld'
  BY <1>5, LocksStay
<1>11. RunsInOnePlace'
  <2> SUFFICES ASSUME NEW q \in Page, label[q] = "run" PROVE RunInOnePlace(q)'
    BY DEF RunsInOnePlace
  <2>1. CASE q = p
    BY <2>1
  <2>2. CASE q # p
    <3>1. q # None
      BY RunListAssumption
    <3>2. Swept(q)' <=> Swept(q)
      BY <1>2, <1>3, <2>2, <3>1 DEF Swept
    <3> QED BY <1>7, <3>2, RunFacts, RunFrame DEF RunKept
  <2> QED BY <2>1, <2>2
<1>12. ListsHoldRuns'
  BY ListsStay
<1>13. TakenTyped' /\ RunsHaveClass' /\ SlotsAreLocal'
  BY DEF AllocInv, TakenTyped, RunsHaveClass, SlotsAreLocal
<1>14. \A q \in Page, m \in LargeSizes : \A i : Labelled(q, m, i)' <=> Labelled(q, m, i)
  BY DEF Labelled
<1>15. LargeApart' /\ LargeNotTaken' /\ LabelsStand'
  <2>1. TakenPages' = TakenPages
    BY DEF TakenPages
  <2> QED BY <1>6, <2>1 DEF AllocInv, LargeInv, LargeApart, LargeNotTaken, LabelsStand
<1>16. LargeLabelled'
  <2> SUFFICES ASSUME NEW q \in Page, NEW m \in LargeSizes, Stands(q, m)',
                      \A v \in Workers : Clearing(v)' => at'[v].page # q
               PROVE  Labelled(q, m, 0)'
    BY DEF LargeLabelled
  <2>1. \A v \in Workers : Clearing(v) => at[v].page # q
    BY <1>2, <1>5
  <2> QED BY <1>6, <1>14, <2>1 DEF AllocInv, LargeInv, LargeLabelled
<1>17. LargeCleared'
  <2> SUFFICES ASSUME NEW v \in Workers, Clearing(v)'
               PROVE  /\ LargeAt(at'[v].page) \cap marked' = {} /\ at'[v].locked = None
                      /\ \E m \in LargeSizes :
                           /\ Stands(at[v].page, m)' /\ Labelled(at[v].page, m, at[v].cleared)'
                           /\ at'[v].cleared <= m /\ (at'[v].pc = "large region" => at'[v].cleared = m)
    BY DEF LargeCleared
  <2>1. CASE v = w
    <3>1. at'[w].pc = "clear large"
      BY <1>2, <2>1 DEF Clearing
    <3>2. /\ at'[w].page = p /\ LargeAt(p) \cap marked = {}
          /\ \E n \in LargeSizes : Stands(p, n)
      BY <3>1 DEF Looks
    <3>3. PICK n \in LargeSizes : Stands(p, n)
      BY <3>2
    <3>4. Labelled(p, n, 0)
      BY <1>1, <3>3 DEF AllocInv, LargeInv, LargeLabelled
    <3>5. Stands(p, n)' /\ Labelled(p, n, 0)'
      BY <1>1, <1>6, <1>14, <3>3, <3>4
    <3>6. Stands(at[w].page, n)' /\ Labelled(at[w].page, n, at[w].cleared)'
      BY <1>2, <3>2, <3>5 DEF Stands, Labelled
    <3>7. at'[w].cleared <= n
      <4>1. 0 <= n
        BY PagesAre
      <4> QED BY <1>2, <4>1
    <3> QED BY <1>2, <2>1, <3>1, <3>2, <3>6, <3>7
  <2>2. CASE v # w
    <3>1. Clearing(v) /\ at'[v] = at[v]
      BY <1>2, <1>5, <2>2
    <3> PICK q \in Page : q = at[v].page
      BY <3>1, ClearingIs
    <3> PICK i : i = at[v].cleared
      OBVIOUS
    <3>2. PICK m \in LargeSizes : /\ Stands(q, m) /\ Labelled(q, m, i)
                                  /\ i <= m /\ (at[v].pc = "large region" => i = m)
      BY <3>1, ClearingIs
    <3>3. Stands(q, m)' /\ Labelled(q, m, i)'
      BY <1>6, <1>14, <3>2
    <3>4. Stands(at[v].page, m)' /\ Labelled(at[v].page, m, at[v].cleared)'
      BY <3>1, <3>3 DEF Stands, Labelled
    <3> QED BY <3>1, <3>2, <3>4, ClearingIs
  <2> QED BY <2>1, <2>2
<1>18. ObjectsArePlaced'
  BY <1>6, PlacedFrame DEF AllocInv
<1>19. Phases' /\ (phase # "concurrent" => snapshot = None)'
  BY <1>1 DEF AllocInv, HeapInOrder, Phases
<1>20. WorkersApart'
  <2>1. ASSUME NEW v \in Workers, NEW u \in Workers, at'[v].page = at'[u].page, v # u
        PROVE  at'[v].page = None
    <3>1. CASE v # w /\ u # w
      BY <1>2, <2>1, <3>1 DEF AllocInv, WorkersApart
    <3>2. CASE v = w \/ u = w
      BY <1>1, <1>2, <2>1, <3>2
    <3> QED BY <3>1, <3>2
  <2>2. None \notin pending
    BY RunListAssumption DEF AllocInv, HeapInOrder, TypeOK
  <2>3. \A v \in Workers : at'[v].page \notin pending'
    BY <1>2, <2>2 DEF AllocInv, WorkersApart
  <2> QED BY <2>1, <2>3 DEF WorkersApart
<1>21. WorkersAtRuns'
  <2> SUFFICES ASSUME NEW v \in Workers, v # w PROVE AtRun(v)'
    BY <1>2 DEF WorkersAtRuns
  <2>1. AtRun(v) /\ at'[v] = at[v]
    BY <1>2 DEF AllocInv, WorkersAtRuns
  <2>2. at[v].pc \in {"lock", "sweep", "update", "free"} => RunSame(at[v].page)
    BY <1>7, SweepGoesOn
  <2> QED BY <2>1, <2>2, AtRunFrame
<1>22. SnapshotHolds'
  <2>1. \A q \in pending' : q \in pending /\ q \in Page
    BY PendingIs
  <2> QED BY <1>6, <1>7, <2>1 DEF AllocInv, SnapshotHolds, RunSame
<1>23. GarbageIsAhead'
  <2>1. ASSUME NEW q \in Page, q # p, NEW kind, NEW pcs, Ahead(q, kind, pcs)
        PROVE  Ahead(q, kind, pcs)'
    <3>1. CASE q \in pending /\ LabelToSweep(q) = kind
      BY <2>1, <3>1 DEF Ahead, LabelToSweep
    <3>2. CASE \E v \in Workers : at[v].page = q /\ at[v].pc \in pcs
      <4>1. PICK v \in Workers : at[v].page = q /\ at[v].pc \in pcs
        BY <3>2
      <4>2. v # w
        BY <1>3, <4>1, RunListAssumption
      <4> QED BY <1>2, <4>1, <4>2 DEF Ahead
    <3> QED BY <2>1, <3>1, <3>2 DEF Ahead
  <2>2. \A kind, pcs : Ahead(p, kind, pcs) => LabelToSweep(p) = kind
    BY <1>1 DEF Ahead
  <2>3. Ahead(p, "run", {"lock", "sweep"}) => Ahead(p, "run", {"lock", "sweep"})'
    BY <2>2 DEF Looks
  <2>4. \A n \in LargeSizes :
          Stands(p, n) /\ Ahead(p, "large", {"clear large", "large region"})
            /\ Large(p, n) \in allocated' \ marked' =>
          Ahead(p, "large", {"clear large", "large region"})'
    BY <2>2 DEF Looks
  <2> QED BY <1>1, <1>6, <2>1, <2>3, <2>4, GarbageFrame DEF AllocInv
<1> QED BY <1>2, <1>8, <1>9, <1>10, <1>11, <1>12, <1>13, <1>15, <1>16, <1>17, <1>18, <1>19, <1>20,
        <1>21, <1>22, <1>23, InvIs DEF HeapKept, SweepKept, LargeInv

AtRunPlace(p, full, pc) == [Idle EXCEPT !.page = p, !.wasFull = full, !.pc = pc]

\* The place of a worker that has begun with a page of no run.
LEMMA LargePlaceIs ==
  ASSUME NEW p \in Page, NEW pc \in PC
  PROVE  [Idle EXCEPT !.page = p, !.pc = pc]
           = [pc |-> pc, page |-> p, wasFull |-> FALSE, locked |-> None, cleared |-> 0]
<1>1. PICK i \in Place : i = Idle
  BY IdleIs
<1>2. i.wasFull = FALSE /\ i.locked = None /\ i.cleared = 0
  BY <1>1 DEF Idle
<1>3. PICK j \in Place : j = [i EXCEPT !.page = p]
  <2>1. [i EXCEPT !.page = p] \in Place
    BY DEF Place
  <2> QED BY <2>1
<1>4. j.wasFull = i.wasFull /\ j.locked = i.locked /\ j.cleared = i.cleared /\ j.page = p
  BY <1>3 DEF Place
<1>5. [j EXCEPT !.pc = pc]
        = [pc |-> pc, page |-> p, wasFull |-> FALSE, locked |-> None, cleared |-> 0]
  <2>1. [j EXCEPT !.pc = pc] = [pc |-> pc, page |-> j.page, wasFull |-> j.wasFull,
                                locked |-> j.locked, cleared |-> j.cleared]
    BY DEF Place
  <2> QED BY <1>2, <1>4, <2>1
<1>6. [i EXCEPT !.page = p, !.pc = pc] = [[i EXCEPT !.page = p] EXCEPT !.pc = pc]
  OBVIOUS
<1> QED BY <1>1, <1>3, <1>5, <1>6

\* The place of a worker that has begun with the page of a run.
LEMMA RunPlaceIs ==
  ASSUME NEW p \in Page, NEW full \in BOOLEAN, NEW pc \in PC
  PROVE  AtRunPlace(p, full, pc)
           = [pc |-> pc, page |-> p, wasFull |-> full, locked |-> None, cleared |-> 0]
<1>1. PICK i \in Place : i = Idle
  BY IdleIs
<1>2. i.locked = None /\ i.cleared = 0
  BY <1>1 DEF Idle
<1>3. PICK j \in Place : j = [i EXCEPT !.page = p]
  <2>1. [i EXCEPT !.page = p] \in Place
    BY DEF Place
  <2> QED BY <2>1
<1>4. j.locked = i.locked /\ j.cleared = i.cleared /\ j.page = p
  BY <1>3 DEF Place
<1>5. PICK k \in Place : k = [j EXCEPT !.wasFull = full]
  <2>1. [j EXCEPT !.wasFull = full] \in Place
    BY DEF Place
  <2> QED BY <2>1
<1>6. k.wasFull = full /\ k.locked = j.locked /\ k.cleared = j.cleared /\ k.page = j.page
  BY <1>5 DEF Place
<1>7. [k EXCEPT !.pc = pc]
        = [pc |-> pc, page |-> p, wasFull |-> full, locked |-> None, cleared |-> 0]
  <2>1. [k EXCEPT !.pc = pc] = [pc |-> pc, page |-> k.page, wasFull |-> k.wasFull,
                                locked |-> k.locked, cleared |-> k.cleared]
    BY DEF Place
  <2> QED BY <1>2, <1>4, <1>6, <2>1
<1>8. [i EXCEPT !.page = p, !.wasFull = full, !.pc = pc]
        = [[[i EXCEPT !.page = p] EXCEPT !.wasFull = full] EXCEPT !.pc = pc]
  OBVIOUS
<1>9. AtRunPlace(p, full, pc) = [i EXCEPT !.page = p, !.wasFull = full, !.pc = pc]
  BY <1>1 DEF AtRunPlace
<1> QED BY <1>3, <1>5, <1>7, <1>8, <1>9

\* The three things that a worker can find at a page.
LEMMA LookAtPageKeeps ==
  ASSUME AllocInv, NEW w \in Workers, LookAtPage(w)
  PROVE  AllocInv'
<1>1. /\ at[w] = Idle
      /\ UNCHANGED <<label, snapshot, freePages, mIdx, freeList, localRuns, freeLists, nonFullRuns,
                     allocated, marked, phase, taken, runLocks>>
  BY DEF LookAtPage, heap, runs, objects
<1>2. PICK p \in pending :
        /\ pending' = pending \ {p}
        /\ at' = [at EXCEPT ![w] =
             CASE LabelToSweep(p) = "run" ->
                    [Idle EXCEPT !.page = p, !.wasFull = IsFull(p),
                       !.pc = IF phase = "concurrent" /\ p \in nonFullRuns[mIdx[p]].in
                              THEN "lock" ELSE "sweep"]
               [] LabelToSweep(p) = "large" /\ LargeAt(p) \cap marked = {} ->
                    [Idle EXCEPT !.page = p, !.pc = "clear large"]
               [] OTHER -> Idle]
  BY DEF LookAtPage
<1>3. /\ p \in Page /\ p # None /\ phase \in {"concurrent", "parallel"}
      /\ \A v \in Workers : at[v].page # p
      /\ LabelToSweep(p) = "run" => label[p] = "run" /\ (phase = "concurrent" => ~IsLocal(p))
      /\ LabelToSweep(p) = "large" => \E n \in LargeSizes : Stands(p, n)
  BY PendingIs
<1>4. ~Swept(p)
  BY <1>3 DEF Swept
<1>5. /\ IsLocal(p)' <=> IsLocal(p)
      /\ Listed(p)' <=> Listed(p)
  BY <1>1 DEF IsLocal, Listed
<1>6. AtTyped
  BY DEF AllocInv
<1>7. CASE LabelToSweep(p) = "run"
  <2> PICK full \in BOOLEAN : full = IsFull(p)
    BY DEF IsFull
  <2> PICK pc \in {"lock", "sweep"} :
        pc = IF phase = "concurrent" /\ p \in nonFullRuns[mIdx[p]].in THEN "lock" ELSE "sweep"
    OBVIOUS
  <2>1. PICK b \in Place :
          b = [pc |-> pc, page |-> p, wasFull |-> full, locked |-> None, cleared |-> 0]
    BY <1>3 DEF Place, PC
  <2>2. at' = [at EXCEPT ![w] = b]
    <3>1. at' = [at EXCEPT ![w] = [Idle EXCEPT !.page = p, !.wasFull = full, !.pc = pc]]
      BY <1>2, <1>7
    <3>2. [Idle EXCEPT !.page = p, !.wasFull = full, !.pc = pc] = b
      <4>1. pc \in PC /\ p \in Page
        BY <1>3 DEF PC
      <4>2. [Idle EXCEPT !.page = p, !.wasFull = full, !.pc = pc]
              = [pc |-> pc, page |-> p, wasFull |-> full, locked |-> None, cleared |-> 0]
        <5>1. AtRunPlace(p, full, pc)
                = [pc |-> pc, page |-> p, wasFull |-> full, locked |-> None, cleared |-> 0]
          BY <4>1, RunPlaceIs
        <5> QED BY <5>1, Zenon DEF AtRunPlace
      <4> QED BY <2>1, <4>2, Zenon
    <3> QED BY <3>1, <3>2
  <2>3. /\ b.pc = pc /\ b.page = p /\ b.wasFull = full /\ b.locked = None /\ b.cleared = 0
        /\ b.pc # "idle"
    BY <2>1
  <2>4. AtTyped' /\ Others(w) /\ at'[w] = b
    BY <1>3, <1>6, <2>2, <2>3, MovesTo
  <2>5. label[p] = "run" /\ RunInOnePlace(p) /\ (phase = "concurrent" => ~IsLocal(p))
    BY <1>3, <1>7, RunFacts
  <2>6. AtRun(w)'
    <3>1. /\ IsLocal(at[w].page)' <=> IsLocal(p)
          /\ Listed(at[w].page)' <=> Listed(p)
      BY <1>5, <2>3, <2>4 DEF IsLocal, Listed
    <3>2. IF Listed(p) THEN ~full ELSE IsLocal(p) \/ full
      BY <1>4, <2>5 DEF RunInOnePlace
    <3>3. pc = "lock" => Listed(p) /\ phase = "concurrent"
      BY DEF Listed
    <3>4. /\ at'[w].pc = pc /\ at'[w].page = p /\ at'[w].wasFull = full /\ at'[w].locked = None
          /\ pc \in {"lock", "sweep"} /\ phase' = phase /\ label'[p] = "run"
      BY <1>1, <2>3, <2>4, <2>5
    <3> QED BY <2>5, <3>1, <3>2, <3>3, <3>4 DEF AtRun
  <2>7. Looks(w, p)
    <3>1. Ahead(p, "run", {"lock", "sweep"})'
      BY <2>3, <2>4 DEF Ahead
    <3>2. LabelToSweep(p) # "large" /\ at'[w].pc \in {"lock", "sweep"}
      BY <1>7, <2>3, <2>4
    <3> QED BY <2>3, <2>4, <2>6, <3>1, <3>2 DEF Looks
  <2>8. RunInOnePlace(p)'
    <3>1. Swept(p)'
      BY <2>3, <2>4 DEF Swept
    <3> QED BY <1>1, <1>5, <2>5, <3>1, RunStays DEF RunInOnePlace
  <2> QED BY <1>1, <1>2, <2>7, <2>8, LooksKeeps
<1>8. CASE LabelToSweep(p) = "large" /\ LargeAt(p) \cap marked = {}
  <2>1. PICK b \in Place :
          b = [pc |-> "clear large", page |-> p, wasFull |-> FALSE, locked |-> None, cleared |-> 0]
    BY <1>3 DEF Place, PC
  <2>2. at' = [at EXCEPT ![w] = b]
    <3>1. at' = [at EXCEPT ![w] = [Idle EXCEPT !.page = p, !.pc = "clear large"]]
      BY <1>2, <1>8
    <3>2. [Idle EXCEPT !.page = p, !.pc = "clear large"] = b
      <4>1. "clear large" \in PC
        BY DEF PC
      <4>2. [Idle EXCEPT !.page = p, !.pc = "clear large"]
              = [pc |-> "clear large", page |-> p, wasFull |-> FALSE, locked |-> None, cleared |-> 0]
        BY <1>3, <4>1, LargePlaceIs
      <4> QED BY <2>1, <4>2, Zenon
    <3> QED BY <3>1, <3>2
  <2>3. b.pc = "clear large" /\ b.page = p /\ ~b.wasFull /\ b.locked = None /\ b.cleared = 0
    BY <2>1
  <2>4. AtTyped' /\ Others(w) /\ at'[w] = b
    BY <1>3, <1>6, <2>2, <2>3, MovesTo
  <2>5. AtRun(w)'
    BY <2>3, <2>4 DEF AtRun
  <2>6. Looks(w, p)
    <3>1. Ahead(p, "large", {"clear large", "large region"})'
      BY <2>3, <2>4 DEF Ahead
    <3> QED BY <1>3, <1>8, <2>3, <2>4, <2>5, <3>1 DEF Looks
  <2>7. label[p] # "run"
    BY <1>3, <1>8 DEF Stands
  <2> QED BY <1>1, <1>2, <2>6, <2>7, LooksKeeps
<1>9. CASE LabelToSweep(p) # "run" /\ ~(LabelToSweep(p) = "large" /\ LargeAt(p) \cap marked = {})
  <2>1. at' = [at EXCEPT ![w] = Idle]
    BY <1>2, <1>9
  <2>2. Ends(w)
    BY <1>6, <2>1, FinishEnds DEF Finish
  <2>3. ASSUME NEW n \in LargeSizes, LabelToSweep(p) = "large", Stands(p, n) PROVE Large(p, n) \in marked
    <3>1. PICK o \in LargeAt(p) : o \in marked
      BY <1>9, <2>3
    <3>2. PICK m \in LargeSizes : p + m <= LastPage + 1 /\ o = Large(p, m)
      BY <1>3, LargeIsAt
    <3>3. Stands(p, m)
      BY <2>3, <3>1, <3>2 DEF Stands, AllocInv, Phases
    <3>4. p \in PagesFrom(p, n) /\ p \in PagesFrom(p, m)
      BY <1>3, <2>3, <3>2, LargeIs DEF Stands
    <3>5. m = n
      BY <1>3, <2>3, <3>3, <3>4 DEF AllocInv, LargeInv, LargeApart
    <3> QED BY <3>1, <3>2, <3>5
  <2>4. Looks(w, p)
    BY <1>9, <2>2, <2>3, EndsIs, IdleIs DEF Looks, Ends
  <2>5. ASSUME label[p] = "run" PROVE RunInOnePlace(p)'
    <3>1. RunInOnePlace(p)
      BY <1>3, <2>5, RunFacts
    <3>2. ~Swept(p)'
      BY <1>3, <2>2, EndsIs DEF Swept, Ends, Others
    <3> QED BY <1>1, <1>4, <1>5, <3>1, <3>2, RunStays DEF RunInOnePlace
  <2> QED BY <1>1, <1>2, <2>4, <2>5, LooksKeeps
<1> QED BY <1>7, <1>8, <1>9

-----------------------------------------------------------------------------
(* The invariant holds.                                                    *)

\* The heap is in order at the start.
LEMMA AllocInitial == Init => AllocInv
<1> SUFFICES ASSUME Init PROVE AllocInv
  OBVIOUS
<1> USE DEF Init
<1>1. \A w \in Workers : at[w] = Idle
  OBVIOUS
<1>2. AtTyped /\ WorkersAtRuns /\ WorkersApart
  BY <1>1, IdleIs DEF AtTyped, WorkersAtRuns, AtRun, WorkersApart
<1>3. \A w \in Workers : GivenBack(w) = {} /\ ~Clearing(w)
  BY <1>1, IdleIs DEF GivenBack, Clearing
<1>4. EmptyList \in Lists /\ IsList(EmptyList)
  <2>1. EmptyList \in Lists
    BY DEF EmptyList, Lists
  <2>2. EmptyList.in = {}
    BY DEF EmptyList
  <2> QED BY <2>1, <2>2 DEF IsList
<1>5. TypeOK
  BY <1>4 DEF TypeOK, Label
<1>6. FreePagesAreOwned
  <2>1. TakenPages = {}
    BY DEF TakenPages
  <2>2. \A p \in Page : ~Given(p) /\ ~NotLabelled(p) /\ label[p] = "free" /\ p \in freePages
    BY <1>3, <2>1 DEF Given, NotLabelled
  <2>3. \A p \in Page : PageIsOwned(p)
    BY <2>1, <2>2 DEF PageIsOwned
  <2> QED BY <1>3, <2>3 DEF FreePagesAreOwned
<1>7. RunsInOnePlace /\ RunsHaveClass /\ SlotsAreLocal
  BY DEF RunsInOnePlace, RunsHaveClass, SlotsAreLocal
<1>8. ListsHoldRuns
  <2>1. EmptyList.in = {}
    BY DEF EmptyList
  <2>2. \A c \in Class : nonFullRuns[c] = EmptyList /\ localRuns[c] = None
    OBVIOUS
  <2>3. \A c \in Class : IsList(nonFullRuns[c]) /\ nonFullRuns[c].in = {}
    BY <1>4, <2>1, <2>2
  <2> QED BY <2>2, <2>3 DEF ListsHoldRuns
<1>9. LocksAreHeld
  <2> SUFFICES ASSUME NEW c \in Class, NEW w \in Workers PROVE (runLocks[c] = w) = (at[w].locked = c)
    BY DEF LocksAreHeld
  <2>1. runLocks[c] = None /\ at[w].locked = None /\ c # None /\ w # None
    BY <1>1, IdleIs, AllocatorAssumption
  <2> QED BY <2>1
<1>10. HeapInOrder
  BY <1>5, <1>6, <1>7, <1>8, <1>9 DEF HeapInOrder
<1>11. TakenTyped /\ Phases /\ ObjectsArePlaced /\ SnapshotHolds /\ GarbageIsAhead
  BY <1>1 DEF TakenTyped, Phases, ObjectsArePlaced, SnapshotHolds, GarbageIsAhead
<1>12. LargeInv
  BY <1>3 DEF LargeInv, LargeApart, LargeNotTaken, LargeLabelled, LargeCleared, LabelsStand, Stands
<1> QED BY <1>2, <1>7, <1>10, <1>11, <1>12 DEF AllocInv

\* A step that changes nothing keeps the invariant.
LEMMA AllocStays ==
  ASSUME AllocInv, UNCHANGED vars
  PROVE  AllocInv'
<1>1. /\ label' = label /\ snapshot' = snapshot /\ freePages' = freePages /\ mIdx' = mIdx
      /\ freeList' = freeList /\ localRuns' = localRuns /\ freeLists' = freeLists
      /\ nonFullRuns' = nonFullRuns /\ allocated' = allocated /\ marked' = marked
      /\ phase' = phase /\ taken' = taken /\ pending' = pending /\ at' = at /\ runLocks' = runLocks
  BY DEF vars, heap, runs, objects, sweep
<1>2. \A w \in Workers : /\ GivenBack(w)' = GivenBack(w) /\ at'[w] = at[w]
                         /\ Clearing(w)' <=> Clearing(w)
                         /\ at'[w].locked = at[w].locked
                         /\ Clearing(w) => LargeAt(at[w].page) \cap marked' = {}
  BY <1>1 DEF GivenBack, Clearing, AllocInv, LargeInv, LargeCleared
<1>3. FreePagesAreOwned'
  BY <1>1, <1>2, OwnedFrame DEF AllocInv, HeapInOrder
<1>4. /\ RunsInOnePlace' /\ ListsHoldRuns' /\ SlotsAreLocal' /\ RunsHaveClass'
      /\ \A q \in Page : label[q] = "run" => RunSame(q)
  BY <1>1, RunsUnchanged DEF runs
<1>5. LocksAreHeld'
  BY <1>1, <1>2, LocksStay
<1>6. TypeOK' /\ TakenTyped'
  BY <1>1 DEF AllocInv, HeapInOrder, TypeOK, TakenTyped
<1>7. LargeInv'
  BY <1>1, <1>2, LargeFrame, TakenFrame DEF AllocInv
<1>8. \A q \in Page, n \in LargeSizes : Stands(q, n)' <=> Stands(q, n)
  BY <1>1 DEF Stands
<1>9. ObjectsArePlaced'
  BY <1>1, <1>8, PlacedFrame DEF AllocInv
<1>10. AtTyped' /\ Phases' /\ WorkersApart' /\ (phase # "concurrent" => snapshot = None)'
  BY <1>1 DEF AllocInv, HeapInOrder, AtTyped, Phases, WorkersApart
<1>11. WorkersAtRuns'
  <2> SUFFICES ASSUME NEW w \in Workers PROVE AtRun(w)'
    BY DEF WorkersAtRuns
  <2>1. AtRun(w) /\ at'[w] = at[w] /\ phase' = phase
    BY <1>1 DEF AllocInv, WorkersAtRuns
  <2>2. at[w].pc \in {"lock", "sweep", "update", "free"} => RunSame(at[w].page)
    BY <1>4, <2>1, SweepGoesOn DEF AtRun
  <2> QED BY <2>1, <2>2, AtRunFrame
<1>12. SnapshotHolds'
  BY <1>1, <1>4, <1>8, PendingIs DEF AllocInv, SnapshotHolds, RunSame
<1>13. GarbageIsAhead'
  <2>1. CASE phase \in {"concurrent", "parallel"}
    <3>1. \A q \in Page : \A kind, pcs : Ahead(q, kind, pcs) => Ahead(q, kind, pcs)'
      BY <1>1 DEF Ahead, LabelToSweep
    <3> QED BY <1>1, <1>8, <2>1, <3>1, GarbageFrame DEF AllocInv
  <2>2. CASE phase \notin {"concurrent", "parallel"}
    BY <1>1, <2>2 DEF GarbageIsAhead
  <2> QED BY <2>1, <2>2
<1> QED BY <1>3, <1>4, <1>5, <1>6, <1>7, <1>9, <1>10, <1>11, <1>12, <1>13, InvIs
        DEF HeapKept, SweepKept

\* Every step keeps the invariant.
LEMMA AllocStep == AllocInv /\ [Next]_vars => AllocInv'
<1> SUFFICES ASSUME AllocInv, [Next]_vars PROVE AllocInv'
  OBVIOUS
<1>1. ASSUME NEW c \in Class, AllocLocal(c) \/ AllocRelocalised(c) \/ AllocFetched(c) PROVE AllocInv'
  BY <1>1, AllocLocalKeeps, AllocRelocalisedKeeps, AllocFetchedKeeps
<1>2. ASSUME NEW c \in Class, TakeRunPage(c) \/ AllocRunFails(c) \/ NewRun(c) PROVE AllocInv'
  BY <1>2, TakeRunPageKeeps, AllocRunFailsKeeps, NewRunKeeps
<1>3. CASE TakeLargePages \/ LabelLargeHead \/ NewLargeObject
  BY <1>3, TakeLargePagesKeeps, LabelLargeHeadKeeps, NewLargeObjectKeeps
<1>4. CASE Mark \/ BeginConcurrentSweep \/ BeginParallelSweep
  BY <1>4, MarkKeeps, BeginConcurrentSweepKeeps, BeginParallelSweepKeeps
<1>5. CASE EndConcurrentSweep \/ EndParallelSweep
  BY <1>5, EndConcurrentSweepKeeps, EndParallelSweepKeeps
<1>6. ASSUME NEW w \in Workers, LookAtPage(w) \/ Lock(w) \/ SweepRun(w) \/ UpdateLocked(w)
      PROVE  AllocInv'
  BY <1>6, LookAtPageKeeps, LockKeeps, SweepRunKeeps, UpdateLockedKeeps
<1>7. ASSUME NEW w \in Workers, UpdateGlobals(w) \/ ClearRunPage(w) \/ FreeRunRegion(w) \/ Unlock(w)
      PROVE  AllocInv'
  BY <1>7, UpdateGlobalsKeeps, ClearRunPageKeeps, FreeRunRegionKeeps, UnlockKeeps
<1>8. ASSUME NEW w \in Workers, ClearLargePage(w) \/ FreeLargeRegion(w) PROVE AllocInv'
  BY <1>8, ClearLargePageKeeps, FreeLargeRegionKeeps
<1>9. CASE UNCHANGED vars
  BY <1>9, AllocStays
<1> QED BY <1>1, <1>2, <1>3, <1>4, <1>5, <1>6, <1>7, <1>8, <1>9 DEF Next

\* The invariant holds in every state.
LEMMA AllocAlways == Spec => []AllocInv
BY AllocInitial, AllocStep, PTL DEF Spec

\* HeapInOrder: whatever the mutator and the workers have done, each page has one owner and
\* its label says so, no slot is lost or free twice, the lists of runs are lists of runs of
\* their class, and the locks are held by the workers that sweep a run of the class.
THEOREM HeapAlwaysInOrder == Spec => []HeapInOrder
<1>1. AllocInv => HeapInOrder
  BY DEF AllocInv
<1> QED BY <1>1, AllocAlways, PTL

-----------------------------------------------------------------------------
(* The heap implements the store of objects.                               *)

\* A cell of an object in use is in a page that the mutator has not taken, and in a slot if
\* the page holds a run.
LEMMA CellsAre ==
  ASSUME AllocInv, NEW r \in allocated, NEW e \in r
  PROVE  /\ e[1] \in Page /\ e[1] \notin TakenPages
         /\ label[e[1]] = "run" => r \in Slots(mIdx[e[1]], e[1])
<1>1. PICK q \in Page : \/ label[q] = "run" /\ r \in Slots(mIdx[q], q)
                        \/ \E n \in LargeSizes : Stands(q, n) /\ r = Large(q, n)
  BY DEF AllocInv, ObjectsArePlaced, Placed
<1>2. CASE label[q] = "run" /\ r \in Slots(mIdx[q], q)
  <2>1. e[1] = q
    BY <1>2, RunFacts, SlotsAre
  <2>2. taken = NoPages => TakenPages = {}
    BY DEF TakenPages
  <2>3. q \notin TakenPages
    BY <1>2, <2>2, TakenIs
  <2> QED BY <1>2, <2>1, <2>3
<1>3. CASE \E n \in LargeSizes : Stands(q, n) /\ r = Large(q, n)
  <2>1. PICK n \in LargeSizes : Stands(q, n) /\ r = Large(q, n)
    BY <1>3
  <2>2. e[1] \in PagesFrom(q, n)
    BY <2>1, LargeIs DEF Stands
  <2> QED BY <2>1, <2>2, StandsApart
<1> QED BY <1>1, <1>2, <1>3

\* A free slot shares no cell with an object in use.
LEMMA FreeSlotIs ==
  ASSUME AllocInv, NEW p \in Page, label[p] = "run", NEW o \in freeList[p] \cup Mine(p)
  PROVE  o \in Object /\ o # {} /\ \A r \in allocated : r \cap o = {}
<1>1. mIdx[p] \in Class /\ o \in Slots(mIdx[p], p) /\ o \notin allocated
  BY RunFacts DEF RunInOnePlace
<1>2. o \in Object /\ o # {}
  BY <1>1, ObjectsAre, SlotsAre
<1>3. ASSUME NEW r \in allocated, NEW e \in r, e \in o PROVE FALSE
  <2>1. e[1] = p
    BY <1>1, <1>3, SlotsAre
  <2>2. r \in Slots(mIdx[p], p)
    BY <1>3, <2>1, CellsAre
  <2> QED BY <1>1, <1>3, <2>2, SlotsAre
<1> QED BY <1>2, <1>3

\* An object in pages that the mutator has just taken shares no cell with another.
LEMMA NewPagesAre ==
  ASSUME AllocInv, NEW o, \A e \in o : e[1] \in TakenPages, NEW r \in allocated
  PROVE  r \cap o = {}
BY CellsAre

\* An allocation of cells that no object in use has is one of the store.
LEMMA Allocates ==
  ASSUME AllocInv, NEW o \in Object, o # {}, \A r \in allocated : r \cap o = {}, NewObject(o),
         phase' = phase
  PROVE  Store!Next
<1>1. o \notin allocated
  OBVIOUS
<1>2. allocated' = allocated \cup {o} /\ marked' = IF phase = "run" THEN marked ELSE marked \cup {o}
  BY DEF NewObject
<1>3. (IF phase = "run" THEN {} ELSE allocated \ marked)' = IF phase = "run" THEN {} ELSE allocated \ marked
  BY <1>1, <1>2
<1>4. Store!Allocate
  BY <1>2, <1>3 DEF Store!Allocate
<1> QED BY <1>4 DEF Store!Next

\* Giving back objects that are not marked is a reclaim of the store.
LEMMA Reclaims ==
  ASSUME AllocInv, phase # "run", phase' # "run", marked' = marked,
         NEW some \in SUBSET (allocated \ marked), allocated' = allocated \ some
  PROVE  Store!Next
<1>1. some \in SUBSET (IF phase = "run" THEN {} ELSE allocated \ marked)
  OBVIOUS
<1>2. (IF phase = "run" THEN {} ELSE allocated \ marked)'
        = (IF phase = "run" THEN {} ELSE allocated \ marked) \ some
  OBVIOUS
<1>3. Store!Reclaim
  BY <1>1, <1>2 DEF Store!Reclaim
<1> QED BY <1>3 DEF Store!Next

\* The slots that the mutator allocates are free.
LEMMA StoreMutator ==
  ASSUME AllocInv, NEW c \in Class,
         AllocLocal(c) \/ AllocRelocalised(c) \/ AllocFetched(c) \/ NewRun(c)
  PROVE  Store!Next
<1>1. ASSUME AllocLocal(c) PROVE Store!Next
  <2>1. PICK o \in freeLists[c] : NewObject(o)
    BY <1>1 DEF AllocLocal
  <2>2. localRuns[c] # None
    BY DEF AllocInv, SlotsAreLocal
  <2> PICK p \in Page : p = localRuns[c]
    BY <2>2, LocalFacts
  <2>3. label[p] = "run" /\ o \in Mine(p)
    BY <2>2, LocalFacts
  <2>4. phase' = phase
    BY <1>1 DEF AllocLocal, sweep
  <2> QED BY <2>1, <2>3, <2>4, FreeSlotIs, Allocates
<1>2. ASSUME AllocRelocalised(c) PROVE Store!Next
  <2>1. localRuns[c] # None /\ phase' = phase
    BY <1>2 DEF AllocRelocalised, sweep
  <2> PICK p \in Page : p = localRuns[c]
    BY <2>1, LocalFacts
  <2>2. label[p] = "run"
    BY <2>1, LocalFacts
  <2>3. PICK o \in freeList[p] : NewObject(o)
    BY <1>2 DEF AllocRelocalised, LocaliseAndAlloc
  <2> QED BY <2>1, <2>2, <2>3, FreeSlotIs, Allocates
<1>3. ASSUME AllocFetched(c) PROVE Store!Next
  <2> PICK l \in Lists : l = nonFullRuns[c]
    BY ListFacts
  <2>1. l.second # None /\ IsList(l) /\ phase' = phase
    BY <1>3, ListFacts DEF AllocFetched, sweep
  <2> PICK p \in l.in : p = l.second
    BY <2>1, PagesAre, SecondOf
  <2>2. p \in Page /\ label[p] = "run"
    BY ListFacts
  <2>3. PICK o \in freeList[p] : NewObject(o)
    BY <1>3 DEF AllocFetched, LocaliseAndAlloc
  <2> QED BY <2>1, <2>2, <2>3, FreeSlotIs, Allocates
<1>4. ASSUME NewRun(c) PROVE Store!Next
  <2>1. taken.for = c /\ phase' = phase
    BY <1>4 DEF NewRun, sweep
  <2>2. taken # NoPages
    <3>1. NoPages.for = "nothing"
      BY DEF NoPages
    <3> QED BY <2>1, <3>1, ClassIs
  <2> PICK p \in Page : p = taken.page
    BY <2>2, TakenIs
  <2>3. p \in TakenPages
    BY <2>2, TakenIs
  <2>4. PICK o \in Slots(c, p) : NewObject(o)
    BY <1>4 DEF NewRun, LocaliseAndAlloc
  <2>5. o \in Object /\ o # {} /\ \A e \in o : e[1] = p
    BY ObjectsAre, SlotsAre
  <2>6. \A r \in allocated : r \cap o = {}
    BY <2>3, <2>5, NewPagesAre
  <2> QED BY <2>1, <2>4, <2>5, <2>6, Allocates
<1> QED BY <1>1, <1>2, <1>3, <1>4

\* The cells of a new large object are free.
LEMMA StoreLargeObject ==
  ASSUME AllocInv, NewLargeObject
  PROVE  Store!Next
<1>1. taken # NoPages /\ taken.for \notin Class /\ Large(taken.page, taken.count) \in Object
  BY NewLargeIs
<1> PICK p \in Page, n \in LargeSizes : p = taken.page /\ n = taken.count
  BY <1>1, TakenIs
<1>2. p + n <= LastPage + 1 /\ TakenPages = PagesFrom(p, n)
  BY <1>1, TakenIs
<1>3. Large(p, n) \in Object /\ NewObject(Large(p, n)) /\ phase' = phase
  BY <1>1 DEF NewLargeObject, sweep
<1>4. Large(p, n) # {} /\ \A e \in Large(p, n) : e[1] \in TakenPages
  BY <1>2, LargeIs
<1>5. \A r \in allocated : r \cap Large(p, n) = {}
  BY <1>4, NewPagesAre
<1> QED BY <1>3, <1>4, <1>5, Allocates

\* Nothing that is not marked is left as a sweep ends.
LEMMA NothingIsLeft ==
  ASSUME AllocInv, SweepIsDone, phase \in {"concurrent", "parallel"}
  PROVE  allocated \ marked = {}
<1>1. pending = {} /\ \A w \in Workers : at[w].page = None
  BY IdleIs DEF SweepIsDone
<1>2. ASSUME NEW p \in Page, NEW kind, NEW pcs PROVE ~Ahead(p, kind, pcs)
  BY <1>1, RunListAssumption DEF Ahead
<1>3. \A o \in allocated \ marked : FALSE
  <2>1. GarbageIsAhead
    BY DEF AllocInv
  <2>2. ASSUME NEW o \in allocated \ marked PROVE FALSE
    <3>1. PICK p \in Page : \/ Ahead(p, "run", {"lock", "sweep"})
                            \/ Ahead(p, "large", {"clear large", "large region"})
      BY <2>1 DEF GarbageIsAhead
    <3> QED BY <1>2, <3>1
  <2> QED BY <2>2
<1> QED BY <1>3

\* A step that changes none of what the store of objects is about.
LEMMA StoreStays ==
  ASSUME UNCHANGED <<allocated, marked, phase>>
  PROVE  UNCHANGED Store!vars
<1>1. (IF phase = "run" THEN {} ELSE allocated \ marked)' = IF phase = "run" THEN {} ELSE allocated \ marked
  OBVIOUS
<1> QED BY <1>1 DEF Store!vars

\* The steps of the mutator that allocate nothing.
LEMMA StoreMutatorStays ==
  ASSUME \/ \E c \in Class : TakeRunPage(c) \/ AllocRunFails(c)
         \/ TakeLargePages \/ LabelLargeHead \/ UNCHANGED vars
  PROVE  UNCHANGED Store!vars
<1>1. UNCHANGED <<objects, sweep>>
  BY DEF TakeRunPage, AllocRunFails, TakeLargePages, LabelLargeHead, vars
<1> QED BY <1>1, StoreStays DEF objects, sweep

\* Marking is the collection of the store; a sweep ends when nothing is left to reclaim.
LEMMA StoreCollector ==
  ASSUME AllocInv
  PROVE  /\ Mark \/ BeginConcurrentSweep => Store!Next
         /\ BeginParallelSweep \/ EndConcurrentSweep \/ EndParallelSweep => UNCHANGED Store!vars
<1>1. ASSUME Mark PROVE Store!Next
  <2>1. phase = "run" /\ phase' = "final" /\ allocated' = allocated
    BY <1>1 DEF Mark
  <2>2. /\ (IF phase = "run" THEN {} ELSE allocated \ marked) = {}
        /\ (IF phase = "run" THEN {} ELSE allocated \ marked)' \subseteq allocated
    BY <2>1
  <2>3. Store!Collect
    BY <2>1, <2>2 DEF Store!Collect
  <2> QED BY <2>3 DEF Store!Next
<1>2. ASSUME BeginConcurrentSweep PROVE Store!Next
  <2> DEFINE some == UNION {Garbage(p) : p \in {q \in Page : IsLocal(q)}}
  <2>1. phase = "final" /\ phase' = "concurrent" /\ marked' = marked /\ allocated' = allocated \ some
    BY <1>2 DEF BeginConcurrentSweep
  <2>2. some \in SUBSET (allocated \ marked)
    BY DEF Garbage
  <2>3. phase # "run" /\ phase' # "run"
    BY <2>1
  <2> HIDE DEF some
  <2> QED BY <2>1, <2>2, <2>3, Reclaims
<1>3. ASSUME BeginParallelSweep PROVE UNCHANGED Store!vars
  <2>1. phase = "final" /\ phase' = "parallel" /\ UNCHANGED <<allocated, marked>>
    BY <1>3 DEF BeginParallelSweep, objects
  <2>2. (IF phase = "run" THEN {} ELSE allocated \ marked)'
          = IF phase = "run" THEN {} ELSE allocated \ marked
    BY <2>1
  <2> QED BY <2>1, <2>2 DEF Store!vars
<1>4. ASSUME EndConcurrentSweep \/ EndParallelSweep PROVE UNCHANGED Store!vars
  <2>1. phase \in {"concurrent", "parallel"} /\ SweepIsDone /\ phase' = "run" /\ allocated' = allocated
    BY <1>4 DEF EndConcurrentSweep, EndParallelSweep
  <2>2. allocated \ marked = {}
    BY <2>1, NothingIsLeft
  <2>3. (IF phase = "run" THEN {} ELSE allocated \ marked)'
          = IF phase = "run" THEN {} ELSE allocated \ marked
    BY <2>1, <2>2
  <2> QED BY <2>1, <2>3 DEF Store!vars
<1> QED BY <1>1, <1>2, <1>3, <1>4

\* What the workers reclaim is not marked.
LEMMA StoreWorker ==
  ASSUME AllocInv, NEW w \in Workers
  PROVE  /\ SweepRun(w) \/ FreeLargeRegion(w) => Store!Next
         /\ \/ LookAtPage(w) \/ Lock(w) \/ UpdateLocked(w) \/ UpdateGlobals(w) \/ ClearRunPage(w)
            \/ FreeRunRegion(w) \/ Unlock(w) \/ ClearLargePage(w)
            => UNCHANGED Store!vars
<1>1. ASSUME SweepRun(w) PROVE Store!Next
  <2>1. /\ at[w].pc = "sweep" /\ allocated' = allocated \ Garbage(at[w].page)
        /\ marked' = marked /\ phase' = phase
    BY <1>1 DEF SweepRun
  <2>2. phase \in {"concurrent", "parallel"}
    BY <2>1, SweepGoesOn
  <2>3. phase # "run" /\ phase' # "run"
    BY <2>1, <2>2
  <2>4. Garbage(at[w].page) \in SUBSET (allocated \ marked)
    BY DEF Garbage
  <2> QED BY <2>1, <2>3, <2>4, Reclaims
<1>2. ASSUME FreeLargeRegion(w) PROVE Store!Next
  <2> DEFINE some == allocated \cap LargeAt(at[w].page)
  <2>1. /\ at[w].pc = "large region" /\ allocated' = allocated \ some
        /\ marked' = marked /\ phase' = phase
    BY <1>2 DEF FreeLargeRegion
  <2>2. phase \in {"concurrent", "parallel"}
    BY <2>1, SweepGoesOn
  <2>3. phase # "run" /\ phase' # "run"
    BY <2>1, <2>2
  <2>4. LargeAt(at[w].page) \cap marked = {}
    BY <2>1, ClearingIs DEF Clearing
  <2>5. some \in SUBSET (allocated \ marked)
    BY <2>4
  <2> HIDE DEF some
  <2> QED BY <2>1, <2>3, <2>5, Reclaims
<1>3. ASSUME \/ LookAtPage(w) \/ Lock(w) \/ UpdateLocked(w) \/ UpdateGlobals(w) \/ ClearRunPage(w)
             \/ FreeRunRegion(w) \/ Unlock(w) \/ ClearLargePage(w)
      PROVE  UNCHANGED Store!vars
  <2>1. UNCHANGED <<objects, phase>>
    BY <1>3 DEF LookAtPage, Lock, UpdateLocked, UpdateGlobals, ClearRunPage, FreeRunRegion, Unlock,
                ClearLargePage
  <2> QED BY <2>1, StoreStays DEF objects
<1> QED BY <1>1, <1>2, <1>3

\* Every step is one of the store, or changes nothing of it.
LEMMA StoreStep == AllocInv /\ [Next]_vars => [Store!Next]_(Store!vars)
<1> SUFFICES ASSUME AllocInv, [Next]_vars PROVE [Store!Next]_(Store!vars)
  OBVIOUS
<1>1. ASSUME NEW c \in Class, AllocLocal(c) \/ AllocRelocalised(c) \/ AllocFetched(c) \/ NewRun(c)
      PROVE  Store!Next
  BY <1>1, StoreMutator
<1>2. CASE \/ \E c \in Class : TakeRunPage(c) \/ AllocRunFails(c)
           \/ TakeLargePages \/ LabelLargeHead \/ UNCHANGED vars
  BY <1>2, StoreMutatorStays
<1>3. CASE \/ Mark \/ BeginConcurrentSweep \/ BeginParallelSweep \/ EndConcurrentSweep
           \/ EndParallelSweep
  BY <1>3, StoreCollector
<1>4. ASSUME NEW w \in Workers,
             \/ LookAtPage(w) \/ Lock(w) \/ SweepRun(w) \/ UpdateLocked(w) \/ UpdateGlobals(w)
             \/ ClearRunPage(w) \/ FreeRunRegion(w) \/ Unlock(w)
             \/ ClearLargePage(w) \/ FreeLargeRegion(w)
      PROVE  [Store!Next]_(Store!vars)
  BY <1>4, StoreWorker
<1>5. CASE NewLargeObject
  BY <1>5, StoreLargeObject
<1> QED BY <1>1, <1>2, <1>3, <1>4, <1>5 DEF Next

\* ImplementsStore: an allocation gives cells that no object in use has, and what the mutator
\* and the workers reclaim, in a concurrent sweep or in a parallel one, is what the collection
\* did not mark, all of it and nothing else.
THEOREM HeapImplementsStore == Spec => ImplementsStore
<1>1. Init => Store!Init
  BY DEF Init, Store!Init
<1> QED BY <1>1, AllocAlways, StoreStep, PTL DEF Spec, ImplementsStore, Store!Spec
=============================================================================
