-------------------------- MODULE PointerSetProofs --------------------------
(***************************************************************************)
(* The table is a set, for any pointers, hash function, sizes and initial  *)
(* capacity: every probe ends, what is stored is found and stored once,    *)
(* whatever is shifted back by an erasure or rebuilt when the table grows. *)
(*                                                                         *)
(* The loops of the code are recursive functions here, and what they       *)
(* compute is proved by induction on the number of rounds, from Induction. *)
(***************************************************************************)
EXTENDS PointerSet, FiniteSetTheorems, TLAPS

-----------------------------------------------------------------------------
(* Natural numbers.                                                        *)

\* Of natural numbers there is a least.
LEMMA Least ==
  ASSUME NEW T \in SUBSET Nat, T # {}
  PROVE  \E n \in T : \A m \in T : n <= m
<1> DEFINE Below(n) == 0..(n - 1)
           U == {Below(n) : n \in T}
           R == StrictSubsetOrdering(Nat)
<1>1. IsWellFoundedOn(R, FiniteSubsetsOf(Nat)) BY FS_StrictSubsetOrderingWellFounded
<1>2. ASSUME NEW n \in T PROVE Below(n) \in FiniteSubsetsOf(Nat)
  <2>1. n \in Nat OBVIOUS
  <2>2. IsFiniteSet(0..(n - 1)) BY <2>1, FS_Interval
  <2>3. 0..(n - 1) \in SUBSET Nat BY <2>1
  <2> QED BY <2>2, <2>3 DEF FiniteSubsetsOf
<1>3. U \subseteq FiniteSubsetsOf(Nat) /\ U # {} BY <1>2
<1>4. PICK u \in U : \A v \in U : <<v, u>> \notin R
  <2> HIDE DEF U, R
  <2> QED BY <1>1, <1>3, WFMin
<1>5. PICK n \in T : u = Below(n) OBVIOUS
<1>6. ASSUME NEW m \in T PROVE n <= m
  <2> SUFFICES ASSUME m < n PROVE FALSE OBVIOUS
  <2>1. m \in Nat /\ n \in Nat OBVIOUS
  <2>2. Below(m) \subseteq Below(n) /\ m \in Below(n) /\ m \notin Below(m) BY <2>1
  <2>3. Below(m) \in SUBSET Nat /\ Below(n) \in SUBSET Nat BY <2>1
  <2>4. <<Below(m), Below(n)>> \in R BY <2>2, <2>3 DEF StrictSubsetOrdering
  <2> QED BY <1>4, <1>5, <2>4
<1> QED BY <1>6

\* What holds for 0, and for the successor of each number it holds for, holds for all.
LEMMA Induction ==
  ASSUME NEW T, 0 \in T, \A n \in Nat : n \in T => n + 1 \in T
  PROVE  Nat \subseteq T
<1> SUFFICES ASSUME Nat \ T # {} PROVE FALSE
  OBVIOUS
<1>1. PICK n \in Nat \ T : \A m \in Nat \ T : n <= m
  BY Least
<1>2. n - 1 \in Nat /\ n - 1 \notin Nat \ T
  BY <1>1
<1>3. (n - 1) + 1 = n
  BY <1>1
<1> QED BY <1>1, <1>2, <1>3

\* A loop: what each round makes of the state that the round before it has left.
IsLoop(f, X, x, step, N) ==
  /\ f \in [0..N -> X]
  /\ f[0] = x /\ \A n \in 0..N - 1 : f[n + 1] = step[<<n, f[n]>>]

\* Every loop of a number of rounds has a state after each of them.
LEMMA LoopRuns ==
  ASSUME NEW X, NEW x \in X, NEW step \in [Nat \X X -> X], NEW N \in Nat
  PROVE  \E f : IsLoop(f, X, x, step, N)
<1> DEFINE IsRun(f, n) ==
             f[0] = x /\ \A i \in 0..n - 1 : f[i + 1] = step[<<i, f[i]>>]
           T == {n \in Nat : \E f \in [0..n -> X] : IsRun(f, n)}
<1>1. 0 \in T
  <2>1. [i \in 0..0 |-> x] \in [0..0 -> X] /\ IsRun([i \in 0..0 |-> x], 0) OBVIOUS
  <2> QED BY <2>1
<1>2. ASSUME NEW n \in Nat, n \in T PROVE n + 1 \in T
  <2>1. PICK f \in [0..n -> X] : IsRun(f, n) BY <1>2
  <2> DEFINE g == [i \in 0..n + 1 |-> IF i = n + 1 THEN step[<<n, f[n]>>] ELSE f[i]]
  <2>2. f[n] \in X /\ step[<<n, f[n]>>] \in X OBVIOUS
  <2>3. g \in [0..n + 1 -> X] BY <2>2
  <2>4. g[0] = x BY <2>1
  <2>5. ASSUME NEW i \in 0..(n + 1) - 1 PROVE g[i + 1] = step[<<i, g[i]>>]
    <3>1. CASE i = n
      <4>1. n + 1 \in 0..n + 1 /\ n \in 0..n + 1 /\ n # n + 1 OBVIOUS
      <4>2. g[n + 1] = step[<<n, f[n]>>] /\ g[n] = f[n] BY <4>1
      <4> QED BY <3>1, <4>2
    <3>2. CASE i # n
      <4>1. i \in 0..n - 1 /\ i + 1 # n + 1 /\ i + 1 \in 0..n + 1 /\ i \in 0..n + 1 /\ i # n + 1
        BY <3>2
      <4>2. f[i + 1] = step[<<i, f[i]>>] BY <2>1, <4>1
      <4> QED BY <4>1, <4>2
    <3> QED BY <3>1, <3>2
  <2> HIDE DEF g
  <2>6. IsRun(g, n + 1) BY <2>4, <2>5
  <2> QED BY <2>3, <2>6
<1> HIDE DEF T
<1>3. N \in T BY <1>1, <1>2, Induction
<1> QED BY <1>3 DEF T, IsLoop

-----------------------------------------------------------------------------
(* Slots and distances.                                                    *)

\* Of two numbers the larger is the smaller mod c, but for one c at most.
LEMMA ModIs ==
  ASSUME NEW c \in Nat \ {0}, NEW a \in Int
  PROVE  /\ a \in 0..c - 1 => a % c = a
         /\ a \in c..(c + c) - 1 => a % c = a - c
         /\ a \in -c..-1 => a % c = a + c
         /\ a % c \in 0..c - 1
OBVIOUS

\* How far it is from slot a on to slot b, in a table of capacity c.
Ahead(c, a, b) == IF a <= b THEN b - a ELSE b - a + c

\* The tables of capacity c.
Tables(c) == [0..c - 1 -> Ptr \cup {nullptr}]

\* What the masks compute.
LEMMA MasksAre ==
  ASSUME NEW c \in Nat \ {0}, NEW slots \in Tables(c)
  PROVE  /\ Capacity(slots) = c
         /\ \A a, b \in 0..c - 1 : Distance(slots, a, b) = Ahead(c, a, b)
         /\ \A a, d \in 0..c - 1 :
              /\ Behind(slots, a, d) = IF a + d < c THEN a + d ELSE a + d - c
              /\ Behind(slots, a, d) \in 0..c - 1
              /\ Ahead(c, a, Behind(slots, a, d)) = d
<1>1. Capacity(slots) = c
  <2>1. DOMAIN slots = 0..c - 1 BY DEF Tables
  <2> QED BY <2>1, FS_Interval DEF Capacity
<1>2. ASSUME NEW a \in 0..c - 1, NEW b \in 0..c - 1
      PROVE  Distance(slots, a, b) = Ahead(c, a, b)
  <2>1. CASE a <= b
    <3>1. b - a \in 0..c - 1 /\ b - a \in Int BY <2>1
    <3>2. (b - a) % c = b - a BY <3>1, ModIs
    <3> QED BY <1>1, <2>1, <3>2 DEF Distance, Ahead
  <2>2. CASE ~(a <= b)
    <3>1. b - a \in -c..-1 /\ b - a \in Int BY <2>2
    <3>2. (b - a) % c = b - a + c BY <3>1, ModIs
    <3> QED BY <1>1, <2>2, <3>2 DEF Distance, Ahead
  <2> QED BY <2>1, <2>2
<1>3. ASSUME NEW a \in 0..c - 1, NEW d \in 0..c - 1
      PROVE  Behind(slots, a, d) = IF a + d < c THEN a + d ELSE a + d - c
  <2>1. CASE a + d < c
    <3>1. a + d \in 0..c - 1 /\ a + d \in Int BY <2>1
    <3>2. (a + d) % c = a + d BY <3>1, ModIs
    <3> QED BY <1>1, <2>1, <3>2 DEF Behind
  <2>2. CASE ~(a + d < c)
    <3>1. a + d \in c..(c + c) - 1 /\ a + d \in Int BY <2>2
    <3>2. (a + d) % c = (a + d) - c BY <3>1, ModIs
    <3> QED BY <1>1, <2>2, <3>2 DEF Behind
  <2> QED BY <2>1, <2>2
<1> QED BY <1>1, <1>2, <1>3 DEF Ahead


\* The slot so far behind another is a slot of the table, and that far ahead of it.
LEMMA BehindIs ==
  ASSUME NEW c \in Nat \ {0}, NEW slots \in Tables(c), NEW a \in 0..c - 1, NEW d \in 0..c - 1
  PROVE  Behind(slots, a, d) \in 0..c - 1 /\ Ahead(c, a, Behind(slots, a, d)) = d
BY MasksAre

\* The slot a probe starts at.
LEMMA HomeIs ==
  ASSUME Hash \in [Ptr -> HashValue], NEW c \in Nat \ {0}, NEW slots \in Tables(c),
         NEW p \in Ptr
  PROVE  Home(slots, p) \in 0..c - 1 /\ Home(slots, p) = Hash[p] % c
<1>1. Hash[p] \in HashValue OBVIOUS
<1>2. Hash[p] \in Nat BY <1>1, PtrAssumption
<1>3. Hash[p] \in Int BY <1>2
<1>4. Hash[p] % c \in 0..c - 1 BY <1>3, ModIs
<1> QED BY <1>4, MasksAre DEF Home

-----------------------------------------------------------------------------
(* Probing.                                                                *)

\* Every probe finds what it looks for: before it gets to slot k, it sees neither an empty
\* slot nor the pointer in another slot.
NotBefore(slots, k, l) ==
  Distance(slots, Home(slots, slots[k]), l) < Distance(slots, Home(slots, slots[k]), k)
    => slots[l] \notin {nullptr, slots[k]}
Valid(slots) == \A k \in Occupied(slots), l \in DOMAIN slots : NotBefore(slots, k, l)

HasRoom(slots) == \E k \in DOMAIN slots : slots[k] = nullptr

\* Two slots are at different distances from a third.
LEMMA AheadDiffers ==
  ASSUME NEW c \in Nat \ {0}, NEW a \in 0..c - 1, NEW b \in 0..c - 1, NEW d \in 0..c - 1
  PROVE  /\ Ahead(c, a, b) \in 0..c - 1
         /\ Ahead(c, a, b) = Ahead(c, a, d) => b = d
BY DEF Ahead

\* In a table that has room a probe ends, and nowhere before.
LEMMA ProbeEnds ==
  ASSUME Hash \in [Ptr -> HashValue], NEW c \in Nat \ {0}, NEW slots \in Tables(c),
         NEW p \in Ptr, NEW e \in DOMAIN slots, slots[e] \in {nullptr, p}
  PROVE  /\ FindSlot(slots, p) \in 0..c - 1
         /\ slots[FindSlot(slots, p)] \in {nullptr, p}
         /\ \A l \in 0..c - 1 : slots[l] \in {nullptr, p} =>
              Ahead(c, Home(slots, p), FindSlot(slots, p)) <= Ahead(c, Home(slots, p), l)
<1> DEFINE ends == {k \in DOMAIN slots : slots[k] \in {nullptr, p}}
           h == Home(slots, p)
           T == {Ahead(c, h, k) : k \in ends}
<1>1. DOMAIN slots = 0..c - 1 BY DEF Tables
<1>2. h \in 0..c - 1 BY HomeIs
<1> HIDE DEF h
<1>3. T \in SUBSET Nat /\ T # {}
  <2>1. \A k \in ends : Ahead(c, h, k) \in 0..c - 1 BY <1>1, <1>2, AheadDiffers
  <2>2. e \in ends OBVIOUS
  <2> QED BY <2>1, <2>2
<1>4. PICK n \in T : \A m \in T : n <= m
  <2> HIDE DEF T
  <2> QED BY <1>3, Least
<1>5. PICK k \in ends : n = Ahead(c, h, k) OBVIOUS
<1>6. \A l \in ends : Distance(slots, h, k) <= Distance(slots, h, l)
  BY <1>1, <1>2, <1>4, <1>5, MasksAre
<1>7. FindSlot(slots, p) = CHOOSE x \in ends : \A l \in ends :
        Distance(slots, h, x) <= Distance(slots, h, l)
  BY DEF FindSlot, h
<1>8. /\ FindSlot(slots, p) \in ends
      /\ \A l \in ends : Distance(slots, h, FindSlot(slots, p)) <= Distance(slots, h, l)
  <2> HIDE DEF ends
  <2> QED BY <1>5, <1>6, <1>7
<1> QED BY <1>1, <1>2, <1>8, MasksAre DEF h

\* What is stored is stored once.
LEMMA StoredOnce ==
  ASSUME Hash \in [Ptr -> HashValue], NEW c \in Nat \ {0}, NEW slots \in Tables(c),
         Valid(slots), NEW k \in Occupied(slots), NEW l \in Occupied(slots),
         slots[k] = slots[l]
  PROVE  k = l
<1> DEFINE h == Home(slots, slots[k])
<1>1. k \in 0..c - 1 /\ l \in 0..c - 1 /\ slots[k] \in Ptr BY DEF Tables, Occupied
<1>2. h \in 0..c - 1 BY <1>1, HomeIs
<1>3. /\ Distance(slots, h, k) = Ahead(c, h, k) /\ Distance(slots, h, l) = Ahead(c, h, l)
  BY <1>1, <1>2, MasksAre
<1>4. ~(Ahead(c, h, l) < Ahead(c, h, k)) /\ ~(Ahead(c, h, k) < Ahead(c, h, l))
  BY <1>3 DEF Valid, NotBefore, Occupied
<1>5. Ahead(c, h, k) \in 0..c - 1 /\ Ahead(c, h, l) \in 0..c - 1 BY <1>1, <1>2, AheadDiffers
<1>6. Ahead(c, h, k) = Ahead(c, h, l) BY <1>4, <1>5
<1> HIDE DEF h
<1> QED BY <1>1, <1>2, <1>6, AheadDiffers

\* A probe finds what is stored, and nothing else.
LEMMA ProbeFinds ==
  ASSUME Hash \in [Ptr -> HashValue], NEW c \in Nat \ {0}, NEW slots \in Tables(c),
         Valid(slots), HasRoom(slots), NEW p \in Ptr
  PROVE  /\ ContainsPtr(slots, p) <=> p \in Stored(slots)
         /\ \A k \in Occupied(slots) : slots[k] = p => FindSlot(slots, p) = k
<1> DEFINE f == FindSlot(slots, p)
           h == Home(slots, p)
<1>1. DOMAIN slots = 0..c - 1 BY DEF Tables
<1>2. PICK e \in DOMAIN slots : slots[e] = nullptr BY DEF HasRoom
<1>3. /\ f \in 0..c - 1 /\ slots[f] \in {nullptr, p}
      /\ \A l \in 0..c - 1 : slots[l] \in {nullptr, p} => Ahead(c, h, f) <= Ahead(c, h, l)
  BY <1>2, ProbeEnds
<1>4. h \in 0..c - 1 BY HomeIs
<1>5. ASSUME NEW k \in Occupied(slots), slots[k] = p PROVE f = k
  <2>1. k \in 0..c - 1 BY <1>1 DEF Occupied
  <2>2. Distance(slots, h, f) = Ahead(c, h, f) /\ Distance(slots, h, k) = Ahead(c, h, k)
    BY <1>3, <1>4, <2>1, MasksAre
  <2>3. ~(Ahead(c, h, f) < Ahead(c, h, k))
    BY <1>1, <1>3, <1>5, <2>2 DEF Valid, NotBefore
  <2>4. Ahead(c, h, f) <= Ahead(c, h, k) BY <1>3, <1>5, <2>1
  <2>5. Ahead(c, h, f) \in 0..c - 1 /\ Ahead(c, h, k) \in 0..c - 1
    BY <1>3, <1>4, <2>1, AheadDiffers
  <2>6. Ahead(c, h, f) = Ahead(c, h, k) BY <2>3, <2>4, <2>5
  <2> HIDE DEF f, h
  <2> QED BY <1>3, <1>4, <2>1, <2>6, AheadDiffers
<1>6. slots # Table(0)
  <2>1. DOMAIN Table(0) = 0..0 - 1 BY DEF Table
  <2>2. 0 \in DOMAIN slots BY <1>1
  <2> QED BY <2>1, <2>2
<1>7. slots[f] = p <=> p \in Stored(slots)
  BY <1>1, <1>3, <1>5, PtrAssumption DEF Stored, Occupied
<1> QED BY <1>5, <1>6, <1>7 DEF ContainsPtr


-----------------------------------------------------------------------------
(* Inserting.                                                              *)

\* Valid, in terms of the capacity.
LEMMA ValidIs ==
  ASSUME Hash \in [Ptr -> HashValue], NEW c \in Nat \ {0}, NEW slots \in Tables(c)
  PROVE  Valid(slots) <=>
           \A k \in Occupied(slots), l \in 0..c - 1 :
             Ahead(c, Hash[slots[k]] % c, l) < Ahead(c, Hash[slots[k]] % c, k)
               => slots[l] # nullptr /\ slots[l] # slots[k]
<1>1. DOMAIN slots = 0..c - 1 BY DEF Tables
<1>2. ASSUME NEW k \in Occupied(slots), NEW l \in 0..c - 1
      PROVE  NotBefore(slots, k, l) <=>
               (Ahead(c, Hash[slots[k]] % c, l) < Ahead(c, Hash[slots[k]] % c, k)
                  => slots[l] # nullptr /\ slots[l] # slots[k])
  <2>1. k \in 0..c - 1 /\ slots[k] \in Ptr BY <1>1 DEF Tables, Occupied
  <2>2. Home(slots, slots[k]) \in 0..c - 1 /\ Home(slots, slots[k]) = Hash[slots[k]] % c
    BY <2>1, HomeIs
  <2>3. /\ Distance(slots, Home(slots, slots[k]), l) = Ahead(c, Hash[slots[k]] % c, l)
        /\ Distance(slots, Home(slots, slots[k]), k) = Ahead(c, Hash[slots[k]] % c, k)
    BY <2>1, <2>2, MasksAre
  <2> QED BY <2>3 DEF NotBefore
<1> QED BY <1>1, <1>2 DEF Valid

\* A new table is empty.
LEMMA TableIsEmpty ==
  ASSUME NEW c \in Nat
  PROVE  /\ Table(c) \in Tables(c) /\ Capacity(Table(c)) = c
         /\ Occupied(Table(c)) = {} /\ Stored(Table(c)) = {} /\ Valid(Table(c))
         /\ c # 0 => HasRoom(Table(c))
<1>1. Table(c) \in Tables(c) /\ DOMAIN Table(c) = 0..c - 1 BY DEF Table, Tables
<1>2. Occupied(Table(c)) = {} BY DEF Table, Occupied
<1>3. Capacity(Table(c)) = c BY <1>1, FS_Interval DEF Capacity
<1>4. c # 0 => HasRoom(Table(c))
  <2> SUFFICES ASSUME c # 0 PROVE HasRoom(Table(c)) OBVIOUS
  <2>1. 0 \in DOMAIN Table(c) /\ Table(c)[0] = nullptr BY <1>1 DEF Table
  <2> QED BY <2>1 DEF HasRoom
<1> QED BY <1>1, <1>2, <1>3, <1>4 DEF Stored, Valid

\* A pointer that is put into a table that has room is found, and so is what was in it.
LEMMA PutAdds ==
  ASSUME Hash \in [Ptr -> HashValue], NEW c \in Nat \ {0}, NEW slots \in Tables(c),
         Valid(slots), HasRoom(slots), NEW p \in Ptr, p \notin Stored(slots)
  PROVE  /\ Put(slots, p) \in Tables(c) /\ Valid(Put(slots, p))
         /\ Stored(Put(slots, p)) = Stored(slots) \cup {p}
         /\ \E k \in (0..c - 1) \ Occupied(slots) :
              Occupied(Put(slots, p)) = Occupied(slots) \cup {k}
<1> DEFINE f == FindSlot(slots, p)
           h == Hash[p] % c
           new == Put(slots, p)
<1>1. DOMAIN slots = 0..c - 1 BY DEF Tables
<1>2. PICK e \in DOMAIN slots : slots[e] = nullptr BY DEF HasRoom
<1>3. h = Home(slots, p) /\ h \in 0..c - 1 BY HomeIs
<1>4. /\ f \in 0..c - 1 /\ slots[f] \in {nullptr, p}
      /\ \A l \in 0..c - 1 : slots[l] \in {nullptr, p} => Ahead(c, h, f) <= Ahead(c, h, l)
  BY <1>2, <1>3, ProbeEnds
<1>5. slots[f] = nullptr BY <1>1, <1>4, PtrAssumption DEF Stored, Occupied
<1>6. /\ new = [slots EXCEPT ![f] = p] /\ new \in Tables(c) /\ new[f] = p
      /\ \A l \in (0..c - 1) \ {f} : new[l] = slots[l]
  BY <1>1, <1>4 DEF Put, Tables
<1> HIDE DEF f, h, new
<1>7. DOMAIN new = 0..c - 1 BY <1>6 DEF Tables
<1>8. f \notin Occupied(slots) BY <1>5 DEF Occupied
<1>9. Occupied(new) = Occupied(slots) \cup {f}
  BY <1>1, <1>4, <1>5, <1>6, <1>7, PtrAssumption DEF Occupied
<1>10. Stored(new) = Stored(slots) \cup {p}
  <2>1. \A k \in Occupied(slots) : k \in 0..c - 1 /\ new[k] = slots[k]
    BY <1>1, <1>6, <1>8 DEF Occupied
  <2>2. {new[k] : k \in Occupied(slots)} = Stored(slots) BY <2>1 DEF Stored
  <2>3. Stored(new) = {new[k] : k \in Occupied(slots)} \cup {new[f]} BY <1>9 DEF Stored
  <2> QED BY <1>6, <2>2, <2>3
<1>11. Valid(new)
  <2> SUFFICES ASSUME NEW k \in Occupied(new), NEW l \in 0..c - 1,
                      Ahead(c, Hash[new[k]] % c, l) < Ahead(c, Hash[new[k]] % c, k)
               PROVE  new[l] # nullptr /\ new[l] # new[k]
    BY <1>6, ValidIs
  <2>1. CASE k = f
    <3>1. new[k] = p /\ h = Hash[new[k]] % c BY <1>6, <2>1 DEF h
    <3>2. Ahead(c, h, l) < Ahead(c, h, f) BY <2>1, <3>1
    <3>3. Ahead(c, h, l) \in 0..c - 1 /\ Ahead(c, h, f) \in 0..c - 1
      BY <1>3, <1>4, AheadDiffers
    <3>4. slots[l] \notin {nullptr, p} BY <1>4, <3>2, <3>3
    <3>5. l # f BY <1>5, <3>4
    <3> QED BY <1>6, <3>1, <3>4, <3>5
  <2>2. CASE k # f
    <3>1. k \in Occupied(slots) /\ k \in 0..c - 1 /\ new[k] = slots[k]
      BY <1>1, <1>6, <1>9, <2>2 DEF Occupied
    <3>2. slots[l] # nullptr /\ slots[l] # slots[k] BY <3>1, ValidIs
    <3>3. l # f BY <1>5, <3>2
    <3> QED BY <1>6, <3>1, <3>2, <3>3
  <2> QED BY <2>1, <2>2
<1> QED BY <1>4, <1>6, <1>8, <1>9, <1>10, <1>11 DEF new

\* The occupied slots of a table are finitely many, and leave room unless they are all.
LEMMA OccupiedCount ==
  ASSUME NEW c \in Nat, NEW slots \in Tables(c)
  PROVE  /\ IsFiniteSet(Occupied(slots)) /\ Cardinality(Occupied(slots)) \in Nat
         /\ Occupied(slots) \subseteq 0..c - 1
         /\ Cardinality(Occupied(slots)) < c => HasRoom(slots)
<1>1. DOMAIN slots = 0..c - 1 BY DEF Tables
<1>2. IsFiniteSet(0..c - 1) /\ Cardinality(0..c - 1) = c BY FS_Interval
<1>3. Occupied(slots) \in SUBSET (0..c - 1) BY <1>1 DEF Occupied
<1>4. IsFiniteSet(Occupied(slots)) BY <1>2, <1>3, FS_Subset
<1>5. Cardinality(Occupied(slots)) \in Nat BY <1>4, FS_CardinalityType
<1>6. ASSUME Cardinality(Occupied(slots)) < c PROVE HasRoom(slots)
  <2>1. Occupied(slots) # 0..c - 1 BY <1>2, <1>5, <1>6
  <2>2. PICK k \in 0..c - 1 : k \notin Occupied(slots) BY <1>3, <2>1
  <2> QED BY <1>1, <2>2 DEF Occupied, HasRoom
<1> QED BY <1>3, <1>4, <1>5, <1>6


\* A table that is installed holds what the one before it did.
LEMMA InstallKeeps ==
  ASSUME Hash \in [Ptr -> HashValue], NEW c \in Nat, NEW slots \in Tables(c), Valid(slots),
         NEW cap \in Nat \ {0}, Cardinality(Occupied(slots)) < cap
  PROVE  /\ InstallTable(slots, cap) \in Tables(cap) /\ Valid(InstallTable(slots, cap))
         /\ Stored(InstallTable(slots, cap)) = Stored(slots)
         /\ Cardinality(Occupied(InstallTable(slots, cap))) = Cardinality(Occupied(slots))
<1> DEFINE Body(g, i) == IF i = 0 THEN Table(cap)
                         ELSE IF slots[i - 1] = nullptr THEN g[i - 1]
                         ELSE Put(g[i - 1], slots[i - 1])
           step == [x \in Nat \X Tables(cap) |->
                      IF x[1] \in 0..c - 1 /\ slots[x[1]] # nullptr
                        THEN Put(x[2], slots[x[1]]) ELSE x[2]]
           new == CHOOSE g : g = [i \in 0..c |-> Body(g, i)]
           Before(i) == {k \in 0..i - 1 : slots[k] # nullptr}
           P(i) == /\ new[i] \in Tables(cap) /\ Valid(new[i])
                   /\ Stored(new[i]) = {slots[k] : k \in Before(i)}
                   /\ Cardinality(Occupied(new[i])) = Cardinality(Before(i))
           T == {i \in Nat : i <= c => P(i)}
<1>1. DOMAIN slots = 0..c - 1 /\ Capacity(slots) = c
  <2>1. DOMAIN slots = 0..c - 1 BY DEF Tables
  <2> QED BY <2>1, FS_Interval DEF Capacity
<1>2. new = [i \in 0..c |-> Body(new, i)]
  <2>1. ASSUME NEW n \in Nat, NEW t \in Tables(cap)
        PROVE  (IF n \in 0..c - 1 /\ slots[n] # nullptr THEN Put(t, slots[n]) ELSE t)
                 \in Tables(cap)
    <3>1. ASSUME n \in 0..c - 1, slots[n] # nullptr PROVE Put(t, slots[n]) \in Tables(cap)
      BY <3>1 DEF Put, Tables
    <3> QED BY <3>1
  <2>2. step \in [Nat \X Tables(cap) -> Tables(cap)] BY <2>1
  <2>3. Table(cap) \in Tables(cap) BY TableIsEmpty
  <2>4. PICK g \in [0..c -> Tables(cap)] :
          g[0] = Table(cap) /\ \A n \in 0..c - 1 : g[n + 1] = step[<<n, g[n]>>]
    <3> DEFINE X == Tables(cap)
               t == Table(cap)
    <3>1. step \in [Nat \X X -> X] /\ t \in X BY <2>2, <2>3
    <3> HIDE DEF step, X, t
    <3>2. \E g : IsLoop(g, X, t, step, c) BY <3>1, LoopRuns
    <3> QED BY <3>2 DEF X, t, IsLoop
  <2>5. ASSUME NEW i \in 0..c PROVE g[i] = Body(g, i)
    <3>1. CASE i = 0 BY <2>4, <3>1
    <3>2. CASE i # 0
      <4>1. i - 1 \in 0..c - 1 /\ i - 1 \in Nat /\ (i - 1) + 1 = i BY <3>2
      <4>2. g[i] = step[<<i - 1, g[i - 1]>>] BY <2>4, <4>1
      <4>3. <<i - 1, g[i - 1]>> \in Nat \X Tables(cap) BY <4>1
      <4> QED BY <3>2, <4>1, <4>2, <4>3
    <3> QED BY <3>1, <3>2
  <2>6. g = [i \in 0..c |-> Body(g, i)] BY <2>5
  <2> HIDE DEF Body
  <2> QED BY <2>6
<1>3. InstallTable(slots, cap) = new[c] BY <1>1 DEF InstallTable
<1>4. \A i \in 0..c : IsFiniteSet(Before(i)) /\ Cardinality(Before(i)) \in Nat
                      /\ Before(i) \subseteq Occupied(slots)
  <2> SUFFICES ASSUME NEW i \in 0..c
               PROVE  IsFiniteSet(Before(i)) /\ Cardinality(Before(i)) \in Nat
                      /\ Before(i) \subseteq Occupied(slots)
    OBVIOUS
  <2>1. Before(i) \subseteq Occupied(slots) BY <1>1 DEF Occupied
  <2> HIDE DEF Before
  <2> QED BY <2>1, OccupiedCount, FS_Subset, FS_CardinalityType
<1>5. 0 \in T
  <2>1. new[0] = Table(cap)
    <3> HIDE DEF new
    <3> QED BY <1>2
  <2>2. Before(0) = {} OBVIOUS
  <2>3. Cardinality({}) = 0 BY FS_EmptySet
  <2>4. Stored(new[0]) = {slots[k] : k \in Before(0)} BY <2>1, <2>2, TableIsEmpty
  <2> HIDE DEF new, Before
  <2> QED BY <2>1, <2>2, <2>3, <2>4, TableIsEmpty
<1>6. ASSUME NEW i \in Nat, i \in T PROVE i + 1 \in T
  <2> HIDE DEF P
  <2> SUFFICES ASSUME i + 1 <= c PROVE P(i + 1)
    OBVIOUS
  <2>0. P(i) BY <1>6
  <2> USE DEF P
  <2>1. i \in 0..c - 1 /\ i \in 0..c /\ i + 1 \in 0..c /\ P(i)
    <3> HIDE DEF P
    <3> QED BY <2>0
  <2>2. new[i + 1] = IF slots[i] = nullptr THEN new[i] ELSE Put(new[i], slots[i])
    <3>1. i + 1 # 0 /\ (i + 1) - 1 = i OBVIOUS
    <3>2. new[i + 1] = Body(new, i + 1) BY <1>2, <2>1
    <3> HIDE DEF new
    <3> QED BY <3>1, <3>2
  <2>3. CASE slots[i] = nullptr
    <3>1. Before(i + 1) = Before(i) BY <2>1, <2>3
    <3> HIDE DEF new, Before
    <3> QED BY <2>1, <2>2, <2>3, <3>1
  <2>4. CASE slots[i] # nullptr
    <3>1. Before(i + 1) = Before(i) \cup {i} /\ i \notin Before(i) BY <2>1, <2>4
    <3>2. i \in Occupied(slots) /\ slots[i] \in Ptr BY <1>1, <2>1, <2>4 DEF Occupied, Tables
    <3>3. new[i + 1] = Put(new[i], slots[i]) BY <2>2, <2>4
    <3> HIDE DEF new
    <3>4. slots[i] \notin Stored(new[i])
      <4>1. \A k \in Before(i) : slots[k] # slots[i]
        <5>1. c \in Nat \ {0} BY <2>1
        <5>2. Before(i) \subseteq Occupied(slots) BY <1>4, <2>1
        <5> HIDE DEF Before
        <5> QED BY <3>1, <3>2, <5>1, <5>2, StoredOnce
      <4> QED BY <2>1, <4>1
    <3> HIDE DEF Before
    <3>5. /\ IsFiniteSet(Before(i)) /\ Cardinality(Before(i)) \in Nat
          /\ Before(i) \subseteq Occupied(slots)
      BY <1>4, <2>1
    <3>6. HasRoom(new[i])
      <4>1. Cardinality(Before(i)) <= Cardinality(Occupied(slots))
        BY <3>5, OccupiedCount, FS_Subset
      <4>2. Cardinality(Occupied(slots)) \in Nat BY OccupiedCount
      <4>3. Cardinality(Occupied(new[i])) < cap BY <2>1, <3>5, <4>1, <4>2
      <4> QED BY <2>1, <4>3, OccupiedCount
    <3>7. /\ new[i + 1] \in Tables(cap) /\ Valid(new[i + 1])
          /\ Stored(new[i + 1]) = Stored(new[i]) \cup {slots[i]}
          /\ \E k \in (0..cap - 1) \ Occupied(new[i]) :
               Occupied(new[i + 1]) = Occupied(new[i]) \cup {k}
      BY <2>1, <3>2, <3>3, <3>4, <3>6, PutAdds
    <3>8. Cardinality(Before(i + 1)) = Cardinality(Before(i)) + 1
      BY <3>1, <3>5, FS_AddElement
    <3>9. IsFiniteSet(Occupied(new[i])) BY <2>1, OccupiedCount
    <3>10. Cardinality(Occupied(new[i + 1])) = Cardinality(Occupied(new[i])) + 1
      BY <3>7, <3>9, FS_AddElement
    <3>11. Stored(new[i + 1]) = {slots[k] : k \in Before(i + 1)}
      BY <2>1, <3>1, <3>7
    <3> QED BY <2>1, <3>7, <3>8, <3>10, <3>11
  <2> QED BY <2>3, <2>4
<1>7. c \in T
  <2> HIDE DEF T
  <2> QED BY <1>5, <1>6, Induction
<1>8. Before(c) = Occupied(slots) BY <1>1 DEF Occupied
<1>9. P(c)
  <2> HIDE DEF P
  <2> QED BY <1>7
<1> HIDE DEF new, Before
<1> QED BY <1>3, <1>8, <1>9 DEF Stored


-----------------------------------------------------------------------------
(* Erasing.                                                                *)

HomeOf(c, p) == Hash[p] % c

\* A cluster ends before the table does, at an empty slot.
LEMMA ClusterEnds ==
  ASSUME NEW c \in Nat \ {0}, NEW slots \in Tables(c), HasRoom(slots),
         NEW k \in Occupied(slots), NEW n, n = ClusterLength(slots, k)
  PROVE  /\ n \in Nat /\ n + 1 \in 1..c - 1
         /\ slots[Behind(slots, k, n + 1)] = nullptr
         /\ \A d \in 1..n : slots[Behind(slots, k, d)] # nullptr
<1> DEFINE T == {d \in 1..c - 1 : slots[Behind(slots, k, d)] = nullptr}
           IsLength(m) == /\ slots[Behind(slots, k, m + 1)] = nullptr
                          /\ \A d \in 1..m : slots[Behind(slots, k, d)] # nullptr
<1>1. DOMAIN slots = 0..c - 1 /\ k \in 0..c - 1 /\ slots[k] # nullptr
  BY DEF Tables, Occupied
<1>2. Capacity(slots) = c BY MasksAre
<1>3. PICK e \in 0..c - 1 : slots[e] = nullptr BY <1>1 DEF HasRoom
<1>4. Ahead(c, k, e) \in 1..c - 1 BY <1>1, <1>3 DEF Ahead
<1>5. Behind(slots, k, Ahead(c, k, e)) = e
  <2>1. Ahead(c, k, e) \in 0..c - 1 BY <1>4
  <2>2. \A a, d \in 0..c - 1 :
          Behind(slots, a, d) = IF a + d < c THEN a + d ELSE a + d - c
    BY MasksAre
  <2> QED BY <1>1, <1>3, <2>1, <2>2 DEF Ahead
<1>6. T # {} /\ T \in SUBSET Nat BY <1>3, <1>4, <1>5
<1>7. PICK m \in T : \A d \in T : m <= d
  <2> HIDE DEF T
  <2> QED BY <1>6, Least
<1>8. m - 1 \in 0..c - 1 /\ (m - 1) + 1 = m /\ m \in 1..c - 1 OBVIOUS
<1>9. IsLength(m - 1)
  <2>1. ASSUME NEW d \in 1..m - 1 PROVE slots[Behind(slots, k, d)] # nullptr
    <3>1. d \in 1..c - 1 /\ ~(m <= d) BY <1>8
    <3> QED BY <1>7, <3>1
  <2> QED BY <1>8, <2>1
<1>10. n = CHOOSE x \in 0..c - 1 : IsLength(x) BY <1>2 DEF ClusterLength
<1>11. n \in 0..c - 1 /\ IsLength(n)
  <2> HIDE DEF IsLength, T
  <2> QED BY <1>8, <1>9, <1>10
<1>12. n # c - 1
  <2> SUFFICES ASSUME n = c - 1 PROVE FALSE OBVIOUS
  <2>1. Behind(slots, k, n + 1) = k
    <3>1. Behind(slots, k, n + 1) = (k + c) % c BY <1>2 DEF Behind
    <3>2. k + c \in c..(c + c) - 1 /\ k + c \in Int BY <1>1
    <3>3. (k + c) % c = (k + c) - c BY <3>2, ModIs
    <3> QED BY <1>1, <3>1, <3>3
  <2> QED BY <1>1, <1>11, <2>1
<1> QED BY <1>11, <1>12

\* After d rounds: the pointers but the one that is erased are in the occupied slots but the
\* hole, each in one.  No probe for one of them meets an empty slot, and only those for what
\* is more than d slots behind the first hole pass the hole.
Shifted(c, slots, k, s, h, d) ==
  /\ s \in Tables(c) /\ h \in Occupied(slots) /\ Ahead(c, k, h) <= d
  /\ Occupied(s) = Occupied(slots)
  /\ {s[l] : l \in Occupied(slots) \ {h}} = Stored(slots) \ {slots[k]}
  /\ \A l, m \in Occupied(slots) \ {h} : s[l] = s[m] => l = m
  /\ \A l \in Occupied(slots) \ {h}, m \in 0..c - 1 :
       Ahead(c, HomeOf(c, s[l]), m) < Ahead(c, HomeOf(c, s[l]), l) =>
         m \in Occupied(slots) /\ (Ahead(c, k, l) <= d => m # h)

\* At first the slot of what is erased is the hole.
LEMMA ShiftedAtFirst ==
  ASSUME Hash \in [Ptr -> HashValue], NEW c \in Nat \ {0}, NEW slots \in Tables(c),
         Valid(slots), NEW k \in Occupied(slots)
  PROVE  Shifted(c, slots, k, slots, k, 0)
<1>1. DOMAIN slots = 0..c - 1 /\ k \in 0..c - 1 BY DEF Tables, Occupied
<1>2. Ahead(c, k, k) = 0 BY <1>1 DEF Ahead
<1>3. \A l, m \in Occupied(slots) : slots[l] = slots[m] => l = m BY StoredOnce
<1>4. {slots[l] : l \in Occupied(slots) \ {k}} = Stored(slots) \ {slots[k]}
  BY <1>3 DEF Stored
<1>5. ASSUME NEW l \in Occupied(slots) \ {k}, NEW m \in 0..c - 1,
             Ahead(c, HomeOf(c, slots[l]), m) < Ahead(c, HomeOf(c, slots[l]), l)
      PROVE  m \in Occupied(slots) /\ ~(Ahead(c, k, l) <= 0)
  <2>1. slots[m] # nullptr BY <1>5, ValidIs DEF HomeOf
  <2>2. l \in 0..c - 1 /\ l # k BY <1>1 DEF Occupied
  <2>3. ~(Ahead(c, k, l) <= 0) BY <1>1, <2>2 DEF Ahead
  <2> QED BY <1>1, <2>1, <2>3 DEF Occupied
<1> QED BY <1>2, <1>3, <1>4, <1>5 DEF Shifted

\* A slot that is passed on the way from the home to l, and an empty slot that is not.
LEMMA NotAround ==
  ASSUME NEW c \in Nat \ {0}, NEW k \in 0..c - 1, NEW a \in 0..c - 1, NEW l \in 0..c - 1,
         NEW i \in 0..c - 1, NEW z \in 0..c - 1,
         Ahead(c, k, i) < Ahead(c, k, z),
         Ahead(c, a, i) < Ahead(c, a, l), ~(Ahead(c, a, z) < Ahead(c, a, l))
  PROVE  Ahead(c, k, i) < Ahead(c, k, l) /\ ~(Ahead(c, k, z) < Ahead(c, k, l))
<1>1. CASE a <= l /\ k <= i BY <1>1 DEF Ahead
<1>2. CASE a <= l /\ ~(k <= i) BY <1>2 DEF Ahead
<1>3. CASE ~(a <= l) /\ k <= i BY <1>3 DEF Ahead
<1>4. CASE ~(a <= l) /\ ~(k <= i) BY <1>4 DEF Ahead
<1> QED BY <1>1, <1>2, <1>3, <1>4


\* A round that shifts or leaves the slot d + 1 behind the first hole.
LEMMA RoundShifts ==
  ASSUME Hash \in [Ptr -> HashValue], NEW c \in Nat \ {0}, NEW slots \in Tables(c),
         NEW k \in Occupied(slots), NEW z \in 0..c - 1, slots[z] = nullptr,
         NEW d \in Nat, d + 1 < Ahead(c, k, z), NEW i \in Occupied(slots), Ahead(c, k, i) = d + 1,
         NEW s, NEW h, Shifted(c, slots, k, s, h, d), NEW state,
         state = ShiftBack([slots |-> s, hole |-> h], i)
  PROVE  Shifted(c, slots, k, state.slots, state.hole, d + 1)
<1>1. /\ DOMAIN slots = 0..c - 1 /\ DOMAIN s = 0..c - 1 /\ s \in Tables(c)
      /\ Occupied(slots) \subseteq 0..c - 1 /\ k \in 0..c - 1
      /\ h \in Occupied(slots) /\ Ahead(c, k, h) <= d
  BY DEF Tables, Occupied, Shifted
<1>2. \A l \in Occupied(slots) : l \in 0..c - 1 /\ s[l] \in Ptr /\ HomeOf(c, s[l]) \in 0..c - 1
  <2> SUFFICES ASSUME NEW l \in Occupied(slots)
               PROVE  l \in 0..c - 1 /\ s[l] \in Ptr /\ HomeOf(c, s[l]) \in 0..c - 1
    OBVIOUS
  <2>1. l \in 0..c - 1 /\ s[l] \in Ptr BY <1>1 DEF Shifted, Occupied, Tables
  <2> QED BY <1>1, <2>1, HomeIs DEF HomeOf
<1>3. i # h
  BY <1>1
<1>4. z \notin Occupied(slots) BY DEF Occupied
<1>5. Crosses(s, h, i) <=> Ahead(c, HomeOf(c, s[i]), h) < Ahead(c, HomeOf(c, s[i]), i)
  <2>1. Home(s, s[i]) = HomeOf(c, s[i]) BY <1>1, <1>2, HomeIs DEF HomeOf
  <2>2. /\ Distance(s, HomeOf(c, s[i]), h) = Ahead(c, HomeOf(c, s[i]), h)
        /\ Distance(s, HomeOf(c, s[i]), i) = Ahead(c, HomeOf(c, s[i]), i)
    BY <1>1, <1>2, MasksAre
  <2> QED BY <2>1, <2>2 DEF Crosses
<1>6. ASSUME NEW l \in Occupied(slots) \ {h}, NEW m \in 0..c - 1,
             Ahead(c, HomeOf(c, s[l]), m) < Ahead(c, HomeOf(c, s[l]), l)
      PROVE  m \in Occupied(slots) /\ (Ahead(c, k, l) <= d => m # h)
  BY <1>6 DEF Shifted
<1>7. ASSUME NEW l \in Occupied(slots), Ahead(c, k, l) <= d + 1, l # i PROVE Ahead(c, k, l) <= d
  <2>1. /\ Ahead(c, k, l) \in 0..c - 1 /\ Ahead(c, k, i) \in 0..c - 1
        /\ Ahead(c, k, l) # Ahead(c, k, i)
    BY <1>1, <1>2, <1>7, AheadDiffers
  <2> QED BY <1>7, <2>1
<1>8. CASE ~Crosses(s, h, i)
  <2>1. state.slots = s /\ state.hole = h BY <1>8 DEF ShiftBack
  <2>2. ASSUME NEW l \in Occupied(slots) \ {h}, NEW m \in 0..c - 1,
               Ahead(c, HomeOf(c, s[l]), m) < Ahead(c, HomeOf(c, s[l]), l)
        PROVE  m \in Occupied(slots) /\ (Ahead(c, k, l) <= d + 1 => m # h)
    <3>1. CASE l = i BY <1>5, <1>6, <1>8, <2>2, <3>1
    <3>2. CASE l # i BY <1>6, <1>7, <2>2, <3>2
    <3> QED BY <3>1, <3>2
  <2>3. Ahead(c, k, h) <= d + 1
    <3>1. Ahead(c, k, h) \in 0..c - 1 BY <1>1, AheadDiffers
    <3> QED BY <1>1, <3>1
  <2> QED BY <2>1, <2>2, <2>3 DEF Shifted
<1>9. CASE Crosses(s, h, i)
  <2> DEFINE r == [s EXCEPT ![h] = s[i]]
  <2>1. state.slots = r /\ state.hole = i BY <1>9 DEF ShiftBack
  <2>2. r \in Tables(c) /\ r[h] = s[i] /\ \A l \in (0..c - 1) \ {h} : r[l] = s[l]
    BY <1>1 DEF Tables
  <2> HIDE DEF r
  <2>3. Occupied(r) = Occupied(slots)
    <3>1. DOMAIN r = 0..c - 1 BY <2>2 DEF Tables
    <3>2. Occupied(s) = Occupied(slots) BY DEF Shifted
    <3>3. s[i] # nullptr /\ s[h] # nullptr BY <1>1, <3>2 DEF Occupied
    <3>4. \A l \in 0..c - 1 : r[l] # nullptr <=> s[l] # nullptr BY <2>2, <3>3
    <3>5. Occupied(r) = Occupied(s) BY <1>1, <3>1, <3>4 DEF Occupied
    <3> QED BY <3>2, <3>5
  <2>4. {r[l] : l \in Occupied(slots) \ {i}} = Stored(slots) \ {slots[k]}
    <3>1. {s[l] : l \in Occupied(slots) \ {h}} = Stored(slots) \ {slots[k]} BY DEF Shifted
    <3>2. ASSUME NEW l \in Occupied(slots) \ {h}
          PROVE  \E m \in Occupied(slots) \ {i} : r[m] = s[l]
      <4>1. CASE l = i BY <1>1, <1>3, <2>2, <4>1
      <4>2. CASE l # i BY <1>2, <2>2, <4>2
      <4> QED BY <4>1, <4>2
    <3>3. ASSUME NEW m \in Occupied(slots) \ {i}
          PROVE  \E l \in Occupied(slots) \ {h} : r[m] = s[l]
      <4>1. CASE m = h BY <1>3, <2>2, <4>1
      <4>2. CASE m # h BY <1>2, <2>2, <4>2
      <4> QED BY <4>1, <4>2
    <3> QED BY <3>1, <3>2, <3>3
  <2>5. \A l, m \in Occupied(slots) \ {i} : r[l] = r[m] => l = m
    <3>1. \A l, m \in Occupied(slots) \ {h} : s[l] = s[m] => l = m BY DEF Shifted
    <3> QED BY <1>2, <1>3, <2>2, <3>1
  <2>6. ASSUME NEW l \in Occupied(slots) \ {i}, NEW m \in 0..c - 1,
               Ahead(c, HomeOf(c, r[l]), m) < Ahead(c, HomeOf(c, r[l]), l)
        PROVE  m \in Occupied(slots) /\ (Ahead(c, k, l) <= d + 1 => m # i)
    <3>1. CASE l = h
      <4> DEFINE a == HomeOf(c, s[i])
      <4>1. a = HomeOf(c, r[l]) /\ a \in 0..c - 1 BY <1>2, <2>2, <3>1
      <4> HIDE DEF a
      <4>2. Ahead(c, a, m) < Ahead(c, a, h) /\ Ahead(c, a, h) < Ahead(c, a, i)
        BY <1>5, <1>9, <2>6, <3>1, <4>1 DEF a
      <4>3. /\ Ahead(c, a, m) \in 0..c - 1 /\ Ahead(c, a, h) \in 0..c - 1
            /\ Ahead(c, a, i) \in 0..c - 1
        BY <1>1, <1>2, <4>1, AheadDiffers
      <4>4. Ahead(c, a, m) < Ahead(c, a, i) /\ m # i BY <4>2, <4>3
      <4>5. m \in Occupied(slots) BY <1>3, <1>6, <4>4 DEF a
      <4> QED BY <4>4, <4>5
    <3>2. CASE l # h
      <4> DEFINE a == HomeOf(c, s[l])
      <4>1. a = HomeOf(c, r[l]) /\ a \in 0..c - 1 /\ l \in 0..c - 1 /\ i \in 0..c - 1
        BY <1>2, <2>2, <3>2
      <4> HIDE DEF a
      <4>2. Ahead(c, a, m) < Ahead(c, a, l) BY <2>6, <4>1
      <4>3. m \in Occupied(slots) BY <1>6, <3>2, <4>2 DEF a
      <4>4. ~(Ahead(c, a, z) < Ahead(c, a, l)) BY <1>4, <1>6, <3>2 DEF a
      <4>5. ASSUME m = i PROVE Ahead(c, k, i) < Ahead(c, k, l)
        <5>1. Ahead(c, a, i) < Ahead(c, a, l) BY <4>2, <4>5
        <5>2. k \in 0..c - 1 /\ z \in 0..c - 1 /\ Ahead(c, k, i) < Ahead(c, k, z) BY <1>1
        <5> QED BY <4>1, <4>4, <5>1, <5>2, NotAround
      <4>6. Ahead(c, k, l) \in 0..c - 1 BY <1>1, <4>1, AheadDiffers
      <4> QED BY <4>3, <4>5, <4>6
    <3> QED BY <3>1, <3>2
  <2>7. Ahead(c, k, i) <= d + 1 OBVIOUS
  <2>8. \A l \in Occupied(slots) \ {i}, m \in 0..c - 1 :
          Ahead(c, HomeOf(c, r[l]), m) < Ahead(c, HomeOf(c, r[l]), l) =>
            m \in Occupied(slots) /\ (Ahead(c, k, l) <= d + 1 => m # i)
    BY <2>6
  <2>9. r \in Tables(c) BY <2>2
  <2>10. Shifted(c, slots, k, r, i, d + 1)
    BY <2>3, <2>4, <2>5, <2>7, <2>8, <2>9 DEF Shifted
  <2> QED BY <2>1, <2>10
<1> QED BY <1>8, <1>9

Emptied(s, h) == [s EXCEPT ![h] = nullptr]

\* When the cluster ends nothing passes the hole any more.
LEMMA HoleIsEmptied ==
  ASSUME Hash \in [Ptr -> HashValue], NEW c \in Nat \ {0}, NEW slots \in Tables(c),
         NEW k \in Occupied(slots), NEW z \in 0..c - 1, slots[z] = nullptr,
         NEW d \in Nat, Ahead(c, k, z) = d + 1,
         NEW s, NEW h, Shifted(c, slots, k, s, h, d),
         NEW w, w = Emptied(s, h)
  PROVE  /\ w \in Tables(c) /\ Valid(w) /\ Stored(w) = Stored(slots) \ {slots[k]}
         /\ h \in Occupied(slots) /\ Occupied(w) = Occupied(slots) \ {h}
<1>1. /\ DOMAIN slots = 0..c - 1 /\ DOMAIN s = 0..c - 1 /\ s \in Tables(c)
      /\ Occupied(slots) \subseteq 0..c - 1 /\ k \in 0..c - 1
      /\ h \in Occupied(slots) /\ Ahead(c, k, h) <= d /\ Occupied(s) = Occupied(slots)
  BY DEF Tables, Occupied, Shifted
<1>2. w \in Tables(c) /\ w[h] = nullptr /\ \A l \in (0..c - 1) \ {h} : w[l] = s[l]
  BY <1>1 DEF Tables, Emptied
<1>3. DOMAIN w = 0..c - 1 BY <1>2 DEF Tables
<1>4. Occupied(w) = Occupied(slots) \ {h} BY <1>1, <1>2, <1>3 DEF Occupied
<1>5. Stored(w) = Stored(slots) \ {slots[k]}
  <2>1. \A l \in Occupied(slots) \ {h} : w[l] = s[l] BY <1>1, <1>2
  <2>2. {w[l] : l \in Occupied(slots) \ {h}} = {s[l] : l \in Occupied(slots) \ {h}} BY <2>1
  <2> QED BY <1>4, <2>2 DEF Shifted, Stored
<1>6. Valid(w)
  <2> SUFFICES ASSUME NEW l \in Occupied(w), NEW m \in 0..c - 1,
                      Ahead(c, Hash[w[l]] % c, m) < Ahead(c, Hash[w[l]] % c, l)
               PROVE  w[m] # nullptr /\ w[m] # w[l]
    BY <1>2, ValidIs
  <2> DEFINE a == HomeOf(c, s[l])
  <2>1. l \in Occupied(slots) \ {h} /\ l \in 0..c - 1 /\ w[l] = s[l] BY <1>1, <1>2, <1>4
  <2>2. s[l] \in Ptr BY <1>1, <2>1 DEF Occupied, Tables
  <2>3. a \in 0..c - 1 BY <1>1, <2>2, HomeIs DEF HomeOf
  <2>4. Ahead(c, a, m) < Ahead(c, a, l) BY <2>1 DEF HomeOf
  <2> HIDE DEF a
  <2>5. \A q \in 0..c - 1 : Ahead(c, a, q) < Ahead(c, a, l) =>
          q \in Occupied(slots) /\ (Ahead(c, k, l) <= d => q # h)
    BY <2>1 DEF Shifted, a
  <2>6. z \notin Occupied(slots) BY DEF Occupied
  <2>7. m # h
    <3> SUFFICES ASSUME m = h PROVE FALSE OBVIOUS
    <3>1. ~(Ahead(c, a, z) < Ahead(c, a, l)) BY <2>5, <2>6
    <3>2. Ahead(c, k, h) \in 0..c - 1 /\ Ahead(c, k, l) \in 0..c - 1
      BY <1>1, <2>1, AheadDiffers
    <3>3. Ahead(c, k, h) < Ahead(c, k, z) BY <1>1, <3>2
    <3>4. ~(Ahead(c, k, z) < Ahead(c, k, l))
      BY <1>1, <2>1, <2>3, <2>4, <3>1, <3>3, NotAround
    <3>5. Ahead(c, k, l) # Ahead(c, k, z) BY <1>1, <2>1, <2>6, AheadDiffers
    <3>6. Ahead(c, k, l) <= d BY <3>2, <3>4, <3>5
    <3> QED BY <2>4, <2>5, <3>6
  <2>8. m \in Occupied(slots) \ {h} /\ w[m] = s[m] BY <1>2, <2>4, <2>5, <2>7
  <2>9. l # m
    <3>1. Ahead(c, a, l) \in 0..c - 1 BY <2>1, <2>3, AheadDiffers
    <3> QED BY <2>4, <3>1
  <2>10. s[m] # s[l] BY <2>1, <2>8, <2>9 DEF Shifted
  <2>11. s[m] # nullptr BY <1>1, <2>8 DEF Occupied
  <2> QED BY <2>1, <2>8, <2>10, <2>11
<1> QED BY <1>1, <1>2, <1>4, <1>5, <1>6


\* What is erased is gone, and all else is still found.
LEMMA WithoutSlotKeeps ==
  ASSUME Hash \in [Ptr -> HashValue], NEW c \in Nat \ {0}, NEW slots \in Tables(c),
         Valid(slots), HasRoom(slots), NEW k \in Occupied(slots)
  PROVE  /\ WithoutSlot(slots, k) \in Tables(c) /\ Valid(WithoutSlot(slots, k))
         /\ Stored(WithoutSlot(slots, k)) = Stored(slots) \ {slots[k]}
         /\ \E h \in Occupied(slots) : Occupied(WithoutSlot(slots, k)) = Occupied(slots) \ {h}
<1> DEFINE n == ClusterLength(slots, k)
           x == [slots |-> slots, hole |-> k]
           X == [slots : Tables(c), hole : 0..c - 1]
           Body(g, d) == IF d = 0 THEN x ELSE ShiftBack(g[d - 1], Behind(slots, k, d))
           step == [y \in Nat \X X |-> ShiftBack(y[2], Behind(slots, k, y[1] + 1))]
           run == CHOOSE g : g = [d \in 0..n |-> Body(g, d)]
           P(d) == run[d] \in X /\ Shifted(c, slots, k, run[d].slots, run[d].hole, d)
           T == {d \in Nat : d <= n => P(d)}
           z == Behind(slots, k, n + 1)
<1>1. /\ n \in Nat /\ n + 1 \in 1..c - 1 /\ slots[z] = nullptr
      /\ \A d \in 1..n : slots[Behind(slots, k, d)] # nullptr
  BY ClusterEnds
<1>2. DOMAIN slots = 0..c - 1 /\ k \in 0..c - 1 BY DEF Tables, Occupied
<1>b. ASSUME NEW e \in 0..c - 1
      PROVE  Behind(slots, k, e) \in 0..c - 1 /\ Ahead(c, k, Behind(slots, k, e)) = e
  <2>1. PICK a \in 0..c - 1 : a = k BY <1>2
  <2>2. Behind(slots, a, e) \in 0..c - 1 /\ Ahead(c, a, Behind(slots, a, e)) = e BY BehindIs
  <2> QED BY <2>1, <2>2
<1>3. x \in X BY <1>2
<1>4. ASSUME NEW y \in X, NEW i \in 0..c - 1 PROVE ShiftBack(y, i) \in X
  <2>1. y.slots \in Tables(c) /\ y.hole \in 0..c - 1 BY <1>4
  <2>2. [y.slots EXCEPT ![y.hole] = y.slots[i]] \in Tables(c) BY <2>1 DEF Tables
  <2> QED BY <2>1, <2>2 DEF ShiftBack
<1>5. \A d \in Nat : Behind(slots, k, d) \in 0..c - 1
  <2> SUFFICES ASSUME NEW d \in Nat PROVE Behind(slots, k, d) \in 0..c - 1
    OBVIOUS
  <2>1. k + d \in Int BY <1>2
  <2>2. (k + d) % c \in 0..c - 1 BY <2>1, ModIs
  <2>3. Capacity(slots) = c BY MasksAre
  <2> QED BY <2>2, <2>3 DEF Behind
<1> HIDE DEF n, x
<1>6. run = [d \in 0..n |-> Body(run, d)]
  <2>1. step \in [Nat \X X -> X]
    <3>1. ASSUME NEW d \in Nat, NEW y \in X PROVE ShiftBack(y, Behind(slots, k, d + 1)) \in X
      <4>1. Behind(slots, k, d + 1) \in 0..c - 1 BY <1>5
      <4> HIDE DEF X
      <4> QED BY <1>4, <4>1
    <3> HIDE DEF X
    <3>2. \A y \in Nat \X X : y[1] \in Nat /\ y[2] \in X OBVIOUS
    <3>3. \A y \in Nat \X X : ShiftBack(y[2], Behind(slots, k, y[1] + 1)) \in X
      BY <3>1, <3>2
    <3> QED BY <3>3
  <2>2. \E g : IsLoop(g, X, x, step, n)
    <3> HIDE DEF X, step
    <3> QED BY <1>1, <1>3, <2>1, LoopRuns
  <2>3. PICK g \in [0..n -> X] :
          g[0] = x /\ \A d \in 0..n - 1 : g[d + 1] = step[<<d, g[d]>>]
    <3> HIDE DEF X, step
    <3> QED BY <2>2 DEF IsLoop
  <2>4. ASSUME NEW d \in 0..n PROVE g[d] = Body(g, d)
    <3>1. CASE d = 0 BY <2>3, <3>1
    <3>2. CASE d # 0
      <4>1. d - 1 \in 0..n - 1 /\ d - 1 \in Nat /\ d - 1 \in 0..n /\ (d - 1) + 1 = d
        BY <1>1, <3>2
      <4>2. g[d] = step[<<d - 1, g[d - 1]>>] BY <2>3, <4>1
      <4>3. <<d - 1, g[d - 1]>> \in Nat \X X
        <5> HIDE DEF X
        <5> QED BY <4>1
      <4>4. step[<<d - 1, g[d - 1]>>] = ShiftBack(g[d - 1], Behind(slots, k, (d - 1) + 1))
        <5> HIDE DEF X
        <5> QED BY <4>3
      <4> QED BY <3>2, <4>1, <4>2, <4>4
    <3> QED BY <3>1, <3>2
  <2>5. g = [d \in 0..n |-> Body(g, d)]
    <3> HIDE DEF Body, X
    <3> QED BY <2>4
  <2> HIDE DEF Body
  <2> QED BY <2>5
<1>7. WithoutSlot(slots, k) = [run[n].slots EXCEPT ![run[n].hole] = nullptr]
  BY DEF WithoutSlot, n, x
<1>8. z \in 0..c - 1 /\ Ahead(c, k, z) = n + 1
  <2>1. n + 1 \in 0..c - 1 BY <1>1
  <2>2. Behind(slots, k, n + 1) \in 0..c - 1 /\ Ahead(c, k, Behind(slots, k, n + 1)) = n + 1
    BY <1>b, <2>1
  <2> QED BY <2>2
<1> HIDE DEF run, z
<1>9. 0 \in T
  <2>1. run[0] = x BY <1>1, <1>6
  <2>2. x.slots = slots /\ x.hole = k BY DEF x
  <2>3. Shifted(c, slots, k, slots, k, 0) BY ShiftedAtFirst
  <2>4. P(0)
    <3> HIDE DEF X
    <3> QED BY <1>3, <2>1, <2>2, <2>3
  <2> HIDE DEF P
  <2> QED BY <2>4
<1>10. ASSUME NEW d \in Nat, d \in T PROVE d + 1 \in T
  <2> HIDE DEF P
  <2> SUFFICES ASSUME d + 1 <= n PROVE P(d + 1)
    OBVIOUS
  <2>1. d <= n BY <1>1
  <2>2. P(d) BY <1>10, <2>1
  <2> DEFINE i == Behind(slots, k, d + 1)
             s == run[d].slots
             h == run[d].hole
  <2>3. run[d] \in X /\ Shifted(c, slots, k, s, h, d) BY <2>2 DEF P
  <2>4. run[d] = [slots |-> s, hole |-> h] BY <2>3
  <2>5. run[d + 1] = ShiftBack(run[d], i)
    <3>1. d + 1 \in 0..n /\ d + 1 # 0 /\ (d + 1) - 1 = d BY <1>1
    <3>2. run[d + 1] = Body(run, d + 1)
      <4> HIDE DEF Body
      <4> QED BY <1>6, <3>1
    <3> QED BY <3>1, <3>2
  <2>6. i \in Occupied(slots) /\ Ahead(c, k, i) = d + 1
    <3>1. d + 1 \in 0..c - 1 /\ d + 1 \in 1..n BY <1>1
    <3>2. PICK e \in 0..c - 1 : e = d + 1 BY <3>1
    <3>3. i \in 0..c - 1 /\ Ahead(c, k, i) = d + 1
      <4>1. Behind(slots, k, e) \in 0..c - 1 /\ Ahead(c, k, Behind(slots, k, e)) = e
        BY <1>b
      <4>2. i = Behind(slots, k, e) BY <3>2
      <4> QED BY <3>2, <4>1, <4>2
    <3>4. slots[i] # nullptr BY <1>1, <3>1
    <3> QED BY <1>2, <3>3, <3>4 DEF Occupied
  <2>7. d + 1 < Ahead(c, k, z) BY <1>1, <1>8
  <2>8. run[d + 1] \in X BY <1>4, <1>5, <2>3, <2>5
  <2> HIDE DEF X, i, s, h
  <2>9. run[d + 1] = ShiftBack([slots |-> s, hole |-> h], i) BY <2>4, <2>5
  <2>10. slots[z] = nullptr BY <1>1
  <2>11. Shifted(c, slots, k, run[d + 1].slots, run[d + 1].hole, d + 1)
    BY <1>8, <2>3, <2>6, <2>7, <2>9, <2>10, RoundShifts
  <2> QED BY <2>8, <2>11 DEF P
<1>11. P(n)
  <2> HIDE DEF T
  <2>1. n \in T BY <1>1, <1>9, <1>10, Induction
  <2> HIDE DEF P
  <2> QED BY <1>1, <2>1 DEF T
<1> DEFINE s == run[n].slots
           h == run[n].hole
           w == Emptied(s, h)
<1>12. Shifted(c, slots, k, s, h, n) /\ WithoutSlot(slots, k) = w BY <1>7, <1>11 DEF Emptied
<1> HIDE DEF s, h, P, T, X
<1>13. w = Emptied(s, h) OBVIOUS
<1> HIDE DEF w
<1>14. slots[z] = nullptr /\ z \in 0..c - 1 /\ Ahead(c, k, z) = n + 1 /\ n \in Nat
  BY <1>1, <1>8
<1>15. /\ w \in Tables(c) /\ Valid(w) /\ Stored(w) = Stored(slots) \ {slots[k]}
       /\ h \in Occupied(slots) /\ Occupied(w) = Occupied(slots) \ {h}
  BY <1>12, <1>13, <1>14, HoleIsEmptied
<1> QED BY <1>12, <1>15


-----------------------------------------------------------------------------
(* Capacities.                                                             *)

\* Powers of two: the recursion defines them, and they exceed their exponents.
LEMMA Powers ==
  /\ TwoTo \in [Nat -> Nat] /\ TwoTo[0] = 1 /\ \A n \in Nat : TwoTo[n + 1] = 2 * TwoTo[n]
  /\ \A n \in Nat : n < TwoTo[n]
<1> DEFINE step == [y \in Nat \X Nat |-> 2 * y[2]]
           Run(n) == CHOOSE f : IsLoop(f, Nat, 1, step, n)
           two == [n \in Nat |-> Run(n)[n]]
           Body(g, k) == IF k = 0 THEN 1 ELSE 2 * g[k - 1]
<1>1. ASSUME NEW n \in Nat PROVE IsLoop(Run(n), Nat, 1, step, n)
  <2>1. step \in [Nat \X Nat -> Nat] OBVIOUS
  <2> HIDE DEF step
  <2>2. \E f : IsLoop(f, Nat, 1, step, n) BY <2>1, LoopRuns
  <2> QED BY <2>2
<1>2. ASSUME NEW n \in Nat, NEW f, IsLoop(f, Nat, 1, step, n)
      PROVE  /\ f \in [0..n -> Nat] /\ f[0] = 1
             /\ \A i \in 0..n - 1 : f[i + 1] = 2 * f[i]
  <2>1. /\ f \in [0..n -> Nat] /\ f[0] = 1
        /\ \A i \in 0..n - 1 : f[i + 1] = step[<<i, f[i]>>]
    <3> HIDE DEF step
    <3> QED BY <1>2 DEF IsLoop
  <2>2. ASSUME NEW i \in 0..n - 1 PROVE step[<<i, f[i]>>] = 2 * f[i]
    <3>1. i \in Nat /\ f[i] \in Nat BY <2>1
    <3>2. <<i, f[i]>> \in Nat \X Nat BY <3>1
    <3> QED BY <3>2
  <2> HIDE DEF step
  <2> QED BY <2>1, <2>2
<1> HIDE DEF Run
<1>3. ASSUME NEW n \in Nat, NEW m \in Nat, n <= m PROVE Run(n)[n] = Run(m)[n]
  <2> DEFINE f == Run(n)
             g == Run(m)
             T == {i \in Nat : i <= n => f[i] = g[i]}
  <2>1. /\ f[0] = 1 /\ \A i \in 0..n - 1 : f[i + 1] = 2 * f[i]
        /\ g[0] = 1 /\ \A i \in 0..m - 1 : g[i + 1] = 2 * g[i]
    BY <1>1, <1>2
  <2> HIDE DEF f, g
  <2>2. 0 \in T BY <2>1
  <2>3. ASSUME NEW i \in Nat, i \in T PROVE i + 1 \in T
    <3> SUFFICES ASSUME i + 1 <= n PROVE f[i + 1] = g[i + 1] OBVIOUS
    <3>1. i \in 0..n - 1 /\ i \in 0..m - 1 /\ f[i] = g[i] BY <1>3, <2>3
    <3> QED BY <2>1, <3>1
  <2>4. n \in T
    <3> HIDE DEF T
    <3> QED BY <2>2, <2>3, Induction
  <2> QED BY <2>4 DEF f, g
<1>4. two \in [Nat -> Nat]
  <2>1. ASSUME NEW n \in Nat PROVE Run(n)[n] \in Nat
    <3>1. Run(n) \in [0..n -> Nat] BY <1>1, <1>2
    <3> QED BY <3>1
  <2> QED BY <2>1
<1>5. two[0] = 1 BY <1>1, <1>2
<1>6. ASSUME NEW n \in Nat PROVE two[n + 1] = 2 * two[n]
  <2>1. Run(n)[n] = Run(n + 1)[n] BY <1>3
  <2> DEFINE m == n + 1
  <2>2. m \in Nat /\ n \in 0..m - 1 OBVIOUS
  <2> HIDE DEF m
  <2>3. IsLoop(Run(m), Nat, 1, step, m) BY <1>1, <2>2
  <2>4. \A i \in 0..m - 1 : Run(m)[i + 1] = 2 * Run(m)[i] BY <1>2, <2>2, <2>3
  <2>5. Run(m)[n + 1] = 2 * Run(m)[n] BY <2>2, <2>4
  <2> QED BY <2>1, <2>5 DEF m
<1>7. two = [k \in Nat |-> Body(two, k)]
  <2> HIDE DEF two
  <2>1. ASSUME NEW k \in Nat PROVE two[k] = Body(two, k)
    <3>1. CASE k = 0 BY <1>5, <3>1
    <3>2. CASE k # 0
      <4>1. k - 1 \in Nat /\ (k - 1) + 1 = k BY <3>2
      <4>2. two[(k - 1) + 1] = 2 * two[k - 1] BY <1>6, <4>1
      <4> QED BY <3>2, <4>1, <4>2
    <3> QED BY <3>1, <3>2
  <2> HIDE DEF Body
  <2> QED BY <1>4, <2>1
<1> HIDE DEF two
<1>8. TwoTo = [k \in Nat |-> Body(TwoTo, k)]
  <2>1. TwoTo = CHOOSE g : g = [k \in Nat |-> Body(g, k)] BY DEF TwoTo
  <2> HIDE DEF Body
  <2> QED BY <1>7, <2>1
<1> DEFINE T == {n \in Nat : TwoTo[n] \in Nat /\ n < TwoTo[n]}
<1>9. TwoTo[0] = 1 BY <1>8
<1>10. ASSUME NEW n \in Nat PROVE TwoTo[n + 1] = 2 * TwoTo[n]
  <2>1. n + 1 \in Nat /\ n + 1 # 0 /\ (n + 1) - 1 = n OBVIOUS
  <2>2. TwoTo[n + 1] = Body(TwoTo, n + 1)
    <3> HIDE DEF Body
    <3> QED BY <1>8, <2>1
  <2> QED BY <2>1, <2>2
<1>11. 0 \in T BY <1>9
<1>12. ASSUME NEW n \in Nat, n \in T PROVE n + 1 \in T
  BY <1>10, <1>12
<1>13. Nat \subseteq T
  <2> HIDE DEF T
  <2> QED BY <1>11, <1>12, Induction
<1>14. TwoTo \in [Nat -> Nat]
  <2>1. \A n \in Nat : TwoTo[n] \in Nat BY <1>13
  <2>2. DOMAIN TwoTo = Nat BY <1>8
  <2>3. TwoTo = [n \in Nat |-> TwoTo[n]]
    <3> HIDE DEF Body
    <3> QED BY <1>8
  <2> QED BY <2>1, <2>3
<1> QED BY <1>9, <1>10, <1>13, <1>14


\* What capacities there are.
IsCapacity(c) == \E k \in Nat : c = kInitialCapacity * TwoTo[k]

\* A capacity is two at least, and its exponent is smaller than it.
LEMMA CapacitiesAre ==
  ASSUME NEW c, IsCapacity(c)
  PROVE  c \in Nat \ {0, 1} /\ \E k \in 0..c : c = kInitialCapacity * TwoTo[k]
<1>1. PICK k \in Nat : c = kInitialCapacity * TwoTo[k] BY DEF IsCapacity
<1> DEFINE t == TwoTo[k]
<1>2. t \in Nat /\ k < t BY Powers
<1>3. kInitialCapacity \in Nat /\ kInitialCapacity >= 2 BY CapacityAssumption
<1> HIDE DEF t
<1>4. kInitialCapacity * t \in Nat /\ kInitialCapacity * t >= 2 * t BY <1>2, <1>3
<1>5. c \in Nat /\ c >= 2 /\ k <= c BY <1>1, <1>2, <1>4 DEF t
<1> QED BY <1>1, <1>5

\* The initial capacity is one, and what is doubled.
LEMMA CapacitiesDouble ==
  /\ IsCapacity(kInitialCapacity)
  /\ \A c : IsCapacity(c) => IsCapacity(2 * c)
<1>1. kInitialCapacity * TwoTo[0] = kInitialCapacity BY Powers, CapacityAssumption
<1>2. ASSUME NEW c, IsCapacity(c) PROVE IsCapacity(2 * c)
  <2>1. PICK k \in Nat : c = kInitialCapacity * TwoTo[k] BY <1>2 DEF IsCapacity
  <2> DEFINE t == TwoTo[k]
  <2>2. t \in Nat /\ TwoTo[k + 1] = 2 * t BY Powers
  <2> HIDE DEF t
  <2>3. kInitialCapacity \in Nat BY CapacityAssumption
  <2>4. 2 * (kInitialCapacity * t) = kInitialCapacity * (2 * t) BY <2>2, <2>3
  <2>5. 2 * c = kInitialCapacity * TwoTo[k + 1] BY <2>1, <2>2, <2>4 DEF t
  <2> QED BY <2>5 DEF IsCapacity
<1> QED BY <1>1, <1>2 DEF IsCapacity

\* A capacity that is doubled often enough holds any size, at half of it.
LEMMA DoubledHolds ==
  ASSUME NEW capacity, IsCapacity(capacity), NEW size \in Nat
  PROVE  /\ IsCapacity(DoubledFrom(capacity, size))
         /\ size <= DoubledFrom(capacity, size) \div 2
<1> DEFINE Candidates == {capacity * TwoTo[k] : k \in 0..size}
           Fits(c) == size <= c \div 2
           IsFirst(c) == c = capacity \/ size > c \div 4
           At(k) == capacity * TwoTo[k]
           T == {k \in 0..size : Fits(At(k))}
           U == {k \in Nat : IsCapacity(At(k))}
<1>1. capacity \in Nat /\ capacity >= 2 BY CapacitiesAre
<1>2. At(0) = capacity BY <1>1, Powers
<1>3. ASSUME NEW k \in Nat PROVE At(k + 1) = 2 * At(k) /\ At(k) \in Nat
  <2> DEFINE t == TwoTo[k]
  <2>1. t \in Nat /\ TwoTo[k + 1] = 2 * t BY Powers
  <2> HIDE DEF t
  <2>2. capacity * (2 * t) = 2 * (capacity * t) /\ capacity * t \in Nat BY <1>1, <2>1
  <2> QED BY <2>1, <2>2 DEF t
<1>4. \A k \in Nat : IsCapacity(At(k))
  <2>1. 0 \in U BY <1>2
  <2>2. \A k \in Nat : k \in U => k + 1 \in U BY <1>3, CapacitiesDouble
  <2>3. Nat \subseteq U
    <3> HIDE DEF U
    <3> QED BY <2>1, <2>2, Induction
  <2> QED BY <2>3
<1>5. size \in T
  <2> DEFINE t == TwoTo[size]
  <2>1. t \in Nat /\ size < t BY Powers
  <2> HIDE DEF t
  <2>2. capacity * t \in Nat /\ capacity * t >= 2 * t BY <1>1, <2>1
  <2>3. size <= (capacity * t) \div 2 BY <2>1, <2>2
  <2> QED BY <2>3 DEF t
<1>6. T \in SUBSET Nat /\ T # {} BY <1>5
<1>7. PICK k \in T : \A m \in T : k <= m
  <2> HIDE DEF T
  <2> QED BY <1>6, Least
<1>8. k \in 0..size /\ k \in Nat /\ Fits(At(k)) OBVIOUS
<1>9. IsFirst(At(k))
  <2>1. CASE k = 0 BY <1>2, <2>1
  <2>2. CASE k # 0
    <3>1. k - 1 \in 0..size /\ k - 1 \in Nat /\ (k - 1) + 1 = k /\ ~(k <= k - 1) BY <1>8, <2>2
    <3>2. At(k) = 2 * At(k - 1) /\ At(k - 1) \in Nat
      <4> HIDE DEF At
      <4> QED BY <1>3, <3>1
    <3>3. ~Fits(At(k - 1)) BY <1>7, <3>1
    <3> HIDE DEF At
    <3> QED BY <3>2, <3>3
  <2> QED BY <2>1, <2>2
<1>10. At(k) \in Candidates BY <1>8
<1>11. DoubledFrom(capacity, size) = CHOOSE c \in Candidates : Fits(c) /\ IsFirst(c)
  BY DEF DoubledFrom
<1>12. DoubledFrom(capacity, size) \in Candidates /\ Fits(DoubledFrom(capacity, size))
  <2> HIDE DEF Candidates, Fits, IsFirst, At
  <2> QED BY <1>8, <1>9, <1>10, <1>11
<1>13. \A c \in Candidates : IsCapacity(c) BY <1>4
<1> HIDE DEF Candidates
<1> QED BY <1>12, <1>13


-----------------------------------------------------------------------------
(* The table between two operations.                                       *)

\* A table of size pointers: its capacity is one, half of it is empty, and probes find.
IsTable(slots, size) ==
  \E c \in Nat :
    /\ c = 0 \/ IsCapacity(c)
    /\ slots \in Tables(c) /\ Valid(slots)
    /\ size = Cardinality(Occupied(slots)) /\ size <= c \div 2

\* A table without capacity is Table(0), and has no pointers.
LEMMA NoCapacity ==
  ASSUME NEW slots \in Tables(0)
  PROVE  slots = Table(0) /\ Occupied(slots) = {} /\ Stored(slots) = {}
         /\ \A p : ~ContainsPtr(slots, p)
<1>1. slots = Table(0) BY DEF Tables, Table
<1> QED BY <1>1, TableIsEmpty DEF ContainsPtr

\* A table of some capacity has room.
LEMMA TableHas ==
  ASSUME NEW slots, NEW size, NEW c \in Nat \ {0}, slots \in Tables(c), IsCapacity(c),
         size = Cardinality(Occupied(slots)), size <= c \div 2
  PROVE  HasRoom(slots) /\ size \in Nat /\ size < c /\ c >= 2
<1>1. Cardinality(Occupied(slots)) \in Nat BY OccupiedCount
<1>2. c >= 2 BY CapacitiesAre
<1>3. size < c BY <1>1, <1>2
<1> QED BY <1>1, <1>2, <1>3, OccupiedCount

\* Empty tables are tables.
LEMMA EmptyTables ==
  /\ IsTable(Table(0), 0)
  /\ \A c : IsCapacity(c) => IsTable(Table(c), 0)
<1>1. Cardinality({}) = 0 BY FS_EmptySet
<1>2. ASSUME NEW c \in Nat, c = 0 \/ IsCapacity(c) PROVE IsTable(Table(c), 0)
  <2>1. 0 <= c \div 2 OBVIOUS
  <2>2. /\ Table(c) \in Tables(c) /\ Valid(Table(c))
        /\ 0 = Cardinality(Occupied(Table(c)))
    BY <1>1, TableIsEmpty
  <2> QED BY <1>2, <2>1, <2>2 DEF IsTable
<1>3. \A c : IsCapacity(c) => c \in Nat BY CapacitiesAre
<1> QED BY <1>2, <1>3

\* A larger table with the same pointers is one.
LEMMA InstallsTable ==
  ASSUME Hash \in [Ptr -> HashValue], NEW slots, NEW size, IsTable(slots, size),
         NEW cap, IsCapacity(cap), size <= cap \div 2
  PROVE  /\ IsTable(InstallTable(slots, cap), size)
         /\ InstallTable(slots, cap) \in Tables(cap) /\ Valid(InstallTable(slots, cap))
         /\ Cardinality(Occupied(InstallTable(slots, cap))) = size
         /\ Stored(InstallTable(slots, cap)) = Stored(slots)
<1>1. PICK c \in Nat : /\ slots \in Tables(c) /\ Valid(slots)
                       /\ size = Cardinality(Occupied(slots))
  BY DEF IsTable
<1>2. cap \in Nat \ {0} /\ cap >= 2 BY CapacitiesAre
<1>3. size \in Nat BY <1>1, OccupiedCount
<1>4. size < cap BY <1>2, <1>3
<1>5. /\ InstallTable(slots, cap) \in Tables(cap) /\ Valid(InstallTable(slots, cap))
      /\ Stored(InstallTable(slots, cap)) = Stored(slots)
      /\ Cardinality(Occupied(InstallTable(slots, cap))) = size
  BY <1>1, <1>2, <1>4, InstallKeeps
<1> QED BY <1>2, <1>5 DEF IsTable

\* What AddTo leaves: the pointer is in the table, which grows if it must.
LEMMA Adds ==
  ASSUME Hash \in [Ptr -> HashValue], IsTable(slots_, size_), NEW p \in Ptr, AddTo(p)
  PROVE  \E s, n : /\ slots_' = s /\ size_' = n /\ IsTable(s, n)
                   /\ Stored(s) = Stored(slots_) \cup {p}
<1>1. PICK c \in Nat : /\ c = 0 \/ IsCapacity(c)
                       /\ slots_ \in Tables(c) /\ Valid(slots_)
                       /\ size_ = Cardinality(Occupied(slots_)) /\ size_ <= c \div 2
  BY DEF IsTable
<1>2. Capacity(slots_) = c
  <2>1. DOMAIN slots_ = 0..c - 1 BY <1>1 DEF Tables
  <2> QED BY <2>1, FS_Interval DEF Capacity
<1>3. size_ \in Nat BY <1>1, OccupiedCount
<1>4. ContainsPtr(slots_, p) <=> p \in Stored(slots_)
  <2>1. CASE c = 0 BY <1>1, <2>1, NoCapacity
  <2>2. CASE c # 0
    <3>1. HasRoom(slots_) BY <1>1, <2>2, TableHas
    <3> QED BY <1>1, <2>2, <3>1, ProbeFinds
  <2> QED BY <2>1, <2>2
<1>5. CASE ContainsPtr(slots_, p)
  <2>1. slots_' = slots_ /\ size_' = size_ BY <1>5 DEF AddTo
  <2>2. Stored(slots_) = Stored(slots_) \cup {p} BY <1>4, <1>5
  <2> QED BY <2>1, <2>2
<1>6. CASE ~ContainsPtr(slots_, p)
  <2>1. slots_' = Put(Grown, p) /\ size_' = size_ + 1 BY <1>6 DEF AddTo
  <2>2. \E d \in Nat \ {0} :
          /\ IsCapacity(d) /\ Grown \in Tables(d) /\ Valid(Grown)
          /\ Cardinality(Occupied(Grown)) = size_
          /\ Stored(Grown) = Stored(slots_) /\ size_ + 1 <= d \div 2
    <3>1. CASE MustGrow
      <4> DEFINE d == IF slots_ = Table(0) THEN kInitialCapacity ELSE 2 * Capacity(slots_)
      <4>1. Grown = InstallTable(slots_, d) BY <3>1 DEF Grown
      <4>2. IsCapacity(d) /\ size_ + 1 <= d \div 2
        <5>1. CASE slots_ = Table(0)
          <6>1. Capacity(slots_) = 0 BY <5>1, TableIsEmpty
          <6>2. size_ = 0 BY <3>1, <6>1 DEF MustGrow
          <6>3. d = kInitialCapacity BY <5>1
          <6> QED BY <6>2, <6>3, CapacityAssumption, CapacitiesDouble
        <5>2. CASE slots_ # Table(0)
          <6>1. c # 0 BY <1>1, <5>2, NoCapacity
          <6>2. IsCapacity(c) /\ c >= 2 BY <1>1, <6>1, TableHas
          <6>3. d = 2 * c BY <1>2, <5>2
          <6>4. size_ = c \div 2 BY <1>2, <3>1 DEF MustGrow
          <6>5. size_ + 1 <= (2 * c) \div 2 BY <6>2, <6>4
          <6> QED BY <6>2, <6>3, <6>5, CapacitiesDouble
        <5> QED BY <5>1, <5>2
      <4> HIDE DEF d
      <4>3. d \in Nat \ {0} BY <4>2, CapacitiesAre
      <4>4. size_ <= d \div 2 BY <1>3, <4>2, <4>3
      <4>5. /\ Grown \in Tables(d) /\ Valid(Grown)
            /\ Cardinality(Occupied(Grown)) = size_ /\ Stored(Grown) = Stored(slots_)
        BY <4>1, <4>2, <4>4, InstallsTable
      <4> QED BY <4>2, <4>3, <4>5
    <3>2. CASE ~MustGrow
      <4>1. size_ # c \div 2 BY <1>2, <3>2 DEF MustGrow
      <4>2. size_ + 1 <= c \div 2 BY <1>1, <1>3, <4>1
      <4>3. c # 0 BY <1>3, <4>2
      <4>4. Grown = slots_ BY <3>2 DEF Grown
      <4> QED BY <1>1, <4>2, <4>3, <4>4
    <3> QED BY <3>1, <3>2
  <2>3. PICK d \in Nat \ {0} :
          /\ IsCapacity(d) /\ Grown \in Tables(d) /\ Valid(Grown)
          /\ Cardinality(Occupied(Grown)) = size_
          /\ Stored(Grown) = Stored(slots_) /\ size_ + 1 <= d \div 2
    BY <2>2
  <2> DEFINE g == Grown
  <2>4. /\ g \in Tables(d) /\ Valid(g) /\ Cardinality(Occupied(g)) = size_
        /\ Stored(g) = Stored(slots_)
    BY <2>3
  <2>5. slots_' = Put(g, p) BY <2>1
  <2> HIDE DEF g
  <2>6. size_ <= d \div 2 BY <1>3, <2>3
  <2>7. HasRoom(g) BY <2>3, <2>4, <2>6, TableHas
  <2>8. p \notin Stored(g) BY <1>4, <1>6, <2>4
  <2>9. /\ Put(g, p) \in Tables(d) /\ Valid(Put(g, p))
        /\ Stored(Put(g, p)) = Stored(g) \cup {p}
        /\ \E k \in (0..d - 1) \ Occupied(g) : Occupied(Put(g, p)) = Occupied(g) \cup {k}
    BY <2>4, <2>7, <2>8, PutAdds
  <2>10. IsFiniteSet(Occupied(g)) BY <2>4, OccupiedCount
  <2>11. Cardinality(Occupied(Put(g, p))) = size_ + 1 BY <2>4, <2>9, <2>10, FS_AddElement
  <2>12. IsTable(Put(g, p), size_ + 1) BY <2>3, <2>9, <2>11 DEF IsTable
  <2> QED BY <2>1, <2>4, <2>5, <2>9, <2>12
<1> QED BY <1>5, <1>6

\* What Erase leaves.
LEMMA Erases ==
  ASSUME Hash \in [Ptr -> HashValue], IsTable(slots_, size_), NEW p \in Ptr,
         ContainsPtr(slots_, p)
  PROVE  /\ IsTable(WithoutSlot(slots_, FindSlot(slots_, p)), size_ - 1)
         /\ Stored(WithoutSlot(slots_, FindSlot(slots_, p))) = Stored(slots_) \ {p}
<1>1. PICK c \in Nat : /\ c = 0 \/ IsCapacity(c)
                       /\ slots_ \in Tables(c) /\ Valid(slots_)
                       /\ size_ = Cardinality(Occupied(slots_)) /\ size_ <= c \div 2
  BY DEF IsTable
<1>2. c # 0 BY <1>1, NoCapacity
<1>3. HasRoom(slots_) /\ size_ \in Nat BY <1>1, <1>2, TableHas
<1>4. p \in Stored(slots_) BY <1>1, <1>2, <1>3, ProbeFinds
<1>5. PICK k \in Occupied(slots_) : slots_[k] = p BY <1>4 DEF Stored
<1>6. FindSlot(slots_, p) = k BY <1>1, <1>2, <1>3, <1>5, ProbeFinds
<1> DEFINE w == WithoutSlot(slots_, k)
<1>7. /\ w \in Tables(c) /\ Valid(w) /\ Stored(w) = Stored(slots_) \ {slots_[k]}
      /\ \E h \in Occupied(slots_) : Occupied(w) = Occupied(slots_) \ {h}
  BY <1>1, <1>2, <1>3, WithoutSlotKeeps
<1> HIDE DEF w
<1>8. IsFiniteSet(Occupied(slots_)) BY <1>1, OccupiedCount
<1>9. Cardinality(Occupied(w)) = size_ - 1
  <2>1. PICK h \in Occupied(slots_) : Occupied(w) = Occupied(slots_) \ {h} BY <1>7
  <2>2. Cardinality(Occupied(slots_) \ {h}) = Cardinality(Occupied(slots_)) - 1
    BY <1>8, FS_RemoveElement
  <2> QED BY <1>1, <2>1, <2>2
<1>10. size_ - 1 <= c \div 2 BY <1>1, <1>3
<1>11. IsTable(w, size_ - 1) BY <1>1, <1>7, <1>9, <1>10 DEF IsTable
<1> QED BY <1>5, <1>6, <1>7, <1>11 DEF w


-----------------------------------------------------------------------------
(* The invariant.                                                          *)

\* What a traversal has still to pass on: each pointer once.
IsRest(old) ==
  /\ DOMAIN old \subseteq Nat /\ old \in [DOMAIN old -> Ptr]
  /\ \A k, l \in DOMAIN old : old[k] = old[l] => k = l

SetInv ==
  /\ Hash \in [Ptr -> HashValue]
  /\ IsTable(slots_, size_)
  /\ IsRest(old_slots)
  /\ traversal \in {"none", "RetainIf", "Drain"}
  /\ traversal = "none" <=> DOMAIN old_slots = {}

\* What a traversal has still to pass on, as a set.
Pending(old) == {old[k] : k \in DOMAIN old}

\* A table is one in the next state as in this one, since the hash stays.
LEMMA TableStays ==
  ASSUME UNCHANGED Hash, NEW s, NEW n, slots_' = s, size_' = n, IsTable(s, n)
  PROVE  IsTable(slots_, size_)'
BY DEF IsTable, Valid, NotBefore, Home

\* A traversal that begins has all of the table to pass on.
LEMMA EntriesAreRest ==
  ASSUME Hash \in [Ptr -> HashValue], IsTable(slots_, size_)
  PROVE  /\ IsRest(Entries(slots_)) /\ Pending(Entries(slots_)) = Stored(slots_)
         /\ size_ > 0 => DOMAIN Entries(slots_) # {} /\ Stored(slots_) # {}
<1>1. PICK c \in Nat : /\ slots_ \in Tables(c) /\ Valid(slots_)
                       /\ size_ = Cardinality(Occupied(slots_))
  BY DEF IsTable
<1>2. Occupied(slots_) \subseteq 0..c - 1 BY <1>1, OccupiedCount
<1>3. \A k \in Occupied(slots_) : k \in 0..c - 1 /\ slots_[k] \in Ptr
  BY <1>1, <1>2 DEF Occupied, Tables
<1>4. ASSUME NEW k \in Occupied(slots_), NEW l \in Occupied(slots_), slots_[k] = slots_[l]
      PROVE  k = l
  <2>1. c # 0 BY <1>2
  <2> QED BY <1>1, <1>4, <2>1, StoredOnce
<1>5. /\ DOMAIN Entries(slots_) = Occupied(slots_)
      /\ \A k \in Occupied(slots_) : Entries(slots_)[k] = slots_[k]
  BY DEF Entries
<1>6. IsRest(Entries(slots_))
  <2>1. Entries(slots_) \in [Occupied(slots_) -> Ptr] BY <1>3 DEF Entries
  <2> QED BY <1>2, <1>4, <1>5, <2>1 DEF IsRest
<1>7. Pending(Entries(slots_)) = Stored(slots_) BY <1>5 DEF Pending, Stored
<1>8. ASSUME size_ > 0 PROVE Occupied(slots_) # {}
  <2>1. Cardinality({}) = 0 BY FS_EmptySet
  <2> QED BY <1>1, <1>8, <2>1
<1> QED BY <1>5, <1>6, <1>7, <1>8 DEF Stored

\* What a callback is running with is passed on, and nothing else.
LEMMA RestShrinks ==
  ASSUME SetInv, traversal # "none"
  PROVE  /\ FirstSlot(old_slots) \in DOMAIN old_slots
         /\ old_slots[FirstSlot(old_slots)] \in Ptr \cap Pending(old_slots)
         /\ IsRest(LaterEntries)
         /\ Pending(LaterEntries) = Pending(old_slots) \ {old_slots[FirstSlot(old_slots)]}
         /\ DOMAIN LaterEntries = {} <=> Pending(LaterEntries) = {}
<1> DEFINE f == FirstSlot(old_slots)
<1>1. DOMAIN old_slots \in SUBSET Nat /\ DOMAIN old_slots # {} BY DEF SetInv, IsRest
<1>2. \E k \in DOMAIN old_slots : \A l \in DOMAIN old_slots : k <= l BY <1>1, Least
<1>3. f \in DOMAIN old_slots BY <1>2 DEF FirstSlot
<1> HIDE DEF f
<1>4. /\ DOMAIN LaterEntries = DOMAIN old_slots \ {f}
      /\ \A k \in DOMAIN old_slots \ {f} : LaterEntries[k] = old_slots[k]
  BY DEF LaterEntries, f
<1>5. old_slots \in [DOMAIN old_slots -> Ptr] BY DEF SetInv, IsRest
<1>6. LaterEntries \in [DOMAIN old_slots \ {f} -> Ptr] BY <1>5 DEF LaterEntries, f
<1>7. \A k, l \in DOMAIN old_slots : old_slots[k] = old_slots[l] => k = l
  BY DEF SetInv, IsRest
<1>8. IsRest(LaterEntries) BY <1>1, <1>4, <1>6, <1>7 DEF IsRest
<1>9. Pending(LaterEntries) = Pending(old_slots) \ {old_slots[f]}
  BY <1>3, <1>4, <1>7 DEF Pending
<1>10. DOMAIN LaterEntries = {} <=> Pending(LaterEntries) = {} BY DEF Pending
<1>11. old_slots[f] \in Ptr \cap Pending(old_slots) BY <1>3, <1>5 DEF Pending
<1> QED BY <1>3, <1>8, <1>9, <1>10, <1>11 DEF f

\* A set that is just constructed is empty.
LEMMA SetInitial == Init => SetInv
<1> SUFFICES ASSUME Init PROVE SetInv OBVIOUS
<1>1. IsTable(slots_, size_) BY EmptyTables DEF Init
<1>2. Occupied(Table(0)) = {} BY TableIsEmpty
<1>3. DOMAIN old_slots = {} BY <1>2 DEF Init, Entries
<1>4. IsRest(old_slots)
  <2>1. old_slots \in [DOMAIN old_slots -> Ptr] BY <1>2 DEF Init, Entries
  <2> QED BY <1>3, <2>1 DEF IsRest
<1> QED BY <1>1, <1>3, <1>4 DEF Init, SetInv

-----------------------------------------------------------------------------
(* The operations keep the invariant, and do what RegisteredSet does.      *)

members == Stored(slots_)
Abstract == Registered!Next \/ UNCHANGED <<members, Pending(old_slots), traversal>>

\* An insertion adds a pointer, by whomever it is called.
LEMMA InsertStep ==
  ASSUME SetInv, NEW p \in Ptr, Insert(p)
  PROVE  SetInv' /\ Registered!Insert(p)
<1>1. /\ AddTo(p) /\ UNCHANGED <<Hash, old_slots, traversal>>
      /\ Hash \in [Ptr -> HashValue] /\ IsTable(slots_, size_)
  BY DEF Insert, SetInv
<1>2. PICK s, n : /\ slots_' = s /\ size_' = n /\ IsTable(s, n)
                  /\ Stored(s) = Stored(slots_) \cup {p}
  BY <1>1, Adds
<1>3. IsTable(slots_, size_)' BY <1>1, <1>2, TableStays
<1>4. SetInv' BY <1>1, <1>3 DEF SetInv, IsRest
<1>5. Stored(slots_') = Stored(slots_) \cup {p} BY <1>2
<1> QED BY <1>1, <1>4, <1>5 DEF Registered!Insert

\* An erasure removes a pointer that is in the set.
LEMMA EraseStep ==
  ASSUME SetInv, NEW p \in Ptr, Erase(p)
  PROVE  SetInv' /\ Registered!Erase(p)
<1> DEFINE w == WithoutSlot(slots_, FindSlot(slots_, p))
<1>1. /\ traversal = "none" /\ ContainsPtr(slots_, p)
      /\ slots_' = w /\ size_' = size_ - 1 /\ UNCHANGED <<Hash, old_slots, traversal>>
      /\ Hash \in [Ptr -> HashValue] /\ IsTable(slots_, size_)
  BY DEF Erase, SetInv
<1>2. IsTable(w, size_ - 1) /\ Stored(w) = Stored(slots_) \ {p} BY <1>1, Erases
<1> HIDE DEF w
<1>3. IsTable(slots_, size_)' BY <1>1, <1>2, TableStays
<1>4. SetInv' BY <1>1, <1>3 DEF SetInv, IsRest
<1> QED BY <1>1, <1>2, <1>4 DEF Registered!Erase

\* A reservation leaves the set as it is.
LEMMA ReserveStep ==
  ASSUME SetInv, NEW size \in Nat, TryReserve(size)
  PROVE  SetInv' /\ UNCHANGED <<members, Pending(old_slots), traversal>>
<1> DEFINE capacity == IF slots_ = Table(0) THEN kInitialCapacity ELSE Capacity(slots_)
           cap == DoubledFrom(capacity, size)
           s == InstallTable(slots_, cap)
<1>1. /\ slots_' = s /\ size > Capacity(slots_) \div 2
      /\ UNCHANGED <<Hash, size_, old_slots, traversal>>
      /\ Hash \in [Ptr -> HashValue] /\ IsTable(slots_, size_)
  BY DEF TryReserve, SetInv
<1>2. PICK c \in Nat : /\ c = 0 \/ IsCapacity(c)
                       /\ slots_ \in Tables(c)
                       /\ size_ = Cardinality(Occupied(slots_)) /\ size_ <= c \div 2
  BY <1>1 DEF IsTable
<1>3. Capacity(slots_) = c
  <2>1. DOMAIN slots_ = 0..c - 1 BY <1>2 DEF Tables
  <2> QED BY <2>1, FS_Interval DEF Capacity
<1>4. IsCapacity(capacity)
  <2>1. CASE slots_ = Table(0) BY <2>1, CapacitiesDouble
  <2>2. CASE slots_ # Table(0) BY <1>2, <1>3, <2>2, NoCapacity
  <2> QED BY <2>1, <2>2
<1> HIDE DEF capacity
<1>5. IsCapacity(cap) /\ size <= cap \div 2 BY <1>4, DoubledHolds
<1> HIDE DEF cap
<1>6. size_ <= cap \div 2
  <2>1. size_ \in Nat BY <1>2, OccupiedCount
  <2>2. cap \in Nat BY <1>5, CapacitiesAre
  <2> QED BY <1>1, <1>2, <1>3, <1>5, <2>1, <2>2
<1>7. IsTable(s, size_) /\ Stored(s) = Stored(slots_) BY <1>1, <1>5, <1>6, InstallsTable
<1> HIDE DEF s
<1>8. IsTable(slots_, size_)' BY <1>1, <1>7, TableStays
<1>9. SetInv' BY <1>1, <1>8 DEF SetInv, IsRest
<1> QED BY <1>1, <1>7, <1>9 DEF members, Pending

\* Clear empties the set.
LEMMA ClearStep ==
  ASSUME SetInv, Clear
  PROVE  SetInv' /\ Registered!Clear
<1>1. /\ traversal = "none" /\ slots_' = Table(0) /\ size_' = 0
      /\ UNCHANGED <<Hash, old_slots, traversal>>
  BY DEF Clear, ClearTable
<1>2. IsTable(slots_, size_)' BY <1>1, EmptyTables, TableStays
<1>3. SetInv' BY <1>1, <1>2 DEF SetInv, IsRest
<1>4. Stored(slots_') = {} BY <1>1, TableIsEmpty
<1> QED BY <1>1, <1>3, <1>4 DEF Registered!Clear

\* A traversal that begins takes over all of the set.
LEMMA BeginStep ==
  ASSUME SetInv, RetainIf \/ Drain
  PROVE  SetInv' /\ (Registered!Begin("RetainIf") \/ Registered!Begin("Drain"))
<1>1. /\ Hash \in [Ptr -> HashValue] /\ IsTable(slots_, size_) /\ UNCHANGED Hash
      /\ traversal = "none" /\ size_ > 0 /\ old_slots' = Entries(slots_)
      /\ traversal' \in {"RetainIf", "Drain"} /\ size_' = 0
  BY DEF RetainIf, Drain, ClearTable, SetInv
<1>2. PICK c \in Nat : (c = 0 \/ IsCapacity(c)) /\ slots_' = Table(c)
  <2>1. CASE Drain BY <2>1 DEF Drain, ClearTable
  <2>2. CASE RetainIf
    <3>1. slots_' = Table(DoubledFrom(kInitialCapacity, size_)) BY <2>2 DEF RetainIf
    <3>2. size_ \in Nat BY <1>1, OccupiedCount DEF IsTable
    <3>3. IsCapacity(DoubledFrom(kInitialCapacity, size_))
      BY <3>2, CapacitiesDouble, DoubledHolds
    <3> QED BY <3>1, <3>3, CapacitiesAre
  <2> QED BY <2>1, <2>2
<1>3. IsTable(Table(c), 0) BY <1>2, EmptyTables
<1>4. IsTable(slots_, size_)' BY <1>1, <1>2, <1>3, TableStays
<1>5. /\ IsRest(old_slots') /\ Pending(old_slots') = Stored(slots_)
      /\ DOMAIN old_slots' # {} /\ Stored(slots_) # {}
  BY <1>1, EntriesAreRest
<1>6. SetInv' BY <1>1, <1>4, <1>5 DEF SetInv, IsRest
<1>7. Stored(slots_') = {} BY <1>2, TableIsEmpty
<1> QED BY <1>1, <1>5, <1>6, <1>7 DEF Registered!Begin, Pending

\* A callback that returns has passed on one pointer, which RetainIf may insert again and
\* Drain never does.
LEMMA PassOnStep ==
  ASSUME SetInv, KeepReturns \/ FnReturns
  PROVE  SetInv' /\ \E p \in Ptr : Registered!PassOn(p)
<1> DEFINE p == old_slots[FirstSlot(old_slots)]
<1>1. /\ Hash \in [Ptr -> HashValue] /\ IsTable(slots_, size_) /\ UNCHANGED Hash
      /\ traversal # "none" /\ old_slots' = LaterEntries
      /\ traversal' = IF DOMAIN LaterEntries = {} THEN "none" ELSE traversal
      /\ traversal \in {"RetainIf", "Drain"}
  BY DEF KeepReturns, FnReturns, NextEntry, SetInv
<1>2. /\ p \in Ptr /\ p \in Pending(old_slots) /\ IsRest(LaterEntries)
      /\ Pending(LaterEntries) = Pending(old_slots) \ {p}
      /\ DOMAIN LaterEntries = {} <=> Pending(LaterEntries) = {}
  BY <1>1, RestShrinks
<1>3. /\ IsTable(slots_, size_)'
      /\ \/ traversal = "RetainIf" /\ Stored(slots_') \in {Stored(slots_), Stored(slots_) \cup {p}}
         \/ /\ traversal = "Drain"
            /\ Stored(slots_') = IF Pending(old_slots') = {} THEN {} ELSE Stored(slots_)
  <2>1. CASE KeepReturns
    <3>1. traversal = "RetainIf" /\ (AddTo(p) \/ UNCHANGED <<slots_, size_>>)
      BY <2>1 DEF KeepReturns
    <3>2. CASE AddTo(p)
      <4> HIDE DEF p
      <4>1. PICK s, n : /\ slots_' = s /\ size_' = n /\ IsTable(s, n)
                        /\ Stored(s) = Stored(slots_) \cup {p}
        BY <1>1, <1>2, <3>2, Adds
      <4> QED BY <1>1, <3>1, <4>1, TableStays
    <3>3. CASE UNCHANGED <<slots_, size_>> BY <1>1, <3>1, <3>3, TableStays
    <3> QED BY <3>1, <3>2, <3>3
  <2>2. CASE FnReturns
    <3>1. traversal = "Drain" /\ Drained BY <2>2 DEF FnReturns
    <3>2. CASE DOMAIN LaterEntries = {}
      <4>1. slots_' = Table(0) /\ size_' = 0 BY <3>1, <3>2 DEF Drained, ClearTable
      <4>2. IsTable(slots_, size_)' BY <1>1, <4>1, EmptyTables, TableStays
      <4>3. Stored(slots_') = {} BY <4>1, TableIsEmpty
      <4> QED BY <1>1, <1>2, <3>1, <3>2, <4>2, <4>3
    <3>3. CASE DOMAIN LaterEntries # {}
      <4>1. UNCHANGED <<slots_, size_>> BY <3>1, <3>3 DEF Drained
      <4>2. IsTable(slots_, size_)' BY <1>1, <4>1, TableStays
      <4> QED BY <1>1, <1>2, <3>1, <3>3, <4>1, <4>2
    <3> QED BY <3>2, <3>3
  <2> QED BY <2>1, <2>2
<1>4. SetInv' BY <1>1, <1>2, <1>3 DEF SetInv, IsRest
<1> HIDE DEF p
<1>5. PICK q \in Ptr : q = p BY <1>2
<1>6. Registered!PassOn(q) BY <1>1, <1>2, <1>3, <1>5 DEF Registered!PassOn, Pending
<1> QED BY <1>4, <1>6


\* Every step keeps the invariant and is one of RegisteredSet, or leaves the set alone.
LEMMA SetStep ==
  ASSUME SetInv, Next
  PROVE  SetInv' /\ Abstract
<1>1. ASSUME NEW p \in Ptr, Insert(p) PROVE SetInv' /\ Abstract
  BY <1>1, InsertStep DEF Abstract, Registered!Next
<1>2. ASSUME NEW p \in Ptr, Erase(p) PROVE SetInv' /\ Abstract
  BY <1>2, EraseStep DEF Abstract, Registered!Next
<1>3. ASSUME NEW size \in 1..MaxReserve, TryReserve(size) PROVE SetInv' /\ Abstract
  <2>1. size \in Nat OBVIOUS
  <2> QED BY <1>3, <2>1, ReserveStep DEF Abstract
<1>4. CASE Clear BY <1>4, ClearStep DEF Abstract, Registered!Next
<1>5. CASE RetainIf \/ Drain BY <1>5, BeginStep DEF Abstract, Registered!Next
<1>6. CASE KeepReturns \/ FnReturns BY <1>6, PassOnStep DEF Abstract, Registered!Next
<1> QED BY <1>1, <1>2, <1>3, <1>4, <1>5, <1>6 DEF Next

\* The invariant holds in every state.
LEMMA SetAlways == Spec => []SetInv
<1>1. SetInv /\ [Next]_vars => SetInv'
  <2>1. CASE UNCHANGED vars
    <3> SUFFICES ASSUME SetInv, UNCHANGED vars PROVE SetInv' BY <2>1
    <3>1. UNCHANGED <<Hash, slots_, size_, old_slots, traversal>> BY DEF vars
    <3>2. IsTable(slots_, size_)' BY <3>1, TableStays DEF SetInv
    <3> QED BY <3>1, <3>2 DEF SetInv, IsRest
  <2> QED BY <2>1, SetStep
<1> QED BY <1>1, SetInitial, PTL DEF Spec

\* What is stored is counted by size_.
LEMMA StoredCount ==
  ASSUME SetInv
  PROVE  Cardinality(Stored(slots_)) = size_
<1>1. PICK c \in Nat : /\ slots_ \in Tables(c) /\ Valid(slots_)
                       /\ size_ = Cardinality(Occupied(slots_))
  BY DEF SetInv, IsTable
<1> DEFINE O == Occupied(slots_)
           f == [k \in O |-> slots_[k]]
<1>2. IsFiniteSet(O) /\ O \subseteq 0..c - 1 BY <1>1, OccupiedCount
<1>3. f \in Surjection(O, Stored(slots_)) BY DEF Surjection, Stored
<1>4. f \in Injection(O, Stored(slots_))
  <2>1. f \in [O -> Stored(slots_)] BY DEF Stored
  <2>2. ASSUME NEW k \in O, NEW l \in O, slots_[k] = slots_[l] PROVE k = l
    <3>1. c # 0 BY <1>2
    <3> QED BY <1>1, <2>2, <3>1, StoredOnce DEF SetInv
  <2> QED BY <2>1, <2>2 DEF Injection, IsInjective
<1> HIDE DEF f
<1> QED BY <1>1, <1>2, <1>3, <1>4, FS_Surjection

\* Every probe ends at what it looks for, at most half of the table is occupied, and each
\* pointer is stored once: for any pointers and hash, and after any insertions, erasures,
\* reservations and traversals.
THEOREM TableAlwaysOK == Spec => []TableOK
<1>1. SetInv => TableOK
  <2> SUFFICES ASSUME SetInv PROVE TableOK OBVIOUS
  <2>1. PICK c \in Nat : /\ c = 0 \/ IsCapacity(c)
                         /\ slots_ \in Tables(c) /\ Valid(slots_)
                         /\ size_ = Cardinality(Occupied(slots_)) /\ size_ <= c \div 2
    BY DEF SetInv, IsTable
  <2>2. Capacity(slots_) = c
    <3>1. DOMAIN slots_ = 0..c - 1 BY <2>1 DEF Tables
    <3> QED BY <3>1, FS_Interval DEF Capacity
  <2>3. c = 0 \/ \E k \in 0..c : c = kInitialCapacity * TwoTo[k] BY <2>1, CapacitiesAre
  <2>4. ASSUME NEW p \in Stored(slots_) PROVE ContainsPtr(slots_, p)
    <3>1. c # 0 BY <2>1, NoCapacity
    <3>2. HasRoom(slots_) BY <2>1, <3>1, TableHas
    <3>3. p \in Ptr BY <2>1 DEF Stored, Occupied, Tables
    <3> QED BY <2>1, <3>1, <3>2, <3>3, ProbeFinds DEF SetInv
  <2>5. Cardinality(Stored(slots_)) = size_ BY StoredCount
  <2> QED BY <2>1, <2>2, <2>3, <2>4, <2>5 DEF TableOK, SetInv, IsRest, Tables
<1> QED BY <1>1, SetAlways, PTL

\* The table implements RegisteredSet: insertions and erasures change the set by a pointer,
\* growing changes nothing, a traversal passes on every pointer once while its callbacks
\* insert.
THEOREM TableImplementsSet == Spec => ImplementsSet
<1>1. Init => Registered!Init
  <2> SUFFICES ASSUME Init PROVE Registered!Init OBVIOUS
  <2>1. Occupied(Table(0)) = {} /\ Stored(Table(0)) = {} BY TableIsEmpty
  <2>2. DOMAIN old_slots = {} BY <2>1 DEF Init, Entries
  <2> QED BY <2>1, <2>2 DEF Init, Registered!Init
<1>2. SetInv /\ [Next]_vars => [Registered!Next]_Registered!vars
  <2> SUFFICES ASSUME SetInv, [Next]_vars PROVE [Registered!Next]_Registered!vars OBVIOUS
  <2>1. CASE Next
    <3>1. Abstract BY <2>1, SetStep
    <3> QED BY <3>1 DEF Abstract, Registered!vars, members, Pending
  <2>2. CASE UNCHANGED vars BY <2>2 DEF vars, Registered!vars
  <2> QED BY <2>1, <2>2
<1> QED BY <1>1, <1>2, SetAlways, PTL DEF Spec, ImplementsSet, Registered!Spec
=============================================================================
