------------------------------ MODULE RunList ------------------------------
(***************************************************************************)
(* ThreeTierList (src/src/gc/ros_alloc_run.h): the runs of a size class    *)
(* that are neither full nor local, as one doubly linked list with a mark  *)
(* where each tier begins.  The fuller a run is, the nearer to the head it *)
(* is inserted; runs are fetched from the middle.                          *)
(*                                                                         *)
(* The links are those of the code, each in the node it is kept in.  The   *)
(* tier of a run comes from its utilisation, which is data here: Insert    *)
(* takes it as a parameter.                                                *)
(***************************************************************************)
EXTENDS Naturals, FiniteSets

CONSTANTS
  Page,   \* the pages of the heap, each of which may hold a run
  None    \* no page

ASSUME RunListAssumption == None \notin Page

Tier == 1..3

\* first, second and third are the heads of the tiers, last the tail of the second.
EmptyList ==
  [first |-> None, second |-> None, last |-> None, third |-> None,
   next |-> [p \in Page |-> None], prev |-> [p \in Page |-> None], in |-> {}]

Lists ==
  [first : Page \cup {None}, second : Page \cup {None}, last : Page \cup {None},
   third : Page \cup {None}, next : [Page -> Page \cup {None}],
   prev : [Page -> Page \cup {None}], in : SUBSET Page]

SetNext(l, p, q) == [l EXCEPT !.next = [x \in Page |-> IF x = p THEN q ELSE @[x]]]
SetPrev(l, p, q) == [l EXCEPT !.prev = [x \in Page |-> IF x = p THEN q ELSE @[x]]]

\* p comes between b and q; either may be missing.
Link(l, p, b, q) == SetNext(SetPrev(SetNext(SetPrev(l, q, p), b, p), p, b), p, q)

\* p leaves, and what was before and after it is linked.
Unlink(l, p) ==
  LET n == l.next[p] b == l.prev[p]
  IN  SetNext(SetPrev(SetNext(SetPrev(l, n, b), b, n), p, None), p, None)

InsertFirst(l, p) ==
  [Link(l, p, None, IF l.first # None THEN l.first ELSE l.second) EXCEPT !.first = p]

InsertSecond(l, p) == [Link(l, p, l.prev[l.second], l.second) EXCEPT !.second = p]

InsertThird(l, p) ==
  [ IF l.third # None THEN Link(l, p, l.prev[l.third], l.third) ELSE Link(l, p, l.last, None)
    EXCEPT !.third = p ]

\* The second tier is empty only if the list is.
Insert(l, p, tier) ==
  [ CASE l.second = None -> [Link(l, p, None, None) EXCEPT !.second = p, !.last = p]
      [] l.second # None /\ tier = 1 -> InsertFirst(l, p)
      [] l.second # None /\ tier = 2 -> InsertSecond(l, p)
      [] l.second # None /\ tier = 3 -> InsertThird(l, p)
    EXCEPT !.in = @ \cup {p} ]

\* The last run of the second tier goes: the first of the third, or else the last of the
\* first, becomes the second tier.
Promoted(l) ==
  LET n == l.next[l.second] new == IF n # None THEN n ELSE l.prev[l.second]
  IN  [l EXCEPT !.second = new, !.last = new,
                !.third = IF n # None /\ @ = n THEN l.next[n] ELSE @,
                !.first = IF n = None /\ @ = new THEN None ELSE @]

EraseSecond(l) == IF l.second # l.last THEN [l EXCEPT !.second = l.next[@]] ELSE Promoted(l)

\* The heads before p is unlinked.
Behead(l, p) ==
  CASE p = l.first -> [l EXCEPT !.first = IF l.next[@] = l.second THEN None ELSE l.next[@]]
    [] p # l.first /\ p = l.second -> EraseSecond(l)
    [] p \notin {l.first, l.second} /\ p = l.last -> [l EXCEPT !.last = l.prev[@]]
    [] p \notin {l.first, l.second, l.last} /\ p = l.third -> [l EXCEPT !.third = l.next[@]]
    [] OTHER -> l

Erase(l, p) == [Unlink(Behead(l, p), p) EXCEPT !.in = @ \ {p}]

\* Fetch gives back l.second and leaves this list.
Fetched(l) == [Unlink(EraseSecond(l), l.second) EXCEPT !.in = @ \ {l.second}]

GetList(l) == IF l.first # None THEN l.first ELSE IF l.second # None THEN l.second ELSE l.third

-----------------------------------------------------------------------------
(* What the list promises. *)

\* The walk passes each run in the list once, along the links and back; the second tier
\* goes from position s to position t of it.
IsWalk(l, walk, s, t) ==
  LET n == Cardinality(l.in)
  IN  /\ \A p \in l.in : \E i \in 1..n : walk[i] = p
      /\ \A i, j \in 1..n : walk[i] = walk[j] => i = j
      /\ \A i \in 1..n : /\ l.next[walk[i]] = IF i = n THEN None ELSE walk[i + 1]
                         /\ l.prev[walk[i]] = IF i = 1 THEN None ELSE walk[i - 1]
      /\ s <= t /\ l.second = walk[s] /\ l.last = walk[t]
      /\ l.first = IF s = 1 THEN None ELSE walk[1]
      /\ l.third = IF t = n THEN None ELSE walk[t + 1]

IsList(l) ==
  IF l.in = {}
    THEN l = EmptyList
    ELSE LET n == Cardinality(l.in)
         IN  /\ \A p \in Page \ l.in : l.next[p] = None /\ l.prev[p] = None
             /\ \E walk \in [1..n -> l.in], s, t \in 1..n : IsWalk(l, walk, s, t)
=============================================================================
