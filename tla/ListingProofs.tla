---------------------------- MODULE ListingProofs ----------------------------
(***************************************************************************)
(* Theorems about Listing, for every page size and any finite listing: the *)
(* state keeps its type, and a walk misses nothing without an excuse.  The *)
(* inductive invariant says that what precedes the page in the order and   *)
(* has stayed has been seen, and that the last page reaches the end.       *)
(***************************************************************************)
EXTENDS Listing, FiniteSetTheorems, TLAPS

RankIn(E, x) == Cardinality({y \in E : y < x})

Covered(n) == \A x \in walk.stayed : RankIn(entries, x) < n => x \in walk.seen

Offset == (walk.page - 1) * walk.size

IInv ==
    /\ TypeOK
    /\ walk.at # "away" => walk.stayed \subseteq entries
    /\ walk.at \in {"count", "query"} /\ ~walk.excused => Covered(Offset)
    /\ walk.at = "query" /\ walk.size # 0 /\ ~HasNext /\ ~walk.excused
         => Cardinality(entries) <= walk.page * walk.size
    /\ NoneMissed

-----------------------------------------------------------------------------
(* Arithmetic of pages.                                                    *)

\* Products with a page size are monotonic.
LEMMA ProductMonotonic ==
    ASSUME NEW a \in Int, NEW b \in Int, NEW s \in Nat, a <= b
    PROVE  a * s <= b * s
<1>1. PICK d \in Nat : b = a + d
  <2>1. b - a \in Nat /\ b = a + (b - a)
    OBVIOUS
  <2> QED
    BY <2>1
<1>2. b * s = a * s + d * s
  BY <1>1
<1>3. d * s >= 0
  OBVIOUS
<1> QED
  BY <1>2, <1>3

\* The pages counted are at least one, and they hold the whole total.
LEMMA PagesHoldTotal ==
    ASSUME NEW size \in Nat, NEW total \in Nat
    PROVE  /\ TotalPages(size, total) \in Nat \ {0}
           /\ size # 0 => total <= TotalPages(size, total) * size
<1> DEFINE p == PageSize(size, total)
           q == (total + p - 1) \div p
<1>1. p \in Nat \ {0} /\ (size # 0 => p = size)
  BY DEF PageSize, AtLeastOne
<1>2. total + p - 1 \in Nat
  BY <1>1
<1> HIDE DEF p
<1>3. q \in Nat /\ total + p - 1 < (q + 1) * p
  BY <1>1, <1>2
<1>4. TotalPages(size, total) = IF q = 0 THEN 1 ELSE q
  BY DEF TotalPages, AtLeastOne, p
<1> HIDE DEF q
<1>5. (q + 1) * p = q * p + p
  BY <1>1, <1>3
<1>6. total <= q * p
  BY <1>1, <1>3, <1>5
<1>7. q = 0 => total = 0
  BY <1>1, <1>3, <1>6
<1> QED
  BY <1>1, <1>3, <1>4, <1>6, <1>7

\* No page that is counted begins beyond the end of a listing that has entries.
LEMMA PagesBeginWithin ==
    ASSUME NEW size \in Nat, NEW total \in Nat \ {0}, NEW page \in 1..TotalPages(size, total)
    PROVE  /\ page \in Nat \ {0}
           /\ (page - 1) * PageSize(size, total) < total
           /\ size = 0 => page = 1
<1> DEFINE p == PageSize(size, total)
           q == (total + p - 1) \div p
<1>1. p \in Nat \ {0} /\ (size = 0 => p = total)
  BY DEF PageSize, AtLeastOne
<1>2. total + p - 1 \in Nat
  BY <1>1
<1> HIDE DEF p
<1>3. q \in Nat /\ q * p <= total + p - 1 /\ total + p - 1 < (q + 1) * p
  BY <1>1, <1>2
<1>4. TotalPages(size, total) = IF q = 0 THEN 1 ELSE q
  BY DEF TotalPages, AtLeastOne, p
<1> HIDE DEF q
<1>5. q # 0
  BY <1>1, <1>3
<1>6. page \in 1..q
  BY <1>4, <1>5
<1>7. page \in Nat \ {0} /\ page - 1 \in Nat /\ page <= q
  BY <1>3, <1>6
<1>8. (page - 1) * p <= (q - 1) * p
  <2>1. page - 1 <= q - 1 /\ q - 1 \in Int
    BY <1>3, <1>7
  <2> QED
    BY <1>1, <1>7, <2>1, ProductMonotonic
<1>9. (q - 1) * p = q * p - p
  BY <1>1, <1>3
<1>10. (page - 1) * p \in Int /\ (q - 1) * p \in Int /\ q * p \in Int
  BY <1>1, <1>3, <1>7
<1>11. (page - 1) * p < total
  BY <1>1, <1>3, <1>8, <1>9, <1>10
<1>12. size = 0 => page = 1
  <2> SUFFICES ASSUME size = 0, page # 1 PROVE FALSE
    OBVIOUS
  <2>1. 1 <= page - 1
    BY <1>7
  <2>2. 1 * p <= (page - 1) * p
    BY <1>1, <1>7, <2>1, ProductMonotonic
  <2> QED
    BY <1>1, <1>10, <1>11, <2>2
<1> QED
  BY <1>7, <1>11, <1>12 DEF p

-----------------------------------------------------------------------------
(* Ranks.                                                                  *)

\* A rank is a number below the size of the listing.
LEMMA RankBounded ==
    ASSUME NEW E, IsFiniteSet(E), E \subseteq Int, NEW x \in E
    PROVE  RankIn(E, x) \in Nat /\ RankIn(E, x) < Cardinality(E)
<1> DEFINE below == {y \in E : y < x}
<1>1. below \subseteq E \ {x}
  OBVIOUS
<1>2. IsFiniteSet(E \ {x}) /\ Cardinality(E \ {x}) = Cardinality(E) - 1
  BY FS_RemoveElement
<1>3. IsFiniteSet(below) /\ Cardinality(below) <= Cardinality(E \ {x})
  BY <1>1, <1>2, FS_Subset
<1>4. Cardinality(below) \in Nat /\ Cardinality(E) \in Nat
  BY <1>3, FS_CardinalityType
<1> QED
  BY <1>2, <1>3, <1>4 DEF RankIn

\* An entry that is added lowers no rank.
LEMMA RankAdd ==
    ASSUME NEW E, IsFiniteSet(E), E \subseteq Int, NEW z \in Int, NEW x \in Int
    PROVE  RankIn(E, x) <= RankIn(E \cup {z}, x)
           /\ RankIn(E, x) \in Nat /\ RankIn(E \cup {z}, x) \in Nat
<1>1. IsFiniteSet(E \cup {z})
  BY FS_AddElement
<1>2. {y \in E \cup {z} : y < x} \subseteq E \cup {z} /\ {y \in E : y < x} \subseteq {y \in E \cup {z} : y < x}
  OBVIOUS
<1>3. IsFiniteSet({y \in E \cup {z} : y < x})
  BY <1>1, <1>2, FS_Subset
<1>4. /\ IsFiniteSet({y \in E : y < x})
      /\ Cardinality({y \in E : y < x}) <= Cardinality({y \in E \cup {z} : y < x})
  BY <1>2, <1>3, FS_Subset
<1> QED
  BY <1>3, <1>4, FS_CardinalityType DEF RankIn

\* Removing an entry of rank n or more brings no other entry below n.
LEMMA RankRemove ==
    ASSUME NEW E, IsFiniteSet(E), E \subseteq Int, NEW z \in E, NEW x \in E,
           NEW n \in Int, RankIn(E, z) >= n, RankIn(E \ {z}, x) < n
    PROVE  RankIn(E, x) < n
<1>1. CASE x <= z
  <2>1. {y \in E \ {z} : y < x} = {y \in E : y < x}
    BY <1>1
  <2> QED
    BY <2>1 DEF RankIn
<1>2. CASE z < x
  <2>1. {y \in E : y < z} \subseteq {y \in E \ {z} : y < x} /\ {y \in E \ {z} : y < x} \subseteq E
    <3>1. ASSUME NEW y \in E, y < z PROVE y < x /\ y # z
      BY <1>2, <3>1
    <3> QED
      BY <3>1
  <2>2. IsFiniteSet({y \in E \ {z} : y < x})
    BY <2>1, FS_Subset
  <2>3. IsFiniteSet({y \in E : y < z}) /\ RankIn(E, z) <= RankIn(E \ {z}, x)
    BY <2>1, <2>2, FS_Subset DEF RankIn
  <2>4. RankIn(E, z) \in Nat /\ RankIn(E \ {z}, x) \in Nat
    BY <2>2, <2>3, FS_CardinalityType DEF RankIn
  <2> QED
    BY <2>3, <2>4
<1> QED
  BY <1>1, <1>2

\* Pruning from the end changes no rank.
LEMMA RankPrune ==
    ASSUME NEW E, E \subseteq Int, NEW last \in Int, NEW x \in Int, x <= last
    PROVE  RankIn({y \in E : y <= last}, x) = RankIn(E, x)
<1>1. ASSUME NEW y \in E, y < x PROVE y <= last
  BY <1>1
<1>2. {y \in {v \in E : v <= last} : y < x} = {y \in E : y < x}
  BY <1>1
<1> QED
  BY <1>2 DEF RankIn

\* An entry that comes later in the order has a higher rank.
LEMMA RankOrder ==
    ASSUME NEW E, IsFiniteSet(E), E \subseteq Int, NEW x \in E, NEW y \in E, x < y
    PROVE  RankIn(E, x) < RankIn(E, y)
<1> DEFINE upTo == {v \in E : v < y}
<1>1. {v \in E : v < x} \subseteq upTo \ {x} /\ x \in upTo
  <2>1. ASSUME NEW v \in E, v < x PROVE v < y /\ v # x
    BY <2>1
  <2> QED
    BY <2>1
<1>2. upTo \subseteq E
  OBVIOUS
<1>3. IsFiniteSet(upTo) /\ Cardinality(upTo) \in Nat
  BY <1>2, FS_Subset, FS_CardinalityType
<1> HIDE DEF upTo
<1>4. IsFiniteSet(upTo \ {x}) /\ Cardinality(upTo \ {x}) = Cardinality(upTo) - 1
  BY <1>1, <1>3, FS_RemoveElement
<1>5. /\ Cardinality({v \in E : v < x}) <= Cardinality(upTo \ {x})
      /\ IsFiniteSet({v \in E : v < x})
  BY <1>1, <1>4, FS_Subset
<1>6. Cardinality({v \in E : v < x}) \in Nat
  BY <1>5, FS_CardinalityType
<1> QED
  BY <1>3, <1>4, <1>5, <1>6 DEF RankIn, upTo

\* The ranks are 0 to the size of the listing less one, without a gap: an injection between
\* finite sets of the same size reaches all of it.
LEMMA RanksFill ==
    ASSUME NEW E, IsFiniteSet(E), E \subseteq Int
    PROVE  {RankIn(E, x) + 1 : x \in E} = 1..Cardinality(E)
<1> DEFINE n == Cardinality(E)
           number == [x \in E |-> RankIn(E, x) + 1]
<1>1. n \in Nat
  BY FS_CardinalityType
<1>2. \A x \in E : RankIn(E, x) \in Nat /\ RankIn(E, x) < n
  BY RankBounded
<1>3. \A x, y \in E : x # y => RankIn(E, x) # RankIn(E, y)
  <2> SUFFICES ASSUME NEW x \in E, NEW y \in E, x # y PROVE RankIn(E, x) # RankIn(E, y)
    OBVIOUS
  <2>1. x < y \/ y < x
    OBVIOUS
  <2>2. RankIn(E, x) < RankIn(E, y) \/ RankIn(E, y) < RankIn(E, x)
    BY <2>1, RankOrder
  <2> QED
    BY <1>2, <2>2
<1> HIDE DEF n
<1>4. number \in [E -> 1..n]
  BY <1>1, <1>2
<1>5. number \in Injection(E, 1..n)
  BY <1>2, <1>3, <1>4 DEF Injection, IsInjective
<1>6. IsFiniteSet(1..n) /\ Cardinality(1..n) = n
  BY <1>1, FS_Interval
<1>7. number \in Surjection(E, 1..n)
  BY <1>5, <1>6, FS_Injection DEF n
<1>8. \A i \in 1..n : \E x \in E : number[x] = i
  BY <1>7 DEF Surjection
<1> QED
  BY <1>1, <1>2, <1>8 DEF n

-----------------------------------------------------------------------------
(* The invariant.                                                          *)

\* HasNext in terms of what a walk has counted.
Pages == TotalPages(walk.size, walk.total)

LEMMA Typed ==
    ASSUME TypeOK
    PROVE  /\ entries \subseteq Int /\ IsFiniteSet(entries) /\ Cardinality(entries) \in Nat
           /\ walk.size \in Nat /\ walk.page \in Nat \ {0} /\ walk.total \in Nat
           /\ walk.stayed \subseteq Int
<1>1. entries \subseteq Place /\ IsFiniteSet(entries)
  BY DEF TypeOK
<1>2. entries \subseteq Int
  BY <1>1, ConstantsAssumption
<1>3. Cardinality(entries) \in Nat
  BY <1>1, FS_CardinalityType
<1>4. /\ walk.size \in PerPage \cup {0} /\ walk.page \in Nat \ {0} /\ walk.total \in Nat
      /\ walk.stayed \subseteq Place
  BY DEF TypeOK
<1>5. PerPage \subseteq Nat /\ Place \subseteq Int
  BY ConstantsAssumption
<1>6. walk.size \in Nat
  <2>1. CASE walk.size = 0
    BY <2>1
  <2>2. CASE walk.size \in PerPage
    BY <1>5, <2>2
  <2> QED
    BY <1>4, <2>1, <2>2
<1>7. walk.stayed \subseteq Int
  BY <1>4, <1>5
<1> QED
  BY <1>1, <1>2, <1>3, <1>4, <1>6, <1>7

LEMMA InitIInv == Init => IInv
<1> SUFFICES ASSUME Init PROVE IInv
  OBVIOUS
<1>1. TypeOK
  BY ConstantsAssumption DEF Init, TypeOK, Away
<1>2. walk.at = "away"
  BY DEF Init, Away
<1> QED
  BY <1>1, <1>2 DEF IInv, NoneMissed

LEMMA BeginIInv ==
    ASSUME IInv, NEW size \in PerPage, Begin(size)
    PROVE  IInv'
<1> USE DEF IInv, TypeOK
<1>1. /\ walk' = [Away EXCEPT !.at = "count", !.size = size, !.stayed = entries]
      /\ entries' = entries /\ changes' = changes
  BY DEF Begin
<1>2. /\ walk'.at = "count" /\ walk'.size = size /\ walk'.page = 1 /\ walk'.stayed = entries
      /\ walk'.seen = {} /\ ~walk'.excused /\ walk'.total = 0
  BY <1>1 DEF Away
<1>3. TypeOK'
  <2>1. walk' \in [at : {"away", "count", "query", "read"}, size : PerPage \cup {0},
                   page : Nat \ {0}, total : Nat,
                   seen : SUBSET Place, stayed : SUBSET Place, excused : BOOLEAN]
    <3>1. walk' = [at |-> "count", size |-> size, page |-> 1, total |-> 0, seen |-> {},
                   stayed |-> entries, excused |-> FALSE]
      BY <1>1 DEF Away
    <3> QED
      BY <3>1
  <2> QED
    BY <1>1, <1>2, <2>1
<1>4. Covered(Offset)'
  <2>1. Offset' = 0
    BY <1>2, ConstantsAssumption DEF Offset
  <2>2. ASSUME NEW x \in entries PROVE ~(RankIn(entries, x) < 0)
    <3>1. RankIn(entries, x) \in Nat
      BY RankBounded, Typed
    <3> QED
      BY <3>1
  <2> QED
    BY <1>1, <1>2, <2>1, <2>2 DEF Covered
<1> QED
  BY <1>1, <1>2, <1>3, <1>4 DEF NoneMissed

LEMMA CountIInv ==
    ASSUME IInv, Count
    PROVE  IInv'
<1> USE DEF IInv, TypeOK
<1> DEFINE total == Cardinality(entries)
           pages == TotalPages(walk.size, total)
           page == IF pages < walk.page THEN pages ELSE walk.page
<1>1. /\ walk.at = "count"
      /\ walk' = [walk EXCEPT !.at = "query", !.total = total, !.page = page]
      /\ entries' = entries /\ changes' = changes
  BY DEF Count
<1>2. /\ walk.size \in Nat /\ walk.page \in Nat \ {0} /\ total \in Nat
      /\ pages \in Nat \ {0} /\ (walk.size # 0 => total <= pages * walk.size)
  <2>1. walk.size \in Nat /\ walk.page \in Nat \ {0} /\ total \in Nat
    BY Typed
  <2> QED
    BY <2>1, PagesHoldTotal
<1> HIDE DEF pages, total
<1>3. page \in Nat \ {0} /\ page <= walk.page /\ page <= pages
  BY <1>2
<1>4. (page = pages) \/ page < pages
  BY <1>2, <1>3
<1> HIDE DEF page
<1>5. /\ walk'.at = "query" /\ walk'.size = walk.size /\ walk'.page = page /\ walk'.total = total
      /\ walk'.stayed = walk.stayed /\ walk'.seen = walk.seen /\ walk'.excused = walk.excused
  BY <1>1
<1>6. Pages' = pages
  BY <1>5 DEF Pages, pages
<1>7. TypeOK'
  <2>1. walk'.page \in 1..Pages'
    BY <1>2, <1>3, <1>5, <1>6
  <2>2. /\ entries' \in SUBSET Place /\ IsFiniteSet(entries') /\ changes' \in 0..MaxChanges
        /\ walk' \in [at : {"away", "count", "query", "read"}, size : PerPage \cup {0},
                      page : Nat \ {0}, total : Nat,
                      seen : SUBSET Place, stayed : SUBSET Place, excused : BOOLEAN]
    BY <1>1, <1>2, <1>3
  <2> QED
    BY <2>1, <2>2 DEF Pages
<1>8. ~walk.excused => Covered(Offset)'
  <2> SUFFICES ASSUME ~walk.excused, NEW x \in walk.stayed,
                      RankIn(entries, x) < (page - 1) * walk.size
               PROVE  x \in walk.seen
    BY <1>1, <1>5 DEF Covered, Offset
  <2>1. (page - 1) * walk.size <= (walk.page - 1) * walk.size
    BY ProductMonotonic, <1>2, <1>3
  <2>2. RankIn(entries, x) \in Nat
    BY <1>1, RankBounded, Typed
  <2>3. (page - 1) * walk.size \in Int /\ (walk.page - 1) * walk.size \in Int
    BY <1>2, <1>3
  <2>4. RankIn(entries, x) < (walk.page - 1) * walk.size
    BY <2>1, <2>2, <2>3
  <2> QED
    BY <1>1, <2>4 DEF Covered, Offset
<1>9. walk.size # 0 /\ ~HasNext' => Cardinality(entries) <= page * walk.size
  <2> SUFFICES ASSUME walk.size # 0, ~HasNext' PROVE total <= page * walk.size
    BY DEF total
  <2>1. ~(page < pages)
    BY <1>5, <1>6 DEF HasNext, Pages
  <2> QED
    BY <1>2, <1>4, <2>1
<1> QED
  BY <1>1, <1>5, <1>7, <1>8, <1>9 DEF NoneMissed

LEMMA QueryIInv ==
    ASSUME IInv, Query
    PROVE  IInv'
<1> USE DEF IInv, TypeOK
<1> DEFINE shown == Shown(walk.size, walk.page)
           after == IF HasNext THEN walk.page + 1 ELSE walk.page
<1>1. /\ walk.at = "query"
      /\ walk' = [walk EXCEPT !.at = IF HasNext THEN "count" ELSE "read", !.page = after,
                              !.seen = walk.seen \cup shown]
      /\ entries' = entries /\ changes' = changes
  BY DEF Query
<1>2. /\ walk.size \in Nat /\ walk.page \in Nat \ {0}
      /\ entries \subseteq Int /\ IsFiniteSet(entries)
  BY Typed
<1>3. shown \subseteq entries
  BY DEF Shown
<1>4. after \in Nat \ {0}
  BY <1>2
<1> HIDE DEF after
<1>5. /\ walk'.at = IF HasNext THEN "count" ELSE "read"
      /\ walk'.size = walk.size /\ walk'.page = after /\ walk'.total = walk.total
      /\ walk'.stayed = walk.stayed /\ walk'.seen = walk.seen \cup shown
      /\ walk'.excused = walk.excused
  BY <1>1
<1>6. TypeOK'
  BY <1>1, <1>3, <1>4, <1>5
<1>7. ASSUME ~walk.excused, NEW x \in walk.stayed, NEW r \in Nat, r = RankIn(entries, x),
             walk.size # 0 => r < walk.page * walk.size
      PROVE  x \in walk.seen \cup shown
  <2>1. x \in entries
    BY <1>1
  <2>2. (walk.page - 1) * walk.size \in Int
    BY <1>2
  <2>3. CASE r < (walk.page - 1) * walk.size
    BY <1>1, <1>7, <2>3 DEF Covered, Offset
  <2>4. CASE ~(r < (walk.page - 1) * walk.size)
    <3>1. (walk.page - 1) * walk.size <= r
      BY <2>2, <2>4
    <3> QED
      BY <1>7, <2>1, <3>1 DEF Shown, Rank, RankIn
  <2> QED
    BY <2>3, <2>4
<1>8. HasNext /\ ~walk.excused => Covered(Offset)'
  <2> SUFFICES ASSUME HasNext, ~walk.excused, NEW x \in walk.stayed,
                      RankIn(entries, x) < (walk.page + 1 - 1) * walk.size
               PROVE  x \in walk.seen \cup shown
    BY <1>1, <1>5 DEF Covered, Offset, after
  <2>1. walk.page + 1 - 1 = walk.page
    BY <1>2
  <2>2. RankIn(entries, x) < walk.page * walk.size
    BY <2>1
  <2>3. RankIn(entries, x) \in Nat
    BY <1>1, <1>2, RankBounded
  <2> QED
    BY <1>7, <2>2, <2>3
<1>9. ~HasNext /\ ~walk.excused => walk.stayed \subseteq walk.seen \cup shown
  <2> SUFFICES ASSUME ~HasNext, ~walk.excused, NEW x \in walk.stayed
               PROVE  x \in walk.seen \cup shown
    OBVIOUS
  <2>1. RankIn(entries, x) \in Nat /\ RankIn(entries, x) < Cardinality(entries)
    BY <1>1, <1>2, RankBounded
  <2>2. walk.size # 0 => RankIn(entries, x) < walk.page * walk.size
    <3>1. Cardinality(entries) \in Nat /\ walk.page * walk.size \in Nat
      BY <1>2, FS_CardinalityType
    <3> QED
      BY <1>1, <2>1, <3>1
  <2> QED
    BY <1>7, <2>1, <2>2
<1> QED
  BY <1>1, <1>5, <1>6, <1>8, <1>9 DEF NoneMissed

LEMMA LeaveIInv ==
    ASSUME IInv, Leave
    PROVE  IInv'
<1>1. walk' = Away /\ entries' = entries /\ changes' = changes
  BY DEF Leave
<1>2. TypeOK'
  BY <1>1 DEF IInv, TypeOK, Away
<1> QED
  BY <1>1, <1>2 DEF IInv, NoneMissed, Away

LEMMA AddIInv ==
    ASSUME IInv, NEW z \in Place, Add(z)
    PROVE  IInv'
<1> USE DEF IInv, TypeOK
<1>1. /\ changes < MaxChanges /\ changes' = changes + 1
      /\ entries' = entries \cup {z}
      /\ walk' = [walk EXCEPT !.excused = walk.excused \/ (walk.at = "query" /\ walk.size # 0 /\ ~HasNext)]
  BY DEF Add, Change
<1>2. /\ walk.size \in Nat /\ walk.page \in Nat \ {0} /\ z \in Int
      /\ entries \subseteq Int /\ IsFiniteSet(entries) /\ walk.stayed \subseteq Int
  BY Typed, ConstantsAssumption
<1>3. /\ walk'.at = walk.at /\ walk'.size = walk.size /\ walk'.page = walk.page
      /\ walk'.total = walk.total /\ walk'.stayed = walk.stayed /\ walk'.seen = walk.seen
      /\ walk'.excused = (walk.excused \/ (walk.at = "query" /\ walk.size # 0 /\ ~HasNext))
  BY <1>1
<1>4. TypeOK'
  <2>1. IsFiniteSet(entries') /\ entries' \in SUBSET Place
    BY <1>1, FS_AddElement
  <2>2. changes' \in 0..MaxChanges
    BY <1>1, ConstantsAssumption
  <2>3. walk' \in [at : {"away", "count", "query", "read"}, size : PerPage \cup {0},
                   page : Nat \ {0}, total : Nat,
                   seen : SUBSET Place, stayed : SUBSET Place, excused : BOOLEAN]
    BY <1>1
  <2> QED
    BY <1>3, <2>1, <2>2, <2>3
<1>5. walk.at \in {"count", "query"} /\ ~walk.excused => Covered(Offset)'
  <2> SUFFICES ASSUME walk.at \in {"count", "query"}, ~walk.excused, NEW x \in walk.stayed,
                      RankIn(entries \cup {z}, x) < (walk.page - 1) * walk.size
               PROVE  x \in walk.seen
    BY <1>1, <1>3 DEF Covered, Offset
  <2>1. /\ RankIn(entries, x) <= RankIn(entries \cup {z}, x)
        /\ RankIn(entries, x) \in Nat /\ RankIn(entries \cup {z}, x) \in Nat
    BY <1>2, RankAdd
  <2>2. (walk.page - 1) * walk.size \in Int
    BY <1>2
  <2>3. RankIn(entries, x) < (walk.page - 1) * walk.size
    BY <2>1, <2>2
  <2> QED
    BY <2>3 DEF Covered, Offset
<1>6. HasNext' = HasNext
  BY <1>3 DEF HasNext
<1> QED
  BY <1>1, <1>3, <1>4, <1>5, <1>6 DEF NoneMissed

LEMMA RemoveIInv ==
    ASSUME IInv, NEW z \in Place, Remove(z)
    PROVE  IInv'
<1> USE DEF IInv, TypeOK
<1> DEFINE before == Walking /\ Rank(z) < (walk.page - 1) * walk.size
<1>1. /\ changes < MaxChanges /\ changes' = changes + 1
      /\ z \in entries /\ entries' = entries \ {z}
      /\ walk' = [walk EXCEPT !.stayed = walk.stayed \ {z}, !.excused = walk.excused \/ before]
  BY DEF Remove, Change
<1> HIDE DEF before
<1>2. /\ walk.size \in Nat /\ walk.page \in Nat \ {0}
      /\ entries \subseteq Int /\ IsFiniteSet(entries) /\ Cardinality(entries) \in Nat
  BY Typed
<1>3. /\ walk'.at = walk.at /\ walk'.size = walk.size /\ walk'.page = walk.page
      /\ walk'.total = walk.total /\ walk'.stayed = walk.stayed \ {z} /\ walk'.seen = walk.seen
      /\ walk'.excused = (walk.excused \/ before)
  BY <1>1
<1>4. IsFiniteSet(entries') /\ Cardinality(entries') = Cardinality(entries) - 1
  BY <1>1, <1>2, FS_RemoveElement
<1>5. TypeOK'
  <2>1. changes' \in 0..MaxChanges
    BY <1>1, ConstantsAssumption
  <2>2. before \in BOOLEAN
    BY DEF before, Walking
  <2>3. walk' \in [at : {"away", "count", "query", "read"}, size : PerPage \cup {0},
                   page : Nat \ {0}, total : Nat,
                   seen : SUBSET Place, stayed : SUBSET Place, excused : BOOLEAN]
    BY <1>1, <2>2
  <2> QED
    BY <1>1, <1>3, <1>4, <2>1, <2>3
<1>6. walk.at \in {"count", "query"} /\ ~walk.excused /\ ~before => Covered(Offset)'
  <2> SUFFICES ASSUME walk.at \in {"count", "query"}, ~walk.excused, ~before,
                      NEW x \in walk.stayed \ {z},
                      RankIn(entries \ {z}, x) < (walk.page - 1) * walk.size
               PROVE  x \in walk.seen
    BY <1>1, <1>3 DEF Covered, Offset
  <2>1. (walk.page - 1) * walk.size \in Int /\ x \in entries
    BY <1>2
  <2>2. ~(RankIn(entries, z) < (walk.page - 1) * walk.size)
    BY DEF before, Walking, Rank, RankIn
  <2>3. RankIn(entries, z) \in Nat
    BY <1>1, <1>2, RankBounded
  <2>4. RankIn(entries, z) >= (walk.page - 1) * walk.size
    BY <2>1, <2>2, <2>3
  <2>5. RankIn(entries, x) < (walk.page - 1) * walk.size
    BY <1>1, <1>2, <2>1, <2>4, RankRemove
  <2> QED
    BY <2>5 DEF Covered, Offset
<1>7. HasNext' = HasNext
  BY <1>3 DEF HasNext
<1>8. \A n \in Int : Cardinality(entries) <= n => Cardinality(entries') <= n
  BY <1>2, <1>4
<1>9. walk.page * walk.size \in Int
  BY <1>2
<1> QED
  BY <1>1, <1>3, <1>5, <1>6, <1>7, <1>8, <1>9 DEF NoneMissed

LEMMA PruneIInv ==
    ASSUME IInv, NEW last \in Place, Prune(last)
    PROVE  IInv'
<1> USE DEF IInv, TypeOK
<1>1. /\ changes < MaxChanges /\ changes' = changes + 1
      /\ entries' = {y \in entries : y <= last}
      /\ walk' = [walk EXCEPT !.stayed = {y \in walk.stayed : y <= last}]
  BY DEF Prune, Change
<1>2. /\ walk.size \in Nat /\ walk.page \in Nat \ {0} /\ last \in Int
      /\ entries \subseteq Int /\ IsFiniteSet(entries) /\ Cardinality(entries) \in Nat
      /\ walk.stayed \subseteq Int
  BY Typed, ConstantsAssumption
<1>3. /\ walk'.at = walk.at /\ walk'.size = walk.size /\ walk'.page = walk.page
      /\ walk'.total = walk.total /\ walk'.stayed = {y \in walk.stayed : y <= last}
      /\ walk'.seen = walk.seen /\ walk'.excused = walk.excused
  BY <1>1
<1>4. entries' \subseteq entries
  BY <1>1
<1>5. IsFiniteSet(entries') /\ Cardinality(entries') <= Cardinality(entries)
  BY <1>2, <1>4, FS_Subset
<1>6. Cardinality(entries') \in Nat
  BY <1>5, FS_CardinalityType
<1>7. TypeOK'
  <2>1. changes' \in 0..MaxChanges
    BY <1>1, ConstantsAssumption
  <2>2. walk' \in [at : {"away", "count", "query", "read"}, size : PerPage \cup {0},
                   page : Nat \ {0}, total : Nat,
                   seen : SUBSET Place, stayed : SUBSET Place, excused : BOOLEAN]
    BY <1>1
  <2> QED
    BY <1>3, <1>4, <1>5, <2>1, <2>2
<1>8. walk.at \in {"count", "query"} /\ ~walk.excused => Covered(Offset)'
  <2> SUFFICES ASSUME walk.at \in {"count", "query"}, ~walk.excused,
                      NEW x \in walk.stayed, x <= last,
                      RankIn({y \in entries : y <= last}, x) < (walk.page - 1) * walk.size
               PROVE  x \in walk.seen
    BY <1>1, <1>3 DEF Covered, Offset
  <2>1. RankIn(entries, x) < (walk.page - 1) * walk.size
    BY <1>2, RankPrune
  <2> QED
    BY <2>1 DEF Covered, Offset
<1>9. HasNext' = HasNext
  BY <1>3 DEF HasNext
<1>10. \A n \in Int : Cardinality(entries) <= n => Cardinality(entries') <= n
  BY <1>2, <1>5, <1>6
<1>11. walk.page * walk.size \in Int
  BY <1>2
<1> QED
  BY <1>1, <1>3, <1>7, <1>8, <1>9, <1>10, <1>11 DEF NoneMissed

\* A page that is queried shows what its counters announce.
LEMMA PageIsAnnounced == ASSUME TypeOK PROVE SaysWhatItShows
<1> DEFINE total == Cardinality(entries)
           size == walk.size
           page == walk.page
           from == (page - 1) * size
           to == page * size
<1> SUFFICES ASSUME walk.at = "query", walk.total = total
             PROVE  /\ {Rank(x) + 1 : x \in Shown(size, page)}
                         = IF entries = {} THEN {}
                           ELSE FirstShown(size, page, total)..LastShown(size, page, total)
                    /\ entries # {} => FirstShown(size, page, total) <= LastShown(size, page, total)
  BY DEF SaysWhatItShows
<1>1. /\ entries \subseteq Int /\ IsFiniteSet(entries) /\ total \in Nat
      /\ size \in Nat /\ page \in 1..TotalPages(size, total)
  BY Typed DEF TypeOK
<1>2. entries = {} <=> total = 0
  BY <1>1, FS_EmptySet
<1>3. CASE entries = {}
  BY <1>3 DEF Shown
<1>4. CASE entries # {}
  <2>1. \A x \in entries : Rank(x) \in Nat
    BY <1>1, RankBounded DEF Rank, RankIn
  <2>2. {Rank(x) + 1 : x \in entries} = 1..total
    BY <1>1, RanksFill DEF Rank, RankIn
  <2>3. /\ total \in Nat \ {0} /\ page \in Nat \ {0} /\ (size = 0 => page = 1)
        /\ (page - 1) * PageSize(size, total) < total
    BY <1>1, <1>2, <1>4, PagesBeginWithin
  <2> HIDE DEF total, size, page
  <2>4. CASE size = 0
    <3>1. Shown(size, page) = entries
      BY <2>4 DEF Shown
    <3>2. FirstShown(size, page, total) = 1 /\ LastShown(size, page, total) = total
      BY <2>3, <2>4 DEF FirstShown, LastShown, PageSize, AtLeastOne
    <3> QED
      BY <1>4, <2>2, <2>3, <3>1, <3>2
  <2>5. CASE size # 0
    <3>1. from \in Int /\ to \in Int /\ to = from + size /\ from < total /\ from >= 0
      BY <1>1, <2>3, <2>5 DEF PageSize
    <3>2. /\ FirstShown(size, page, total) = from + 1
          /\ LastShown(size, page, total) = IF total < to THEN total ELSE to
      BY <2>3, <2>5 DEF FirstShown, LastShown, PageSize
    <3>3. Shown(size, page) = {x \in entries : from <= Rank(x) /\ Rank(x) < to}
      BY <2>5 DEF Shown
    <3> HIDE DEF from, to
    <3>4. {Rank(x) + 1 : x \in Shown(size, page)} = {i \in 1..total : from + 1 <= i /\ i <= to}
      <4>1. ASSUME NEW x \in Shown(size, page)
            PROVE  Rank(x) + 1 \in 1..total /\ from + 1 <= Rank(x) + 1 /\ Rank(x) + 1 <= to
        BY <2>1, <2>2, <3>1, <3>3
      <4>2. ASSUME NEW i \in 1..total, from + 1 <= i, i <= to
            PROVE  \E x \in Shown(size, page) : i = Rank(x) + 1
        <5>1. PICK x \in entries : i = Rank(x) + 1
          BY <2>2
        <5>2. from <= Rank(x) /\ Rank(x) < to
          BY <2>1, <3>1, <4>2, <5>1
        <5> QED
          BY <3>3, <5>1, <5>2
      <4> QED
        BY <4>1, <4>2
    <3>5. {i \in 1..total : from + 1 <= i /\ i <= to}
            = (from + 1)..(IF total < to THEN total ELSE to)
      BY <2>3, <3>1
    <3>6. from + 1 <= IF total < to THEN total ELSE to
      BY <1>1, <2>3, <2>5, <3>1
    <3> QED
      BY <1>4, <3>2, <3>4, <3>5, <3>6
  <2> QED
    BY <2>4, <2>5
<1> QED
  BY <1>3, <1>4

-----------------------------------------------------------------------------
LEMMA NextIInv == IInv /\ [Next]_vars => IInv'
<1> SUFFICES ASSUME IInv, [Next]_vars PROVE IInv'
  OBVIOUS
<1>1. CASE \E size \in PerPage : Begin(size)
  BY <1>1, BeginIInv
<1>2. CASE Read
  BY <1>2, CountIInv, QueryIInv, LeaveIInv DEF Read
<1>3. ASSUME NEW x \in Place, Add(x) \/ Remove(x) \/ Prune(x)
      PROVE  IInv'
  BY <1>3, AddIInv, RemoveIInv, PruneIInv
<1>4. CASE UNCHANGED vars
  BY <1>4 DEF vars, IInv, TypeOK, NoneMissed, Covered, Offset, HasNext
<1> QED
  BY <1>1, <1>2, <1>3, <1>4 DEF Next

LEMMA Inductive == Spec => []IInv
  BY InitIInv, NextIInv, PTL DEF Spec

\* The types, and that a queried page is one of those counted.
THEOREM TypeCorrect == Spec => []TypeOK
<1>1. IInv => TypeOK
  BY DEF IInv
<1> QED
  BY Inductive, <1>1, PTL

\* Whoever follows the links of dashboard or check log to the last page has seen whatever
\* stayed, for every page size and listing, but for the two excuses that NoneMissed names.
THEOREM WalksMissNothing == Spec => []NoneMissed
<1>1. IInv => NoneMissed
  BY DEF IInv
<1> QED
  BY Inductive, <1>1, PTL

\* "first to last of total" is what the page shows, for every listing and page size: no
\* entry is shown under a number that is not announced, and none of those announced is missing.
THEOREM PagesSayWhatTheyShow == Spec => []SaysWhatItShows
<1>1. IInv => SaysWhatItShows
  BY PageIsAnnounced DEF IInv
<1> QED
  BY Inductive, <1>1, PTL

=============================================================================
