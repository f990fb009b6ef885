------------------------------- MODULE Listing -------------------------------
(***************************************************************************)
(* Paging: the dashboard's records and the check log (app/routes.py) are   *)
(* counted by one query and cut into a page by a second one, and a reader  *)
(* goes from page to page by the link to the next one, while entries are   *)
(* added, removed and pruned (app/check_logs.py) between any two queries.  *)
(***************************************************************************)
EXTENDS Integers, FiniteSets

CONSTANTS
    Place,      \* places in the order of the listing; an entry is known by its place
    PerPage,    \* the entries on a page to choose from, 0 for the dashboard's "all"
    MaxChanges  \* bound on changes of the listing

ASSUME ConstantsAssumption ==
    Place \subseteq Int /\ PerPage \subseteq Nat /\ MaxChanges \in Nat

VARIABLES
    entries, \* what the listing's filter selects
    walk,    \* the reader
    changes

vars == <<entries, walk, changes>>

-----------------------------------------------------------------------------
AtLeastOne(n) == IF n = 0 THEN 1 ELSE n

PageSize(size, total) == IF size = 0 THEN AtLeastOne(total) ELSE size

\* Variant: a last page that is not full does not count.
TotalPagesFull(size, total) == AtLeastOne(total \div PageSize(size, total))

TotalPages(size, total) ==
    AtLeastOne((total + PageSize(size, total) - 1) \div PageSize(size, total))

Rank(x) == Cardinality({y \in entries : y < x})

\* Variant: pages are counted from 0 in the query and from 1 everywhere else.
ShownFromZero(size, page) ==
    {x \in entries : size # 0 => (page * size <= Rank(x) /\ Rank(x) < (page + 1) * size)}

\* OFFSET and LIMIT, neither of which is there for "all".
Shown(size, page) ==
    {x \in entries : size # 0 => ((page - 1) * size <= Rank(x) /\ Rank(x) < page * size)}

FirstShown(size, page, total) ==
    IF total = 0 THEN 0 ELSE (page - 1) * PageSize(size, total) + 1
LastShown(size, page, total) ==
    IF size = 0 \/ total < page * size THEN total ELSE page * size

\* page is the one asked for until the count has been taken, then the one that is shown;
\* seen, stayed and excused are history: the entries shown, those of the beginning that
\* are still there, and whether a change was in the way of seeing them.
Away == [at |-> "away", size |-> 0, page |-> 1, total |-> 0, seen |-> {}, stayed |-> {}, excused |-> FALSE]

Init ==
    /\ entries \in {E \in SUBSET Place : IsFiniteSet(E)}
    /\ walk = Away
    /\ changes = 0

-----------------------------------------------------------------------------
(* The reader.                                                             *)

Begin(size) ==
    /\ walk.at = "away"
    /\ walk' = [Away EXCEPT !.at = "count", !.size = size, !.stayed = entries]
    /\ UNCHANGED <<entries, changes>>

\* Variant: a page that is no longer there is asked for all the same.
CountUnclamped ==
    /\ walk.at = "count"
    /\ walk' = [walk EXCEPT !.at = "query", !.total = Cardinality(entries)]
    /\ UNCHANGED <<entries, changes>>

Count ==
    /\ walk.at = "count"
    /\ LET total == Cardinality(entries)
           pages == TotalPages(walk.size, total)
       IN  walk' = [walk EXCEPT !.at = "query", !.total = total,
                                !.page = IF pages < walk.page THEN pages ELSE walk.page]
    /\ UNCHANGED <<entries, changes>>

HasNext == walk.page < TotalPages(walk.size, walk.total)

\* Variant: the last page links to a next one.
QueryLinksOn ==
    /\ walk.at = "query"
    /\ walk' = [walk EXCEPT !.at = "count", !.page = @ + 1,
                            !.seen = walk.seen \cup Shown(walk.size, walk.page)]
    /\ UNCHANGED <<entries, changes>>

Query ==
    /\ walk.at = "query"
    /\ walk' = [walk EXCEPT !.at = IF HasNext THEN "count" ELSE "read",
                            !.page = IF HasNext THEN walk.page + 1 ELSE walk.page,
                            !.seen = walk.seen \cup Shown(walk.size, walk.page)]
    /\ UNCHANGED <<entries, changes>>

Leave ==
    /\ walk.at = "read" /\ walk' = Away
    /\ UNCHANGED <<entries, changes>>

-----------------------------------------------------------------------------
(* The listing.                                                            *)

Change == changes < MaxChanges /\ changes' = changes + 1

Walking == walk.at \in {"count", "query"}

\* A record or a log entry, anywhere: logs are dated by the beginning of their check.
Add(x) ==
    /\ Change
    /\ x \notin entries /\ entries' = entries \cup {x}
    /\ walk' = [walk EXCEPT !.excused = @ \/ (walk.at = "query" /\ walk.size # 0 /\ ~HasNext)]

\* A record is deleted or no longer what the filter asks for; the logs of a deleted record
\* are no longer among those of the record.
Remove(x) ==
    /\ Change
    /\ x \in entries /\ entries' = entries \ {x}
    /\ walk' = [walk EXCEPT !.stayed = @ \ {x},
                            !.excused = @ \/ (Walking /\ Rank(x) < (walk.page - 1) * walk.size)]

\* prune_check_logs: what is older than the retention, whatever it is about.
Prune(last) ==
    /\ Change
    /\ entries' = {x \in entries : x <= last} /\ entries' # entries
    /\ walk' = [walk EXCEPT !.stayed = {x \in @ : x <= last}]

-----------------------------------------------------------------------------
Read == Count \/ Query \/ Leave

Next ==
    \/ \E size \in PerPage : Begin(size)
    \/ Read
    \/ \E x \in Place : Add(x) \/ Remove(x) \/ Prune(x)

Spec == Init /\ [][Next]_vars

\* A reader who has begun follows the links.
FairSpec == Spec /\ WF_vars(Read)

-----------------------------------------------------------------------------
(* Properties.                                                             *)

\* Every variable keeps its type; a page that is queried is one of those counted.
TypeOK ==
    /\ entries \in SUBSET Place /\ IsFiniteSet(entries)
    /\ walk \in [at : {"away", "count", "query", "read"}, size : PerPage \cup {0}, page : Nat \ {0}, total : Nat,
                 seen : SUBSET Place, stayed : SUBSET Place, excused : BOOLEAN]
    /\ changes \in 0..MaxChanges
    /\ walk.at = "query" => walk.page \in 1..TotalPages(walk.size, walk.total)

\* Whoever follows the links to the end has seen every entry that was there all the time,
\* whatever was added or pruned, unless an entry before the page was removed or one was
\* added between the two queries of the last one.  "all" has neither excuse.
NoneMissed == walk.at = "read" /\ ~walk.excused => walk.stayed \subseteq walk.seen

\* What the page says it shows ("first to last of total") is what it shows, and it is
\* empty only with the listing, if nothing has changed since the count.
SaysWhatItShows ==
    walk.at = "query" /\ walk.total = Cardinality(entries) =>
      LET first == FirstShown(walk.size, walk.page, walk.total)
          last == LastShown(walk.size, walk.page, walk.total)
      IN  /\ {Rank(x) + 1 : x \in Shown(walk.size, walk.page)} = IF entries = {} THEN {} ELSE first..last
          /\ entries # {} => first <= last

\* A page asked for that is gone leads to the last one: once the listing is left alone, a
\* walk comes to an end.
WalkEnds == walk.at = "count" ~> walk.at = "read"

=============================================================================
