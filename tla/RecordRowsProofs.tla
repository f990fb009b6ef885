--------------------------- MODULE RecordRowsProofs ---------------------------
(***************************************************************************)
(* Proofs about RecordCache: what its rows hold.  Sessions and requests    *)
(* carry row ids from a read to a later commit, and a commit finds its row *)
(* by that id alone.  Whatever is written to a row belongs to its record   *)
(* as long as no new row is given an id that somebody still carries for    *)
(* another record: sequences never do that, SQLite's row ids may.          *)
(***************************************************************************)
EXTENDS RecordCacheProofs

USE ConstantsAssumption

\* A request still holds id as that of record q's row.
RequestHolds(u, q, id) ==
    \/ u.op \in {"update", "updated"} /\ u.rec = q /\ u.old.id = id
    \/ u.op = "delete" /\ u.ids[q] = id

\* Some session or request has read id as that of record q's row.
Remembered(q, id) ==
    /\ id # 0
    /\ \/ \E s \in Syncer : sync[s].plan[q].id = id
       \/ \E w \in Worker : RequestHolds(req[w], q, id)

\* No row is inserted under an id that is remembered for another record.
NotReassigned ==
    \A q, r \in Record : q # r /\ rows'[r].id \notin {0, rows[r].id}
                           => ~Remembered(q, rows'[r].id)

IdsNotReassigned == [][NotReassigned]_vars

-----------------------------------------------------------------------------
(* Ids of rows: distinct, and below the sequence where there is one.       *)

IdsDistinct == \A q, r \in Record : rows[q].id = rows[r].id /\ rows[q].id # 0 => q = r
IdsBelow == ~ReuseIds => \A r \in Record : rows[r].id < nextId

IdsOK == TypeOK /\ IdsDistinct /\ IdsBelow

\* The steps that touch rows.
LEMMA RowsStep ==
    ASSUME [Next]_vars
    PROVE  \/ UNCHANGED rows
           \/ DeleteAccount
           \/ \E s \in Syncer : SyncCommit(s)
           \/ \E w \in Worker : CreateCommit(w) \/ UpdateCommit(w) \/ DeleteCommit(w)
<1>1. CASE Elsewhere \/ UNCHANGED vars
    BY <1>1 DEF Elsewhere, AddedElsewhere, EditedElsewhere, RemovedElsewhere,
       ZoneAddedElsewhere, ZoneRemovedElsewhere, database, vars
<1>2. ASSUME NEW s \in Syncer, AddAccount(s) \/ BeginSync(s) \/ SyncStep(s), ~SyncCommit(s)
      PROVE  UNCHANGED rows
    BY <1>2 DEF AddAccount, BeginSync, SyncStep, SyncListZones, SyncReadZones, SyncListPage,
       SyncReadRows, SyncFails, database
<1>3. ASSUME NEW w \in Worker, RequestStart(w) \/ RequestStep(w),
             ~CreateCommit(w), ~UpdateCommit(w), ~DeleteCommit(w)
      PROVE  UNCHANGED rows
    BY <1>3 DEF RequestStart, RequestStep, CreateStart, UpdateStart, DeleteStart,
       CreateRemote, UpdateRemote, DeleteRemote, DeleteRefused, RequestFails, database
<1>4. QED
    BY <1>1, <1>2, <1>3 DEF Next

\* The members of a finite set of numbers have distinct ranks below its size.
LEMMA Ranks ==
    ASSUME NEW I \in SUBSET Nat, IsFiniteSet(I), NEW q \in I
    PROVE  /\ Before(I, q) \in Nat /\ Cardinality(I) \in Nat
           /\ Before(I, q) < Cardinality(I)
           /\ \A r \in I : Before(I, q) = Before(I, r) => q = r
<1> DEFINE below(r) == {p \in I : p < r}
<1>1. Cardinality(I) \in Nat
    BY FS_CardinalityType
<1>2. ASSUME NEW S \in SUBSET I, NEW x \in I \ S, NEW T, S \cup {x} \subseteq T, T \subseteq I
      PROVE  /\ Cardinality(S) \in Nat /\ Cardinality(T) \in Nat
             /\ Cardinality(S) < Cardinality(T)
  <2>1. IsFiniteSet(S) /\ Cardinality(S) \in Nat /\ IsFiniteSet(T) /\ Cardinality(T) \in Nat
    BY <1>1, <1>2, FS_Subset, FS_CardinalityType
  <2>2. Cardinality(S \cup {x}) = Cardinality(S) + 1
    BY <2>1, <1>2, FS_AddElement
  <2>3. Cardinality(S \cup {x}) <= Cardinality(T)
    BY <2>1, <1>2, FS_Subset
  <2>4. QED
    BY <2>1, <2>2, <2>3
<1>3. ASSUME NEW x \in I
      PROVE  /\ Cardinality(below(x)) \in Nat
             /\ Cardinality(below(x)) < Cardinality(I)
  <2>1. below(x) \in SUBSET I /\ x \in I \ below(x) /\ below(x) \cup {x} \subseteq I
    BY <1>1
  <2> HIDE DEF below
  <2>2. QED
    BY <1>2, <2>1
<1>4. ASSUME NEW x \in I, NEW y \in I, x < y
      PROVE  Cardinality(below(x)) < Cardinality(below(y))
  <2>1. /\ below(x) \in SUBSET I /\ x \in I \ below(x)
        /\ below(x) \cup {x} \subseteq below(y) /\ below(y) \subseteq I
    <3>1. ASSUME NEW p \in I, p < x \/ p = x PROVE p < y
      BY <1>1, <1>4, <3>1
    <3>2. ~(x < x)
      BY <1>1
    <3>3. QED
      BY <3>1, <3>2
  <2> HIDE DEF below
  <2>2. QED
    BY <1>2, <2>1
<1>5. q \in I
    OBVIOUS
<1>6. ASSUME NEW r \in I, Cardinality(below(q)) = Cardinality(below(r)) PROVE q = r
  <2>1. q \in Nat /\ r \in Nat
    BY <1>1, <1>5
  <2>2. ~(q < r) /\ ~(r < q)
    <3> HIDE DEF below
    <3>1. QED
      BY <1>3, <1>4, <1>5, <1>6
  <2>3. QED
    BY <2>1, <2>2
<1>7. QED
    BY <1>1, <1>3, <1>5, <1>6 DEF Before

LEMMA InsertedRank ==
    ASSUME TypeOK, NEW s \in Syncer, NEW q \in Inserted(s)
    PROVE  LET rank(r) == Before(Inserted(s), r)
           IN  /\ rank(q) \in Nat
               /\ Cardinality(Inserted(s)) \in Nat
               /\ rank(q) < Cardinality(Inserted(s))
               /\ \A r \in Inserted(s) : rank(q) = rank(r) => q = r
<1>1. Inserted(s) \in SUBSET Nat /\ IsFiniteSet(Inserted(s))
    BY FS_Subset DEF Inserted
<1>2. QED
    BY <1>1, Ranks

\* A free id is above every id in use and, where there is a sequence, its next value.
LEMMA FreeIdAbove ==
    ASSUME IdsOK, NEW base \in FreeIds
    PROVE  /\ base \in Nat \ {0}
           /\ \A r \in Record : rows[r].id < base
           /\ ~ReuseIds => base = nextId
BY FreeIdType DEF IdsOK, FreeIds, FreeAfter, IdsBelow

\* The ids a step assigns are above all ids in use, distinct, and taken from the sequence.
LEMMA NewIds ==
    ASSUME IdsOK, [Next]_vars
    PROVE  LET new == {r \in Record : rows'[r].id \notin {0, rows[r].id}}
           IN  /\ \A q \in Record, r \in new : rows[q].id < rows'[r].id
               /\ \A q, r \in new : rows'[q].id = rows'[r].id => q = r
               /\ ~ReuseIds => \A r \in new : nextId <= rows'[r].id /\ rows'[r].id < nextId'
<1> DEFINE new == {r \in Record : rows'[r].id \notin {0, rows[r].id}}
<1>0. rows \in [Record -> Row \cup {NoRow}] /\ nextId \in Nat \ {0}
    BY DEF IdsOK, TypeOK
<1>1. ASSUME \A r \in Record : rows'[r].id \in {0, rows[r].id} PROVE new = {}
    BY <1>1
<1>2. CASE UNCHANGED rows \/ DeleteAccount
    BY <1>1, <1>2 DEF DeleteAccount, NoRow
<1>3. ASSUME NEW w \in Worker, DeleteCommit(w) PROVE new = {}
    BY <1>1, <1>3 DEF DeleteCommit, NoRow
<1>4. ASSUME NEW w \in Worker, UpdateCommit(w) PROVE new = {}
  <2>1. req[w] \in UpdateReq
    BY <1>4, ReqType DEF UpdateCommit, IdsOK
  <2>2. req[w].old.id # 0
    BY <2>1 DEF UpdateReq, Row
  <2>3. ASSUME NEW r \in Record, rows[r].id # 0
        PROVE  Edited(rows[r], req[w]).id = rows[r].id
    <3>1. rows[r] \in Row
      BY <2>3, CachedRowType DEF Cached, IdsOK
    <3>2. QED
      BY <2>1, <3>1, EditedType
  <2>4. \A r \in Record : rows'[r].id = rows[r].id
    BY <1>4, <2>2, <2>3 DEF UpdateCommit
  <2>5. QED
    BY <1>1, <2>4
<1>5. ASSUME NEW w \in Worker, CreateCommit(w)
      PROVE  \E r \in Record, id \in FreeIds :
               new \subseteq {r} /\ rows'[r].id = id /\ nextId' = nextId + 1
  <2>1. req[w] \in CreatedReq
    BY <1>5, ReqType DEF CreateCommit, IdsOK
  <2>2. req[w].rec \in Record
    BY <2>1 DEF CreatedReq
  <2>3. PICK id \in FreeIds :
          rows' = [rows EXCEPT ![req[w].rec] = [id |-> id, content |-> req[w].content,
                                                comment |-> req[w].comment]]
    BY <1>5 DEF CreateCommit
  <2>4. /\ rows'[req[w].rec].id = id
        /\ \A r \in Record : r # req[w].rec => rows'[r] = rows[r]
    BY <1>0, <2>2, <2>3
  <2>5. QED
    BY <1>5, <2>2, <2>4 DEF CreateCommit
<1>6. ASSUME NEW s \in Syncer, SyncCommit(s)
      PROVE  /\ \A q \in Record, r \in new : rows[q].id < rows'[r].id
             /\ \A q, r \in new : rows'[q].id = rows'[r].id => q = r
             /\ ~ReuseIds => \A r \in new : nextId <= rows'[r].id /\ rows'[r].id < nextId'
  <2> DEFINE rank(r) == Before(Inserted(s), r)
  <2>1. PICK base \in FreeIds :
          rows' = [r \in Record |->
                     IF ZoneOf[r] \in StaleZones(s) THEN NoRow ELSE Written(s, base, r)]
    BY <1>6 DEF SyncCommit
  <2>2. base \in Nat \ {0} /\ (\A r \in Record : rows[r].id < base) /\ (~ReuseIds => base = nextId)
    BY FreeIdAbove
  <2>3. \A r \in Record : rows[r].id \in Nat
    BY <1>0 DEF Row, NoRow
  <2>4. ASSUME NEW r \in new
        PROVE  r \in Inserted(s) /\ rows'[r].id = base + rank(r)
    <3>1. rows'[r] = Written(s, base, r)
      BY <2>1, <2>4 DEF NoRow
    <3>2. r \in Inserted(s)
      <4>1. SUFFICES ASSUME r \notin Inserted(s) PROVE Written(s, base, r).id \in {0, rows[r].id}
        BY <2>4, <3>1
      <4>2. rows[r] \in Row \cup {NoRow}
        BY <1>0
      <4>3. \A c : [rows[r] EXCEPT !.content = c].id = rows[r].id
        BY <4>2 DEF Row, NoRow
      <4>4. QED
        BY <4>1, <4>3 DEF Written, NoRow
    <3>3. QED
      BY <3>1, <3>2 DEF Written
  <2>5. \A r \in new : /\ rank(r) \in Nat /\ Cardinality(Inserted(s)) \in Nat
                       /\ rank(r) < Cardinality(Inserted(s))
                       /\ \A q \in new : rank(r) = rank(q) => r = q
    <3> HIDE DEF new
    <3>1. QED
      BY <2>4, InsertedRank DEF IdsOK
  <2>6. ~ReuseIds => \A r \in new : nextId + Cardinality(Inserted(s)) <= nextId'
    <3>1. Cardinality(NewZones(s)) \in Nat
      <4>1. NewZones(s) \subseteq Zone
        BY DEF NewZones, IdsOK, TypeOK, Sync
      <4>2. QED
        BY <4>1, FS_Subset, FS_CardinalityType
    <3>2. Cardinality(Inserted(s)) \in Nat
      BY CountIsNat DEF Inserted
    <3>3. nextId' = nextId + Cardinality(Inserted(s)) + Cardinality(NewZones(s))
      BY <1>6 DEF SyncCommit
    <3>4. QED
      BY <1>0, <3>1, <3>2, <3>3
  <2> HIDE DEF new, rank
  <2>7. ASSUME NEW q \in Record, NEW r \in new PROVE rows[q].id < rows'[r].id
    <3>1. rows'[r].id = base + rank(r) /\ rank(r) \in Nat
      BY <2>4, <2>5
    <3>2. rows[q].id \in Nat /\ rows[q].id < base
      BY <2>2, <2>3
    <3>3. QED
      BY <2>2, <3>1, <3>2
  <2>8. \A q, r \in new : rows'[q].id = rows'[r].id => q = r
    BY <2>2, <2>4, <2>5
  <2>9. ~ReuseIds => \A r \in new : nextId <= rows'[r].id /\ rows'[r].id < nextId'
    <3>1. nextId' \in Nat
      BY TypeStep DEF IdsOK, TypeOK
    <3>2. QED
      BY <1>0, <2>2, <2>4, <2>5, <2>6, <3>1
  <2>10. QED
    BY <2>7, <2>8, <2>9
<1>7. ASSUME NEW r \in Record, NEW id \in FreeIds,
             new \subseteq {r}, rows'[r].id = id, nextId' = nextId + 1
      PROVE  /\ \A q \in Record, p \in new : rows[q].id < rows'[p].id
             /\ \A q, p \in new : rows'[q].id = rows'[p].id => q = p
             /\ ~ReuseIds => \A p \in new : nextId <= rows'[p].id /\ rows'[p].id < nextId'
  <2> HIDE DEF new
  <2>1. /\ id \in Nat /\ (\A q \in Record : rows[q].id < id)
        /\ ~ReuseIds => id = nextId
    BY FreeIdAbove
  <2>2. \A p \in new : p = r /\ rows'[p].id = id
    BY <1>7
  <2>3. ASSUME NEW q \in Record, NEW p \in new PROVE rows[q].id < rows'[p].id
    BY <2>1, <2>2
  <2>4. ~ReuseIds => \A p \in new : nextId <= rows'[p].id /\ rows'[p].id < nextId'
    BY <1>0, <1>7, <2>1, <2>2
  <2>5. QED
    BY <2>2, <2>3, <2>4
<1>8. CASE new = {}
    BY <1>8
<1>9. QED
  <2>1. UNCHANGED rows \/ DeleteAccount => new = {}
    BY <1>1, <1>2 DEF DeleteAccount, NoRow
  <2> HIDE DEF new
  <2>2. CASE \E w \in Worker : CreateCommit(w)
    BY <2>2, <1>5, <1>7 DEF new
  <2>3. CASE \E s \in Syncer : SyncCommit(s)
    BY <2>3, <1>6 DEF new
  <2>4. CASE new = {}
    BY <2>4 DEF new
  <2>5. QED
    BY <2>1, <2>2, <2>3, <2>4, <1>3, <1>4, RowsStep

LEMMA NextIdGrows == ASSUME TypeOK, [Next]_vars PROVE nextId <= nextId'
<1>0. nextId \in Nat \ {0}
    BY DEF TypeOK
<1>1. ASSUME Elsewhere \/ DeleteAccount \/ UNCHANGED vars PROVE nextId' = nextId
    BY <1>1 DEF Elsewhere, AddedElsewhere, EditedElsewhere, RemovedElsewhere,
       ZoneAddedElsewhere, ZoneRemovedElsewhere, database, DeleteAccount, vars
<1>2. ASSUME NEW s \in Syncer, AddAccount(s) \/ BeginSync(s) \/ SyncStep(s), ~SyncCommit(s)
      PROVE  nextId' \in {nextId, nextId + 1}
    BY <1>2 DEF AddAccount, BeginSync, SyncStep, SyncListZones, SyncReadZones,
       SyncListPage, SyncReadRows, SyncFails, database
<1>3. ASSUME NEW s \in Syncer, SyncCommit(s) PROVE nextId <= nextId'
  <2>1. Cardinality(Inserted(s)) \in Nat
    BY CountIsNat DEF Inserted
  <2>2. Cardinality(NewZones(s)) \in Nat
    <3>1. NewZones(s) \subseteq Zone
      BY DEF NewZones, TypeOK, Sync
    <3>2. QED
      BY <3>1, FS_Subset, FS_CardinalityType
  <2>3. QED
    BY <1>0, <1>3, <2>1, <2>2 DEF SyncCommit
<1>4. ASSUME NEW w \in Worker, RequestStart(w) \/ RequestStep(w)
      PROVE  nextId' \in {nextId, nextId + 1}
    BY <1>4 DEF RequestStart, RequestStep, CreateStart, UpdateStart, DeleteStart,
       CreateRemote, CreateCommit, UpdateRemote, UpdateCommit, DeleteRemote, DeleteRefused,
       DeleteCommit, RequestFails, database
<1>5. QED
    BY <1>0, <1>1, <1>2, <1>3, <1>4 DEF Next

\* Ids stay distinct and below the sequence, whatever commits interleave.
LEMMA IdsInvariant == Spec => []IdsOK
<1>1. Init => IdsOK
    BY InitType DEF Init, IdsOK, IdsDistinct, IdsBelow, NoRow
<1>2. ASSUME IdsOK, [Next]_vars PROVE IdsOK'
  <2> DEFINE new == {r \in Record : rows'[r].id \notin {0, rows[r].id}}
  <2>1. TypeOK'
    BY <1>2, TypeStep DEF IdsOK
  <2>2. /\ \A q \in Record, r \in new : rows[q].id < rows'[r].id
        /\ \A q, r \in new : rows'[q].id = rows'[r].id => q = r
        /\ ~ReuseIds => \A r \in new : nextId <= rows'[r].id /\ rows'[r].id < nextId'
    BY <1>2, NewIds
  <2>3. /\ \A r \in Record : rows[r].id \in Nat /\ rows'[r].id \in Nat
        /\ nextId \in Nat \ {0} /\ nextId' \in Nat \ {0}
    BY <1>2, <2>1 DEF IdsOK, TypeOK, Row, NoRow
  <2>4. \A r \in Record : r \in new \/ rows'[r].id \in {0, rows[r].id}
    OBVIOUS
  <2> HIDE DEF new
  <2>5. ASSUME NEW q \in Record, NEW r \in Record, rows'[q].id = rows'[r].id, rows'[q].id # 0
        PROVE  q = r
    <3>1. CASE q \in new /\ r \in new
      BY <2>2, <2>5, <3>1
    <3>2. CASE q \notin new /\ r \notin new
      BY <1>2, <2>4, <2>5, <3>2 DEF IdsOK, IdsDistinct
    <3>3. ASSUME NEW x \in new, NEW y \in Record \ new, rows'[x].id = rows'[y].id,
                 rows'[y].id # 0, x \in Record
          PROVE  FALSE
      <4>1. rows'[y].id = rows[y].id /\ rows[y].id < rows'[x].id
        BY <2>2, <2>4, <3>3
      <4>2. QED
        BY <2>3, <3>3, <4>1
    <3>4. QED
      BY <2>5, <3>1, <3>2, <3>3
  <2>6. nextId <= nextId'
    BY <1>2, NextIdGrows DEF IdsOK
  <2>7. ASSUME ~ReuseIds, NEW r \in Record PROVE rows'[r].id < nextId'
    <3>1. rows[r].id < nextId
      BY <1>2, <2>7 DEF IdsOK, IdsBelow
    <3>2. CASE r \in new
      BY <2>2, <2>7, <3>2
    <3>3. CASE rows'[r].id \in {0, rows[r].id}
      BY <2>3, <2>6, <3>1, <3>3
    <3>4. QED
      BY <2>4, <3>2, <3>3
  <2>8. QED
    BY <2>1, <2>5, <2>7 DEF IdsOK, IdsDistinct, IdsBelow
<1>3. QED
    BY <1>1, <1>2, PTL DEF Spec

-----------------------------------------------------------------------------
(* Ids that are remembered: read from the record's own row.                *)

LEMMA PlansRead ==
    ASSUME TypeOK, [Next]_vars, NEW s \in Syncer, NEW q \in Record
    PROVE  sync'[s].plan[q].id \in {0, sync[s].plan[q].id, rows[q].id}
<1>0. /\ sync \in [Syncer -> Sync] /\ \A t \in Syncer : sync[t] \in Sync
      /\ NoSync.plan[q].id = 0
    BY DEF TypeOK, NoSync, NoWrite
<1> DEFINE Goal == sync'[s].plan[q].id \in {0, sync[s].plan[q].id, rows[q].id}
<1>1. ASSUME sync'[s] = sync[s] \/ sync'[s].plan = sync[s].plan \/ sync'[s].plan = NoSync.plan
      PROVE  Goal
    BY <1>0, <1>1
<1>2. CASE Elsewhere \/ DeleteAccount \/ UNCHANGED vars
    BY <1>1, <1>2 DEF Elsewhere, AddedElsewhere, EditedElsewhere, RemovedElsewhere,
       ZoneAddedElsewhere, ZoneRemovedElsewhere, DeleteAccount, vars
<1>3. ASSUME NEW t \in Syncer, AddAccount(t) \/ BeginSync(t) PROVE Goal
  <2>1. PICK id : sync' = [sync EXCEPT ![t] = [NoSync EXCEPT !.at = "begin", !.acct = id]]
    BY <1>3, Zenon DEF AddAccount, BeginSync, Enter
  <2>2. [NoSync EXCEPT !.at = "begin", !.acct = id].plan = NoSync.plan
    BY DEF NoSync
  <2>3. QED
    BY <1>0, <1>1, <2>1, <2>2
<1>4. ASSUME NEW t \in Syncer, SyncStep(t), ~SyncReadRows(t) PROVE Goal
  <2>1. CASE SyncListZones(t)
    BY <1>0, <1>1, <2>1 DEF SyncListZones, Sync
  <2>2. CASE SyncReadZones(t)
    BY <1>0, <1>1, <2>2 DEF SyncReadZones, Sync
  <2>3. ASSUME NEW z \in Zone, SyncListPage(t, z) PROVE Goal
    <3>1. PICK at, page, listed, twice :
            sync' = [sync EXCEPT ![t].at = at, ![t].zone = z, ![t].page = page,
                                 ![t].listed = listed, ![t].twice = twice]
      BY <2>3, Zenon DEF SyncListPage
    <3>2. QED
      BY <1>0, <1>1, <3>1 DEF Sync
  <2>4. CASE SyncCommit(t) \/ SyncFails(t)
    BY <1>0, <1>1, <2>4 DEF SyncCommit, SyncFails, Leave
  <2>5. QED
    BY <1>4, <2>1, <2>2, <2>3, <2>4 DEF SyncStep
<1>5. ASSUME NEW t \in Syncer, SyncReadRows(t) PROVE Goal
  <2>1. CASE t # s
    BY <1>0, <1>1, <1>5, <2>1 DEF SyncReadRows
  <2>2. CASE t = s
    <3> DEFINE z == sync[s].zone
               known == z \in Zone /\ sync[s].known[z] # 0 /\ zoneRow[z] = sync[s].known[z]
    <3>1. sync'[s].plan[q] =
            IF ZoneOf[q] = z THEN WriteFor(IF known THEN rows[q] ELSE NoRow, sync[s].listed[q])
                             ELSE sync[s].plan[q]
      BY <1>0, <1>5, <2>2 DEF SyncReadRows, Sync
    <3> HIDE DEF known, z
    <3>2. \A row, c : WriteFor(row, c).id = row.id
      BY DEF WriteFor
    <3>3. QED
      BY <3>1, <3>2 DEF NoRow
  <2>3. QED
    BY <2>1, <2>2
<1>6. ASSUME NEW w \in Worker, RequestStart(w) \/ RequestStep(w) PROVE Goal
    BY <1>1, <1>6 DEF RequestStart, RequestStep, CreateStart, UpdateStart, DeleteStart,
       CreateRemote, CreateCommit, UpdateRemote, UpdateCommit, DeleteRemote, DeleteRefused,
       DeleteCommit, RequestFails
<1>7. QED
    BY <1>2, <1>3, <1>4, <1>5, <1>6 DEF Next

LEMMA RequestsRead ==
    ASSUME TypeOK, [Next]_vars, NEW w \in Worker, NEW q \in Record, NEW id,
           id # 0, RequestHolds(req'[w], q, id)
    PROVE  RequestHolds(req[w], q, id) \/ id = rows[q].id
<1>0. req \in [Worker -> Req] /\ NoReq.op = "idle"
    BY DEF TypeOK, NoReq
<1> DEFINE Goal == RequestHolds(req[w], q, id) \/ id = rows[q].id
<1>1. ASSUME req'[w] = req[w] PROVE Goal
    BY <1>1
<1>2. ASSUME req'[w].op \in {"idle", "create", "created"} PROVE Goal
    BY <1>2 DEF RequestHolds
<1>3. ASSUME NEW x \in Worker, x # w, NEW v, Ask(x, v) PROVE Goal
    BY <1>0, <1>1, <1>3 DEF Ask
<1>4. ASSUME NEW v, Ask(w, v) PROVE req'[w] = v
    BY <1>0, <1>4 DEF Ask
<1>5. CASE Elsewhere \/ DeleteAccount \/ UNCHANGED vars
    BY <1>1, <1>5 DEF Elsewhere, AddedElsewhere, EditedElsewhere, RemovedElsewhere,
       ZoneAddedElsewhere, ZoneRemovedElsewhere, DeleteAccount, vars
<1>6. ASSUME NEW s \in Syncer, AddAccount(s) \/ BeginSync(s) \/ SyncStep(s) PROVE Goal
    BY <1>1, <1>6 DEF AddAccount, BeginSync, SyncStep, SyncListZones, SyncReadZones,
       SyncListPage, SyncReadRows, SyncCommit, SyncFails
<1>7. ASSUME NEW x \in Worker, RequestStart(x) \/ RequestStep(x), x # w PROVE Goal
  <2>1. \E v : Ask(x, v)
    BY <1>7, Zenon DEF RequestStart, RequestStep, CreateStart, UpdateStart, DeleteStart,
       CreateRemote, CreateCommit, UpdateRemote, UpdateCommit, DeleteRemote, DeleteRefused,
       DeleteCommit, RequestFails
  <2>2. QED
    BY <1>3, <1>7, <2>1
<1>8. CASE RequestStart(w)
  <2>1. ASSUME NEW z \in Zone, NEW c \in Content, NEW k \in Comment, CreateStart(w, z, c, k)
        PROVE  Goal
    BY <1>2, <1>4, <2>1 DEF CreateStart
  <2>2. ASSUME NEW r \in Record, NEW c \in Content, NEW k \in Comment, UpdateStart(w, r, c, k)
        PROVE  Goal
    BY <1>4, <2>2 DEF UpdateStart, RequestHolds
  <2>3. ASSUME NEW R \in SUBSET Record, DeleteStart(w, R) PROVE Goal
    <3>1. /\ req'[w].op = "delete"
          /\ req'[w].ids = [r \in Record |-> IF r \in R THEN rows[r].id ELSE 0]
      <4> DEFINE v == [op |-> "delete", todo |-> R, gone |-> {},
                       ids |-> [r \in Record |-> IF r \in R THEN rows[r].id ELSE 0]]
      <4>1. Ask(w, v)
        BY <2>3 DEF DeleteStart
      <4> HIDE DEF v
      <4>2. req'[w] = v
        BY <1>4, <4>1
      <4>3. QED
        BY <4>2 DEF v
    <3>2. req'[w].ids[q] \in {0, rows[q].id}
      BY <3>1
    <3>3. QED
      BY <3>1, <3>2 DEF RequestHolds
  <2>4. QED
    BY <1>8, <2>1, <2>2, <2>3 DEF RequestStart
<1>9. CASE RequestStep(w)
  <2>1. ASSUME Ask(w, NoReq) PROVE Goal
    BY <1>0, <1>2, <1>4, <2>1
  <2>2. CASE CreateCommit(w) \/ UpdateCommit(w) \/ DeleteCommit(w) \/ RequestFails(w)
    BY <2>1, <2>2 DEF CreateCommit, UpdateCommit, DeleteCommit, RequestFails
  <2>3. ASSUME NEW r \in Record, NEW answered \in BOOLEAN, CreateRemote(w, r, answered)
        PROVE  Goal
    BY <1>2, <1>4, <2>1, <2>3 DEF CreateRemote
  <2>4. ASSUME NEW answered \in BOOLEAN, UpdateRemote(w, answered) PROVE Goal
    <3>1. CASE answered
      <4>1. req'[w] = [req[w] EXCEPT !.op = "updated"] /\ req[w].op = "update"
        BY <1>4, <2>4, <3>1 DEF UpdateRemote
      <4>2. req[w] \in UpdateReq
        BY <4>1, ReqType
      <4>3. QED
        BY <4>1, <4>2 DEF RequestHolds, UpdateReq
    <3>2. CASE ~answered
      BY <2>1, <2>4, <3>2 DEF UpdateRemote
    <3>3. QED
      BY <3>1, <3>2
  <2>5. ASSUME NEW r \in Record,
               DeleteRefused(w, r) \/ \E answered \in BOOLEAN : DeleteRemote(w, r, answered)
        PROVE  Goal
    <3>1. req[w] \in DeleteReq
      BY <2>5, ReqType DEF DeleteRemote, DeleteRefused
    <3>2. req'[w].op = "delete" /\ req'[w].ids = req[w].ids /\ req[w].op = "delete"
      BY <1>4, <2>5, <3>1 DEF DeleteRemote, DeleteRefused, DeleteReq
    <3>3. QED
      BY <3>2 DEF RequestHolds
  <2>6. QED
    BY <1>9, <2>2, <2>3, <2>4, <2>5 DEF RequestStep
<1>10. QED
    BY <1>5, <1>6, <1>7, <1>8, <1>9 DEF Next

\* What is remembered for a record was remembered before or is the id of its row.
LEMMA RememberedIsRead ==
    ASSUME TypeOK, [Next]_vars, NEW q \in Record, NEW id, Remembered(q, id)'
    PROVE  Remembered(q, id) \/ (id # 0 /\ id = rows[q].id)
<1>1. CASE \E s \in Syncer : sync'[s].plan[q].id = id
    BY <1>1, PlansRead DEF Remembered
<1>2. CASE \E w \in Worker : RequestHolds(req'[w], q, id)
    BY <1>2, RequestsRead DEF Remembered
<1>3. QED
    BY <1>1, <1>2 DEF Remembered, RequestHolds

\* A row is remembered only for its own record.
OnlyItsOwn == \A q, r \in Record : Remembered(q, rows[r].id) => q = r

LEMMA OnlyItsOwnStep ==
    ASSUME IdsOK, OnlyItsOwn, [Next]_vars, NotReassigned
    PROVE  OnlyItsOwn'
<1> SUFFICES ASSUME NEW q \in Record, NEW r \in Record, NEW id, id = rows'[r].id,
                    Remembered(q, id)'
             PROVE  q = r
    BY Zenon DEF OnlyItsOwn, Remembered
<1>1. id # 0 /\ (Remembered(q, id) \/ id = rows[q].id)
  <2>1. id # 0
    BY DEF Remembered
  <2>2. QED
    BY <2>1, RememberedIsRead DEF IdsOK
<1>2. CASE id = rows[r].id
    BY <1>1, <1>2 DEF OnlyItsOwn, IdsOK, IdsDistinct
<1>3. CASE id # rows[r].id
  <2>1. rows[q].id < id
    BY <1>1, <1>3, NewIds
  <2>2. rows[q].id # id
    BY <2>1, CachedRowType DEF IdsOK, TypeOK, Row, NoRow
  <2>3. QED
    BY <1>1, <1>3, <2>2 DEF NotReassigned
<1>4. QED
    BY <1>2, <1>3

\* The invariant holds as long as no id is reassigned.
LEMMA OnlyItsOwnInvariant == Spec /\ IdsNotReassigned => []OnlyItsOwn
<1>1. Init => OnlyItsOwn
  <2>1. ASSUME Init, NEW q \in Record, NEW id PROVE ~Remembered(q, id)
    BY <2>1 DEF Init, Remembered, RequestHolds, NoSync, NoWrite, NoReq
  <2>2. QED
    BY <2>1 DEF OnlyItsOwn
<1>2. IdsOK /\ OnlyItsOwn /\ [Next]_vars /\ [NotReassigned]_vars => OnlyItsOwn'
  <2>1. CASE UNCHANGED vars
    BY <2>1 DEF vars, OnlyItsOwn, Remembered
  <2>2. QED
    BY <2>1, OnlyItsOwnStep
<1>3. QED
  BY <1>1, <1>2, IdsInvariant, PTL DEF Spec, IdsNotReassigned

\* Where the ids of rows come from a sequence, none is reassigned.
RememberedBelow == \A q \in Record, id \in Nat : Remembered(q, id) => id < nextId

THEOREM SequenceIdsAreNotReassigned == ~ReuseIds => (Spec => IdsNotReassigned)
<1> SUFFICES ASSUME ~ReuseIds PROVE Spec => IdsNotReassigned
    OBVIOUS
<1>1. Init => RememberedBelow
    BY DEF Init, RememberedBelow, Remembered, RequestHolds, NoSync, NoWrite, NoReq
<1>2. ASSUME IdsOK, RememberedBelow, [Next]_vars PROVE RememberedBelow'
  <2>1. SUFFICES ASSUME NEW q \in Record, NEW id \in Nat, Remembered(q, id)'
                 PROVE  id < nextId'
    BY DEF RememberedBelow
  <2>2. Remembered(q, id) \/ id = rows[q].id
    BY <1>2, <2>1, RememberedIsRead DEF IdsOK
  <2>3. id < nextId
    BY <1>2, <2>2 DEF RememberedBelow, IdsOK, IdsBelow
  <2>4. nextId <= nextId' /\ nextId \in Nat /\ nextId' \in Nat
    BY <1>2, NextIdGrows, TypeStep DEF IdsOK, TypeOK
  <2>5. QED
    BY <2>3, <2>4
<1>3. ASSUME IdsOK, RememberedBelow, [Next]_vars PROVE NotReassigned
  <2>1. SUFFICES ASSUME NEW q \in Record, NEW r \in Record,
                        rows'[r].id \notin {0, rows[r].id}, Remembered(q, rows'[r].id)
                 PROVE  FALSE
    BY DEF NotReassigned
  <2>2. nextId <= rows'[r].id
    BY <1>3, <2>1, NewIds
  <2>3. rows'[r].id \in Nat /\ nextId \in Nat
    BY <1>3, TypeStep DEF IdsOK, TypeOK, Row, NoRow
  <2>4. rows'[r].id < nextId
    BY <1>3, <2>1, <2>3 DEF RememberedBelow
  <2>5. QED
    BY <2>2, <2>3, <2>4
<1>4. QED
    BY <1>1, <1>2, <1>3, IdsInvariant, PTL DEF Spec, IdsNotReassigned

-----------------------------------------------------------------------------
(* What a commit does to one row, when ids find only the row of their record. *)

LEMMA UpdateHits ==
    ASSUME TypeOK, OnlyItsOwn, NEW w \in Worker, UpdateCommit(w), NEW r \in Record
    PROVE  \/ rows'[r] = rows[r]
           \/ /\ r = req[w].rec /\ req[w] \in UpdateReq /\ rows[r] \in Row
              /\ rows'[r] = Edited(rows[r], req[w])
<1>1. req[w] \in UpdateReq /\ req[w].old.id # 0 /\ req[w].rec \in Record
    BY ReqType DEF UpdateCommit, UpdateReq, Row
<1>2. CASE rows[r].id = req[w].old.id
  <2>1. Remembered(req[w].rec, rows[r].id)
    BY <1>1, <1>2 DEF UpdateCommit, Remembered, RequestHolds
  <2>2. r = req[w].rec
    BY <1>1, <2>1 DEF OnlyItsOwn
  <2>3. rows[r] \in Row
    BY <1>1, <1>2, CachedRowType DEF Cached
  <2>4. QED
    BY <1>1, <1>2, <2>2, <2>3 DEF UpdateCommit
<1>3. CASE rows[r].id # req[w].old.id
    BY <1>3 DEF UpdateCommit
<1>4. QED
    BY <1>2, <1>3

LEMMA DeleteHits ==
    ASSUME TypeOK, OnlyItsOwn, NEW w \in Worker, DeleteCommit(w), NEW r \in Record
    PROVE  \/ rows'[r] = rows[r]
           \/ rows'[r] = NoRow /\ (r \in req[w].gone \/ r \notin Cached)
<1>1. req[w] \in DeleteReq /\ req[w].gone \subseteq Record
    BY ReqType DEF DeleteCommit, DeleteReq
<1>2. rows'[r] = IF \E q \in req[w].gone : req[w].ids[q] = rows[r].id THEN NoRow ELSE rows[r]
    BY DEF DeleteCommit
<1>3. ASSUME NEW q \in req[w].gone, req[w].ids[q] = rows[r].id, r \in Cached PROVE q = r
  <2>1. Remembered(q, rows[r].id)
    BY <1>3 DEF DeleteCommit, Remembered, RequestHolds, Cached
  <2>2. QED
    BY <1>1, <2>1 DEF OnlyItsOwn
<1>4. QED
    BY <1>2, <1>3

LEMMA SyncHits ==
    ASSUME TypeOK, OnlyItsOwn, NEW s \in Syncer, SyncCommit(s), NEW r \in Record
    PROVE  \/ rows'[r] = rows[r]
           \/ /\ rows'[r] = NoRow
              /\ \/ ZoneOf[r] \in StaleZones(s)
                 \/ sync[s].plan[r].kind = "delete"
                 \/ r \notin Cached
           \/ /\ r \notin Cached
              /\ sync[s].plan[r].kind = "insert"
              /\ rows'[r].content = sync[s].plan[r].content
           \/ /\ sync[s].plan[r].content # "none"
              /\ rows'[r].content = sync[s].plan[r].content
              /\ rows'[r].comment = rows[r].comment /\ rows'[r].id = rows[r].id
<1>1. PICK base \in FreeIds :
        rows' = [q \in Record |->
                   IF ZoneOf[q] \in StaleZones(s) THEN NoRow ELSE Written(s, base, q)]
    BY DEF SyncCommit
<1>2. CASE ZoneOf[r] \in StaleZones(s)
    BY <1>1, <1>2
<1>3. ASSUME NEW q \in Record, sync[s].plan[q].id = rows[r].id, rows[r].id # 0
      PROVE  q = r
    BY <1>3 DEF Remembered, OnlyItsOwn
<1>4. CASE ZoneOf[r] \notin StaleZones(s)
  <2>1. rows'[r] = Written(s, base, r)
    BY <1>1, <1>4
  <2>2. CASE r \in Inserted(s)
    <3>1. rows[r].id = 0
      BY <2>2 DEF SyncCommit, Applies
    <3>2. rows'[r].content = sync[s].plan[r].content
      BY <2>1, <2>2 DEF Written
    <3>3. QED
      BY <2>2, <3>1, <3>2 DEF Inserted, Cached
  <2>3. CASE r \notin Inserted(s) /\ PlannedFor(s, "delete", rows[r].id) # {}
    <3>1. PICK q \in Record : /\ sync[s].plan[q].kind = "delete"
                              /\ sync[s].plan[q].id = rows[r].id /\ rows[r].id # 0
      BY <2>3 DEF PlannedFor
    <3>2. sync[s].plan[r].kind = "delete"
      BY <1>3, <3>1
    <3>3. QED
      BY <2>1, <2>3, <3>2 DEF Written
  <2>4. CASE /\ r \notin Inserted(s) /\ PlannedFor(s, "delete", rows[r].id) = {}
             /\ Updates(s, rows[r].id) = {}
    BY <2>1, <2>4 DEF Written
  <2>5. CASE /\ r \notin Inserted(s) /\ PlannedFor(s, "delete", rows[r].id) = {}
             /\ Updates(s, rows[r].id) # {}
    <3>1. PICK q \in Updates(s, rows[r].id) : q = CHOOSE p \in Updates(s, rows[r].id) : TRUE
      BY <2>5
    <3>2. /\ q \in Record /\ sync[s].plan[q].kind = "update"
          /\ sync[s].plan[q].id = rows[r].id /\ rows[r].id # 0
          /\ sync[s].plan[q].content # "none"
      BY DEF Updates, PlannedFor
    <3>3. q = r /\ sync[s].plan[r].kind = "update" /\ rows[r].id # 0
      BY <1>3, <3>2
    <3>4. rows'[r] = [rows[r] EXCEPT !.content = sync[s].plan[q].content]
      BY <2>1, <2>5, <3>1 DEF Written
    <3>5. rows[r] \in Row
      BY <3>3, CachedRowType DEF Cached
    <3>6. /\ rows'[r].content = sync[s].plan[q].content
          /\ rows'[r].comment = rows[r].comment /\ rows'[r].id = rows[r].id
      BY <3>4, <3>5 DEF Row
    <3>7. QED
      BY <3>2, <3>3, <3>6
  <2>6. QED
    BY <2>2, <2>3, <2>4, <2>5
<1>5. QED
    BY <1>2, <1>4

-----------------------------------------------------------------------------
(* The theorems that follow at once: comments and deletions.               *)

\* As long as no id is reassigned, a comment is changed only by its record's update.
THEOREM CommentsChangeByUpdate ==
    Spec /\ IdsNotReassigned => CommentChangedOnlyByItsUpdate
<1> DEFINE Mine(r) == \E w \in Worker : /\ req[w].op = "updated" /\ req[w].rec = r
                                        /\ req[w].comment = rows'[r].comment /\ req'[w] = NoReq
<1>1. ASSUME TypeOK, OnlyItsOwn, [Next]_vars, NEW r \in Cached,
             rows'[r].id = rows[r].id, rows'[r].comment # rows[r].comment
      PROVE  Mine(r)
  <2>1. r \in Record /\ rows[r] \in Row /\ rows'[r] # rows[r] /\ rows[r].id # 0
    BY <1>1, CachedRowType DEF Cached
  <2>2. rows'[r] # NoRow
    BY <1>1, <2>1 DEF NoRow
  <2>3. ~DeleteAccount /\ ~UNCHANGED rows
    BY <2>1, <2>2 DEF DeleteAccount
  <2>4. ASSUME NEW s \in Syncer, SyncCommit(s) PROVE FALSE
    <3>1. \/ rows'[r] \in {rows[r], NoRow} \/ r \notin Cached
          \/ rows'[r].comment = rows[r].comment
      BY <1>1, <2>1, <2>4, SyncHits
    <3>2. QED
      BY <1>1, <2>1, <2>2, <3>1
  <2>5. ASSUME NEW w \in Worker, DeleteCommit(w) PROVE FALSE
    BY <1>1, <2>1, <2>2, <2>5, DeleteHits
  <2>6. ASSUME NEW w \in Worker, CreateCommit(w) PROVE FALSE
    BY <1>1, <2>1, <2>6 DEF CreateCommit, TypeOK
  <2>7. ASSUME NEW w \in Worker, UpdateCommit(w) PROVE Mine(r)
    <3>1. /\ r = req[w].rec /\ req[w] \in UpdateReq
          /\ rows'[r] = Edited(rows[r], req[w])
      BY <1>1, <2>1, <2>7, UpdateHits
    <3>2. rows'[r].comment = req[w].comment
      BY <1>1, <2>1, <3>1 DEF Edited, Row
    <3>3. req'[w] = NoReq /\ req[w].op = "updated"
      BY <1>1, <2>7 DEF UpdateCommit, Ask, TypeOK
    <3>4. QED
      BY <3>1, <3>2, <3>3
  <2>8. QED
    BY <1>1, <2>3, <2>4, <2>5, <2>6, <2>7, RowsStep
<1>2. ASSUME TypeOK, OnlyItsOwn, [Next]_vars
      PROVE  \A r \in Cached : rows'[r].id = rows[r].id /\ rows'[r].comment # rows[r].comment
                                => Mine(r)
    BY <1>1, <1>2
<1>3. QED
    BY <1>2, TypeCorrect, OnlyItsOwnInvariant, PTL DEF Spec, CommentChangedOnlyByItsUpdate

\* What a request counts as deleted is gone from Cloudflare, where nothing returns.
CountsOnlyGone ==
    \A w \in Worker : req[w].op = "delete" => \A r \in req[w].gone : cf[r] = "gone"

LEMMA GoneStaysGone ==
    ASSUME TypeOK, [Next]_vars, NEW r \in Record, cf[r] = "gone"
    PROVE  cf'[r] = "gone"
<1>0. cf \in [Record -> Content \cup {"unborn", "gone"}] /\ "gone" \notin Content
    BY DEF TypeOK
<1>1. ASSUME NEW q \in Record, NEW c, Accept(q, c), cf[q] # "gone" PROVE cf'[r] = "gone"
    BY <1>0, <1>1 DEF Accept
<1>2. ASSUME NEW R, NEW Z, Forget(R, Z) PROVE cf'[r] = "gone"
    BY <1>2 DEF Forget
<1>3. CASE Elsewhere
  <2>1. ASSUME NEW q \in Record, NEW c \in Content, AddedElsewhere(q, c) \/ EditedElsewhere(q, c)
        PROVE  cf'[r] = "gone"
    BY <1>0, <1>1, <2>1 DEF AddedElsewhere, EditedElsewhere, Present
  <2>2. ASSUME NEW q \in Record, RemovedElsewhere(q) PROVE cf'[r] = "gone"
    BY <1>2, <2>2 DEF RemovedElsewhere
  <2>3. ASSUME NEW z \in Zone, ZoneAddedElsewhere(z) \/ ZoneRemovedElsewhere(z)
        PROVE  cf'[r] = "gone"
    BY <1>2, <2>3 DEF ZoneAddedElsewhere, ZoneRemovedElsewhere
  <2>4. QED
    BY <1>3, <2>1, <2>2, <2>3 DEF Elsewhere
<1>4. CASE DeleteAccount \/ UNCHANGED vars
    BY <1>4 DEF DeleteAccount, vars, cloudflare
<1>5. ASSUME NEW s \in Syncer, AddAccount(s) \/ BeginSync(s) \/ SyncStep(s)
      PROVE  cf'[r] = "gone"
    BY <1>5 DEF AddAccount, BeginSync, SyncStep, SyncListZones, SyncReadZones, SyncListPage,
       SyncReadRows, SyncCommit, SyncFails, cloudflare
<1>6. ASSUME NEW w \in Worker, RequestStart(w) PROVE cf'[r] = "gone"
    BY <1>6 DEF RequestStart, CreateStart, UpdateStart, DeleteStart, cloudflare
<1>7. ASSUME NEW w \in Worker, RequestStep(w) PROVE cf'[r] = "gone"
  <2>1. ASSUME NEW q \in Record, NEW answered \in BOOLEAN, CreateRemote(w, q, answered)
        PROVE  cf'[r] = "gone"
    BY <1>1, <2>1 DEF CreateRemote
  <2>2. ASSUME NEW answered \in BOOLEAN, UpdateRemote(w, answered) PROVE cf'[r] = "gone"
    BY <1>0, <1>1, <2>2 DEF UpdateRemote, Present
  <2>3. ASSUME NEW q \in Record, NEW answered \in BOOLEAN, DeleteRemote(w, q, answered)
        PROVE  cf'[r] = "gone"
    BY <1>2, <2>3 DEF DeleteRemote
  <2>4. CASE CreateCommit(w) \/ UpdateCommit(w) \/ DeleteCommit(w) \/ RequestFails(w)
               \/ \E q \in Record : DeleteRefused(w, q)
    BY <2>4 DEF CreateCommit, UpdateCommit, DeleteCommit, RequestFails, DeleteRefused, cloudflare
  <2>5. QED
    BY <1>7, <2>1, <2>2, <2>3, <2>4, Zenon DEF RequestStep
<1>8. QED
    BY <1>3, <1>4, <1>5, <1>6, <1>7 DEF Next

LEMMA CountsOnlyGoneStep ==
    ASSUME TypeOK, CountsOnlyGone, [Next]_vars
    PROVE  CountsOnlyGone'
<1> SUFFICES ASSUME NEW w \in Worker, req'[w].op = "delete", NEW r \in req'[w].gone
             PROVE  cf'[r] = "gone"
    BY DEF CountsOnlyGone
<1>0. req \in [Worker -> Req] /\ req' \in [Worker -> Req] /\ TypeOK'
    BY TypeStep DEF TypeOK
<1>1. r \in Record
  <2>1. req'[w] \in Req
    BY <1>0
  <2>2. QED
    BY <2>1 DEF Req, NoReq, CreateReq, CreatedReq, UpdateReq, DeleteReq
<1>2. CASE req[w].op = "delete" /\ r \in req[w].gone
    BY <1>1, <1>2, GoneStaysGone DEF CountsOnlyGone
<1>3. ASSUME NEW q \in Record, NEW answered \in BOOLEAN, DeleteRemote(w, q, answered)
      PROVE  cf'[r] = "gone"
  <2>1. req[w] \in DeleteReq /\ req[w].op = "delete" /\ Forget({q}, {})
    BY <1>3, ReqType DEF DeleteRemote
  <2>2. req'[w].gone \subseteq req[w].gone \cup {q}
    BY <1>0, <1>3, <2>1 DEF DeleteRemote, Ask, DeleteReq
  <2>3. CASE r = q
    BY <1>1, <2>1, <2>3 DEF Forget
  <2>4. QED
    BY <1>2, <2>1, <2>2, <2>3
<1>4. ASSUME NEW q \in Record, DeleteRefused(w, q) PROVE cf'[r] = "gone"
  <2>1. req[w] \in DeleteReq /\ req[w].op = "delete"
    BY <1>4, ReqType DEF DeleteRefused
  <2>2. req'[w].gone = req[w].gone
    BY <1>0, <1>4, <2>1 DEF DeleteRefused, Ask, DeleteReq
  <2>3. QED
    BY <1>2, <2>1, <2>2
<1>5. ASSUME req'[w] = req[w] PROVE cf'[r] = "gone"
    BY <1>2, <1>5
<1>6. ASSUME NEW x \in Worker, NEW v, Ask(x, v), x = w => v.op # "delete" \/ v.gone = {}
      PROVE  cf'[r] = "gone"
    BY <1>0, <1>5, <1>6 DEF Ask
<1>7. CASE Elsewhere \/ DeleteAccount \/ UNCHANGED vars
    BY <1>5, <1>7 DEF Elsewhere, AddedElsewhere, EditedElsewhere, RemovedElsewhere,
       ZoneAddedElsewhere, ZoneRemovedElsewhere, DeleteAccount, vars
<1>8. ASSUME NEW s \in Syncer, AddAccount(s) \/ BeginSync(s) \/ SyncStep(s)
      PROVE  cf'[r] = "gone"
    BY <1>5, <1>8 DEF AddAccount, BeginSync, SyncStep, SyncListZones, SyncReadZones,
       SyncListPage, SyncReadRows, SyncCommit, SyncFails
<1>9. ASSUME NEW x \in Worker, RequestStart(x) \/ RequestStep(x), x # w PROVE cf'[r] = "gone"
  <2>1. \E v : Ask(x, v)
    BY <1>9, Zenon DEF RequestStart, RequestStep, CreateStart, UpdateStart, DeleteStart,
       CreateRemote, CreateCommit, UpdateRemote, UpdateCommit, DeleteRemote, DeleteRefused,
       DeleteCommit, RequestFails
  <2>2. QED
    BY <1>6, <1>9, <2>1
<1>10. CASE RequestStart(w)
  <2>1. ASSUME NEW R \in SUBSET Record, DeleteStart(w, R) PROVE req'[w].gone = {}
    BY <1>0, <2>1 DEF DeleteStart, Ask
  <2>2. ASSUME NEW z \in Zone, NEW c \in Content, NEW k \in Comment, CreateStart(w, z, c, k)
        PROVE  req'[w].op = "create"
    BY <1>0, <2>2 DEF CreateStart, Ask
  <2>3. ASSUME NEW q \in Record, NEW c \in Content, NEW k \in Comment, UpdateStart(w, q, c, k)
        PROVE  req'[w].op = "update"
    BY <1>0, <2>3 DEF UpdateStart, Ask
  <2>4. QED
    BY <1>10, <2>1, <2>2, <2>3 DEF RequestStart
<1>11. CASE RequestStep(w)
  <2>1. ASSUME Ask(w, NoReq) PROVE FALSE
    BY <1>0, <2>1 DEF Ask, NoReq
  <2>2. ASSUME NEW q \in Record, NEW answered \in BOOLEAN, CreateRemote(w, q, answered)
        PROVE  FALSE
    BY <1>0, <2>1, <2>2 DEF CreateRemote, Ask
  <2>3. ASSUME NEW answered \in BOOLEAN, UpdateRemote(w, answered) PROVE FALSE
    <3>1. req[w] \in UpdateReq /\ Ask(w, IF answered THEN [req[w] EXCEPT !.op = "updated"]
                                                     ELSE NoReq)
      BY <2>3, ReqType DEF UpdateRemote
    <3>2. [req[w] EXCEPT !.op = "updated"].op = "updated"
      BY <3>1 DEF UpdateReq
    <3>3. QED
      BY <1>0, <2>1, <3>1, <3>2 DEF Ask
  <2>4. QED
    BY <1>3, <1>4, <1>11, <2>1, <2>2, <2>3
       DEF RequestStep, CreateCommit, UpdateCommit, DeleteCommit, RequestFails
<1>12. QED
    BY <1>7, <1>8, <1>9, <1>10, <1>11 DEF Next

\* As long as no id is reassigned, a deletion removes no row whose record Cloudflare
\* still has, whatever answers it lost.
THEOREM DeletionsFollowCloudflare == Spec /\ IdsNotReassigned => DeletesOnlyGone
<1>1. Init => CountsOnlyGone
    BY DEF Init, CountsOnlyGone, NoReq
<1>2. TypeOK /\ CountsOnlyGone /\ [Next]_vars => CountsOnlyGone'
    BY CountsOnlyGoneStep
<1>3. ASSUME TypeOK, OnlyItsOwn, CountsOnlyGone, NEW w \in Worker, NEW r \in Cached,
             DeleteCommit(w)
      PROVE  rows'[r].id # 0 \/ cf[r] = "gone"
  <2>1. r \in Record /\ rows[r].id # 0 /\ req[w].op = "delete"
    BY <1>3 DEF Cached, DeleteCommit
  <2>2. QED
    BY <1>3, <2>1, DeleteHits DEF CountsOnlyGone
<1>4. TypeOK /\ OnlyItsOwn /\ CountsOnlyGone =>
        \A w \in Worker, r \in Cached : DeleteCommit(w) => rows'[r].id # 0 \/ cf[r] = "gone"
    BY <1>3
<1>5. QED
    BY <1>1, <1>2, <1>4, TypeCorrect, OnlyItsOwnInvariant, PTL DEF Spec, DeletesOnlyGone

-----------------------------------------------------------------------------
(* What the cache shows: a value travels from Cloudflare through a listing *)
(* or a request to a row, and was accepted from the start.                 *)

\* What a session has listed and will write, and what a request has had answered.
SessionAccepted(v, h) ==
    \A r \in Record : /\ v.listed[r] \in h[r] \cup {"none"}
                      /\ v.plan[r].content \in h[r] \cup {"none"}
RequestAccepted(u, h) == u.op \in {"created", "updated"} => u.content \in h[u.rec]

PresentAccepted == \A r \in Present : cf[r] \in held[r]
SessionsAccepted == \A s \in Syncer : SessionAccepted(sync[s], held)
RequestsAccepted == \A w \in Worker : RequestAccepted(req[w], held)

Accepted ==
    /\ CachedContentWasAccepted
    /\ PresentAccepted /\ SessionsAccepted /\ RequestsAccepted

\* What a step does at Cloudflare.
LEMMA CloudflareStep ==
    ASSUME [Next]_vars
    PROVE  \/ UNCHANGED <<cf, held>>
           \/ \E R, Z : Forget(R, Z)
           \/ \E r \in Record, c \in Content : Accept(r, c)
           \/ \E w \in Worker, r \in Record, answered \in BOOLEAN : CreateRemote(w, r, answered)
           \/ \E w \in Worker, answered \in BOOLEAN : UpdateRemote(w, answered)
<1>1. CASE Elsewhere
    BY <1>1, Zenon DEF Elsewhere, AddedElsewhere, EditedElsewhere, RemovedElsewhere,
       ZoneAddedElsewhere, ZoneRemovedElsewhere
<1>2. CASE DeleteAccount \/ UNCHANGED vars
    BY <1>2 DEF DeleteAccount, vars, cloudflare
<1>3. ASSUME NEW s \in Syncer, AddAccount(s) \/ BeginSync(s) \/ SyncStep(s)
      PROVE  UNCHANGED <<cf, held>>
    BY <1>3 DEF AddAccount, BeginSync, SyncStep, SyncListZones, SyncReadZones, SyncListPage,
       SyncReadRows, SyncCommit, SyncFails, cloudflare
<1>4. ASSUME NEW w \in Worker, RequestStart(w) PROVE UNCHANGED <<cf, held>>
    BY <1>4 DEF RequestStart, CreateStart, UpdateStart, DeleteStart, cloudflare
<1>5. ASSUME NEW w \in Worker, RequestStep(w),
             ~\E r \in Record, answered \in BOOLEAN : CreateRemote(w, r, answered),
             ~\E answered \in BOOLEAN : UpdateRemote(w, answered)
      PROVE  UNCHANGED <<cf, held>> \/ \E R, Z : Forget(R, Z)
  <2>1. ASSUME NEW r \in Record, NEW answered \in BOOLEAN, DeleteRemote(w, r, answered)
        PROVE  \E R, Z : Forget(R, Z)
    BY <2>1, Zenon DEF DeleteRemote
  <2>2. CASE CreateCommit(w) \/ UpdateCommit(w) \/ DeleteCommit(w) \/ RequestFails(w)
               \/ \E r \in Record : DeleteRefused(w, r)
    BY <2>2 DEF CreateCommit, UpdateCommit, DeleteCommit, RequestFails, DeleteRefused, cloudflare
  <2>3. QED
    BY <1>5, <2>1, <2>2, Zenon DEF RequestStep
<1>6. QED
    BY <1>1, <1>2, <1>3, <1>4, <1>5, Zenon DEF Next

LEMMA RemoteAccepts ==
    ASSUME TypeOK, NEW w \in Worker,
           \/ \E r \in Record, answered \in BOOLEAN : CreateRemote(w, r, answered)
           \/ \E answered \in BOOLEAN : UpdateRemote(w, answered)
    PROVE  \E r \in Record, c \in Content : Accept(r, c)
<1>1. ASSUME NEW r \in Record, NEW answered \in BOOLEAN, CreateRemote(w, r, answered)
      PROVE  req[w].content \in Content /\ Accept(r, req[w].content)
    BY <1>1, ReqType DEF CreateRemote, CreateReq
<1>2. ASSUME NEW answered \in BOOLEAN, UpdateRemote(w, answered)
      PROVE  /\ req[w].rec \in Record /\ req[w].content \in Content
             /\ Accept(req[w].rec, req[w].content)
    BY <1>2, ReqType DEF UpdateRemote, UpdateReq
<1>3. QED
    BY <1>1, <1>2, Zenon

\* Cloudflare never forgets what it has held, and holds what it has.
LEMMA HeldGrows ==
    ASSUME TypeOK, PresentAccepted, [Next]_vars
    PROVE  /\ \A r \in Record : held[r] \subseteq held'[r]
           /\ PresentAccepted'
<1>0. /\ cf \in [Record -> Content \cup {"unborn", "gone"}] /\ "gone" \notin Content
      /\ held \in [Record -> SUBSET Content]
    BY DEF TypeOK
<1>1. CASE UNCHANGED <<cf, held>>
    BY <1>1 DEF PresentAccepted, Present
<1>2. ASSUME NEW R, NEW Z, Forget(R, Z) PROVE UNCHANGED held /\ PresentAccepted'
    BY <1>0, <1>2 DEF PresentAccepted, Present, Forget
<1>3. ASSUME NEW r \in Record, NEW c \in Content, Accept(r, c)
      PROVE  (\A q \in Record : held[q] \subseteq held'[q]) /\ PresentAccepted'
    BY <1>0, <1>3 DEF PresentAccepted, Present, Accept
<1>4. QED
    BY <1>1, <1>2, <1>3, CloudflareStep, RemoteAccepts

LEMMA SessionsAcceptedStep ==
    ASSUME TypeOK, Accepted, [Next]_vars
    PROVE  SessionsAccepted'
<1>0. /\ \A r \in Record : held[r] \subseteq held'[r]
      /\ sync \in [Syncer -> Sync]
      /\ \A s \in Syncer : SessionAccepted(sync[s], held)
      /\ \A s \in Syncer : sync[s] \in Sync
    BY HeldGrows DEF Accepted, SessionsAccepted, TypeOK
<1>1. ASSUME NEW v, SessionAccepted(v, held) PROVE SessionAccepted(v, held')
    BY <1>0, <1>1 DEF SessionAccepted
<1>2. ASSUME UNCHANGED sync PROVE SessionsAccepted'
    BY <1>0, <1>1, <1>2 DEF SessionsAccepted
<1>3. ASSUME NEW s \in Syncer, NEW v, sync' = [sync EXCEPT ![s] = v], SessionAccepted(v, held)
      PROVE  SessionsAccepted'
    BY <1>0, <1>1, <1>3 DEF SessionsAccepted
<1>4. CASE Elsewhere \/ DeleteAccount \/ UNCHANGED vars
    BY <1>2, <1>4 DEF Elsewhere, AddedElsewhere, EditedElsewhere, RemovedElsewhere,
       ZoneAddedElsewhere, ZoneRemovedElsewhere, DeleteAccount, vars
<1>5. ASSUME NEW w \in Worker, RequestStart(w) \/ RequestStep(w) PROVE SessionsAccepted'
    BY <1>2, <1>5 DEF RequestStart, RequestStep, CreateStart, UpdateStart, DeleteStart,
       CreateRemote, CreateCommit, UpdateRemote, UpdateCommit, DeleteRemote, DeleteRefused,
       DeleteCommit, RequestFails
<1>6. ASSUME NEW v, v.listed = NoSync.listed, v.plan = NoSync.plan
      PROVE  SessionAccepted(v, held)
    BY <1>6 DEF SessionAccepted, NoSync, NoWrite
<1>7. ASSUME NEW s \in Syncer, NEW v,
             v.listed = sync[s].listed, v.plan = sync[s].plan
      PROVE  SessionAccepted(v, held)
    BY <1>0, <1>7 DEF SessionAccepted
<1>8. ASSUME NEW s \in Syncer, AddAccount(s) \/ BeginSync(s) PROVE SessionsAccepted'
  <2>1. PICK id : sync' = [sync EXCEPT ![s] = [NoSync EXCEPT !.at = "begin", !.acct = id]]
    BY <1>8, Zenon DEF AddAccount, BeginSync, Enter
  <2> DEFINE v == [NoSync EXCEPT !.at = "begin", !.acct = id]
  <2>2. v.listed = NoSync.listed /\ v.plan = NoSync.plan
    BY DEF NoSync
  <2> HIDE DEF v
  <2>3. QED
    BY <1>3, <1>6, <2>1, <2>2 DEF v
<1>9. ASSUME NEW s \in Syncer, SyncCommit(s) \/ SyncFails(s) PROVE SessionsAccepted'
    BY <1>3, <1>6, <1>9 DEF SyncCommit, SyncFails, Leave
<1>10. ASSUME NEW s \in Syncer, SyncListZones(s) PROVE SessionsAccepted'
  <2>1. PICK at, seen, again, page :
          sync' = [sync EXCEPT ![s].at = at, ![s].seen = seen, ![s].again = again,
                               ![s].page = page]
    BY <1>10, Zenon DEF SyncListZones
  <2> DEFINE v == [sync[s] EXCEPT !.at = at, !.seen = seen, !.again = again, !.page = page]
  <2>2. v.listed = sync[s].listed /\ v.plan = sync[s].plan /\ sync' = [sync EXCEPT ![s] = v]
    BY <1>0, <2>1 DEF Sync
  <2> HIDE DEF v
  <2>3. QED
    BY <1>3, <1>7, <2>2
<1>11. ASSUME NEW s \in Syncer, SyncReadZones(s) PROVE SessionsAccepted'
  <2>1. PICK at, known, todo :
          sync' = [sync EXCEPT ![s].at = at, ![s].known = known, ![s].todo = todo]
    BY <1>11, Zenon DEF SyncReadZones
  <2> DEFINE v == [sync[s] EXCEPT !.at = at, !.known = known, !.todo = todo]
  <2>2. v.listed = sync[s].listed /\ v.plan = sync[s].plan /\ sync' = [sync EXCEPT ![s] = v]
    BY <1>0, <2>1 DEF Sync
  <2> HIDE DEF v
  <2>3. QED
    BY <1>3, <1>7, <2>2
<1>12. ASSUME NEW s \in Syncer, NEW z \in Zone, SyncListPage(s, z) PROVE SessionsAccepted'
  <2> DEFINE listed == [r \in Record |-> IF r \in Page(InZone(z), sync[s].page) THEN cf[r]
                                         ELSE sync[s].listed[r]]
  <2>1. PICK at, page, twice :
          sync' = [sync EXCEPT ![s].at = at, ![s].zone = z, ![s].page = page,
                               ![s].listed = listed, ![s].twice = twice]
    BY <1>12, Zenon DEF SyncListPage
  <2>2. \A r \in Record : listed[r] \in held[r] \cup {"none"}
    BY <1>0 DEF Page, InZone, SessionAccepted, Accepted, PresentAccepted
  <2> HIDE DEF listed
  <2> DEFINE v == [sync[s] EXCEPT !.at = at, !.zone = z, !.page = page, !.listed = listed,
                                  !.twice = twice]
  <2>3. v.listed = listed /\ v.plan = sync[s].plan /\ sync' = [sync EXCEPT ![s] = v]
    BY <1>0, <2>1 DEF Sync
  <2> HIDE DEF v
  <2>4. SessionAccepted(v, held)
    BY <1>0, <2>2, <2>3 DEF SessionAccepted
  <2>5. QED
    BY <1>3, <2>3, <2>4
<1>13. ASSUME NEW s \in Syncer, SyncReadRows(s) PROVE SessionsAccepted'
  <2> DEFINE z == sync[s].zone
             known == z \in Zone /\ sync[s].known[z] # 0 /\ zoneRow[z] = sync[s].known[z]
             plan == [r \in Record |->
                        IF ZoneOf[r] = z
                        THEN WriteFor(IF known THEN rows[r] ELSE NoRow, sync[s].listed[r])
                        ELSE sync[s].plan[r]]
             none == [r \in Record |-> "none"]
  <2>1. PICK at, todo, zone :
          sync' = [sync EXCEPT ![s].at = at, ![s].todo = todo, ![s].zone = zone,
                               ![s].listed = none, ![s].plan = plan]
    BY <1>13, Zenon DEF SyncReadRows
  <2>2. \A row, c : WriteFor(row, c).content \in {c, "none"}
    BY DEF WriteFor
  <2>3. \A r \in Record : plan[r].content \in held[r] \cup {"none"}
    <3> HIDE DEF known, z
    <3>1. QED
      BY <1>0, <2>2 DEF SessionAccepted
  <2>4. \A r \in Record : none[r] = "none"
    OBVIOUS
  <2> HIDE DEF plan, none
  <2> DEFINE v == [sync[s] EXCEPT !.at = at, !.todo = todo, !.zone = zone, !.listed = none,
                                  !.plan = plan]
  <2>5. v.listed = none /\ v.plan = plan /\ sync' = [sync EXCEPT ![s] = v]
    BY <1>0, <2>1 DEF Sync
  <2> HIDE DEF v
  <2>6. SessionAccepted(v, held)
    BY <2>3, <2>4, <2>5 DEF SessionAccepted
  <2>7. QED
    BY <1>3, <2>5, <2>6
<1>14. QED
    BY <1>4, <1>5, <1>8, <1>9, <1>10, <1>11, <1>12, <1>13 DEF Next, SyncStep

\* Only Cloudflare's answer turns a request into one that may write its value.
LEMMA RequestsAcceptedStep ==
    ASSUME TypeOK, Accepted, [Next]_vars
    PROVE  RequestsAccepted'
<1> SUFFICES ASSUME NEW w \in Worker PROVE RequestAccepted(req'[w], held')
    BY DEF RequestsAccepted
<1> DEFINE Goal == RequestAccepted(req'[w], held')
<1>0. /\ \A r \in Record : held[r] \subseteq held'[r]
      /\ req \in [Worker -> Req]
      /\ RequestAccepted(req[w], held)
    BY HeldGrows DEF Accepted, RequestsAccepted, TypeOK
<1>1. ASSUME req'[w] = req[w] PROVE Goal
  <2>1. req[w].op \in {"created", "updated"} => req[w].rec \in Record
    BY ReqType DEF CreatedReq, UpdateReq
  <2>2. QED
    BY <1>0, <1>1, <2>1 DEF RequestAccepted
<1>2. ASSUME req'[w].op \notin {"created", "updated"} PROVE Goal
    BY <1>2 DEF RequestAccepted
<1>3. ASSUME NEW x \in Worker, x # w, NEW v, Ask(x, v) PROVE Goal
    BY <1>0, <1>1, <1>3 DEF Ask
<1>4. ASSUME NEW v, Ask(w, v) PROVE req'[w] = v
    BY <1>0, <1>4 DEF Ask
<1>5. CASE Elsewhere \/ DeleteAccount \/ UNCHANGED vars
    BY <1>1, <1>5 DEF Elsewhere, AddedElsewhere, EditedElsewhere, RemovedElsewhere,
       ZoneAddedElsewhere, ZoneRemovedElsewhere, DeleteAccount, vars
<1>6. ASSUME NEW s \in Syncer, AddAccount(s) \/ BeginSync(s) \/ SyncStep(s) PROVE Goal
    BY <1>1, <1>6 DEF AddAccount, BeginSync, SyncStep, SyncListZones, SyncReadZones,
       SyncListPage, SyncReadRows, SyncCommit, SyncFails
<1>7. ASSUME NEW x \in Worker, RequestStart(x) \/ RequestStep(x), x # w PROVE Goal
  <2>1. \E v : Ask(x, v)
    BY <1>7, Zenon DEF RequestStart, RequestStep, CreateStart, UpdateStart, DeleteStart,
       CreateRemote, CreateCommit, UpdateRemote, UpdateCommit, DeleteRemote, DeleteRefused,
       DeleteCommit, RequestFails
  <2>2. QED
    BY <1>3, <1>7, <2>1
<1>8. CASE RequestStart(w)
  <2>1. \E v : Ask(w, v) /\ v.op \in {"create", "update", "delete"}
    <3>1. ASSUME NEW R \in SUBSET Record, DeleteStart(w, R)
          PROVE  \E v : Ask(w, v) /\ v.op = "delete"
      BY <3>1 DEF DeleteStart
    <3>2. ASSUME NEW z \in Zone, NEW c \in Content, NEW k \in Comment, CreateStart(w, z, c, k)
          PROVE  \E v : Ask(w, v) /\ v.op = "create"
      BY <3>2 DEF CreateStart
    <3>3. ASSUME NEW q \in Record, NEW c \in Content, NEW k \in Comment, UpdateStart(w, q, c, k)
          PROVE  \E v : Ask(w, v) /\ v.op = "update"
      BY <3>3 DEF UpdateStart
    <3>4. QED
      BY <1>8, <3>1, <3>2, <3>3 DEF RequestStart
  <2>2. QED
    BY <1>2, <1>4, <2>1
<1>9. CASE RequestStep(w)
  <2>1. ASSUME Ask(w, NoReq) PROVE Goal
    BY <1>2, <1>4, <2>1 DEF NoReq
  <2>2. CASE CreateCommit(w) \/ UpdateCommit(w) \/ DeleteCommit(w) \/ RequestFails(w)
    BY <2>1, <2>2 DEF CreateCommit, UpdateCommit, DeleteCommit, RequestFails
  <2>3. ASSUME NEW r \in Record, NEW answered \in BOOLEAN, CreateRemote(w, r, answered)
        PROVE  Goal
    <3>1. CASE answered
      <4>1. req'[w].rec = r /\ req'[w].content = req[w].content
        BY <1>4, <2>3, <3>1 DEF CreateRemote
      <4>2. req[w].content \in held'[r]
        BY <2>3 DEF CreateRemote, Accept, TypeOK
      <4>3. QED
        BY <4>1, <4>2 DEF RequestAccepted
    <3>2. QED
      BY <2>1, <2>3, <3>1 DEF CreateRemote
  <2>4. ASSUME NEW answered \in BOOLEAN, UpdateRemote(w, answered) PROVE Goal
    <3>1. CASE answered
      <4>1. req[w] \in UpdateReq
        BY <2>4, ReqType DEF UpdateRemote
      <4>2. req'[w] = [req[w] EXCEPT !.op = "updated"]
        BY <1>4, <2>4, <3>1 DEF UpdateRemote
      <4>3. req'[w].rec = req[w].rec /\ req'[w].content = req[w].content
        BY <4>1, <4>2 DEF UpdateReq
      <4>4. req[w].content \in held'[req[w].rec]
        BY <2>4, <4>1 DEF UpdateRemote, Accept, TypeOK, UpdateReq
      <4>5. QED
        BY <4>3, <4>4 DEF RequestAccepted
    <3>2. QED
      BY <2>1, <2>4, <3>1 DEF UpdateRemote
  <2>5. ASSUME NEW r \in Record,
               DeleteRefused(w, r) \/ \E answered \in BOOLEAN : DeleteRemote(w, r, answered)
        PROVE  Goal
    <3>1. req[w] \in DeleteReq
      BY <2>5, ReqType DEF DeleteRemote, DeleteRefused
    <3>2. req'[w].op = "delete"
      BY <1>4, <2>5, <3>1 DEF DeleteRemote, DeleteRefused, DeleteReq
    <3>3. QED
      BY <1>2, <3>2
  <2>6. QED
    BY <1>9, <2>2, <2>3, <2>4, <2>5 DEF RequestStep
<1>10. QED
    BY <1>5, <1>6, <1>7, <1>8, <1>9 DEF Next

LEMMA CachedAcceptedStep ==
    ASSUME TypeOK, OnlyItsOwn, Accepted, [Next]_vars
    PROVE  CachedContentWasAccepted'
<1> SUFFICES ASSUME NEW r \in Record, rows'[r].id # 0
             PROVE  rows'[r].content \in held'[r]
    BY DEF CachedContentWasAccepted, Cached
<1>0. held[r] \subseteq held'[r]
    BY HeldGrows DEF Accepted
<1>1. ASSUME rows'[r] = rows[r] PROVE rows'[r].content \in held'[r]
    BY <1>0, <1>1 DEF Accepted, CachedContentWasAccepted, Cached
<1>2. rows'[r] # NoRow
    BY DEF NoRow
<1>3. ~DeleteAccount
    BY <1>2 DEF DeleteAccount
<1>4. ASSUME NEW s \in Syncer, SyncCommit(s) PROVE rows'[r].content \in held'[r]
  <2>1. sync[s].plan[r].content \in held[r] \cup {"none"}
    BY DEF Accepted, SessionsAccepted, SessionAccepted
  <2>2. CASE sync[s].plan[r].kind = "insert" /\ rows'[r].content = sync[s].plan[r].content
    <3>1. sync[s].plan[r] \in Write
      <4>1. sync[s] \in Sync
        BY DEF TypeOK
      <4>2. QED
        BY <4>1 DEF Sync
    <3>2. sync[s].plan[r].content \in Content
      BY <2>2, <3>1 DEF Write, NoWrite
    <3>3. QED
      BY <1>0, <2>1, <2>2, <3>2
  <2>3. CASE sync[s].plan[r].content # "none" /\ rows'[r].content = sync[s].plan[r].content
    BY <1>0, <2>1, <2>3
  <2>4. QED
    BY <1>1, <1>2, <1>4, <2>2, <2>3, SyncHits
<1>5. ASSUME NEW w \in Worker, UpdateCommit(w) PROVE rows'[r].content \in held'[r]
  <2>1. CASE /\ r = req[w].rec /\ req[w] \in UpdateReq /\ rows[r] \in Row
             /\ rows'[r] = Edited(rows[r], req[w])
    <3>1. rows'[r].content \in {rows[r].content, req[w].content}
      BY <2>1 DEF Edited, Row
    <3>2. rows[r].content \in held[r]
      BY <2>1 DEF Accepted, CachedContentWasAccepted, Cached, Row
    <3>3. req[w].content \in held[r]
      BY <1>5, <2>1 DEF UpdateCommit, Accepted, RequestsAccepted, RequestAccepted
    <3>4. QED
      BY <1>0, <3>1, <3>2, <3>3
  <2>2. QED
    BY <1>1, <1>5, <2>1, UpdateHits
<1>6. ASSUME NEW w \in Worker, DeleteCommit(w) PROVE rows'[r].content \in held'[r]
    BY <1>1, <1>2, <1>6, DeleteHits
<1>7. ASSUME NEW w \in Worker, CreateCommit(w) PROVE rows'[r].content \in held'[r]
  <2>1. CASE r = req[w].rec
    <3>1. rows'[r].content = req[w].content
      BY <1>7, <2>1 DEF CreateCommit, TypeOK
    <3>2. req[w].content \in held[r]
      BY <1>7, <2>1 DEF CreateCommit, Accepted, RequestsAccepted, RequestAccepted
    <3>3. QED
      BY <1>0, <3>1, <3>2
  <2>2. CASE r # req[w].rec
    BY <1>1, <1>7, <2>2 DEF CreateCommit, TypeOK
  <2>3. QED
    BY <2>1, <2>2
<1>8. QED
    BY <1>1, <1>3, <1>4, <1>5, <1>6, <1>7, RowsStep

\* As long as no id is reassigned, the cache shows only what Cloudflare has accepted for
\* that very record, whatever synchronizations, requests and lost answers interleave.
THEOREM CacheShowsAccepted == Spec /\ IdsNotReassigned => []CachedContentWasAccepted
<1>1. Init => Accepted
  <2>1. Init => CachedContentWasAccepted
    BY DEF Init, CachedContentWasAccepted, Cached, NoRow
  <2>2. Init => PresentAccepted
    BY DEF Init, PresentAccepted, Present
  <2>3. Init => SessionsAccepted
    BY DEF Init, SessionsAccepted, SessionAccepted, NoSync, NoWrite
  <2>4. Init => RequestsAccepted
    BY DEF Init, RequestsAccepted, RequestAccepted, NoReq
  <2>5. QED
    BY <2>1, <2>2, <2>3, <2>4 DEF Accepted
<1>2. TypeOK /\ OnlyItsOwn /\ Accepted /\ [Next]_vars => Accepted'
  <2> SUFFICES ASSUME TypeOK, OnlyItsOwn, Accepted, [Next]_vars PROVE Accepted'
    OBVIOUS
  <2>1. PresentAccepted'
    BY HeldGrows DEF Accepted
  <2>2. QED
    BY <2>1, CachedAcceptedStep, SessionsAcceptedStep, RequestsAcceptedStep DEF Accepted
<1>3. Accepted => CachedContentWasAccepted
    BY DEF Accepted
<1>4. QED
    BY <1>1, <1>2, <1>3, TypeCorrect, OnlyItsOwnInvariant, PTL DEF Spec

-----------------------------------------------------------------------------
(* What a synchronization drops.  Pages are cut anew from every answer, so *)
(* what has still to be listed keeps its place unless something in front   *)
(* of it is removed: the firm records of a session are those it began with *)
(* that are still there and did not slip onto a page it has read.          *)

Firm(s) == steady[s] \ slipped[s]

\* The ranks of a record in its zone and of its zone among all, and how many ranks a
\* session has read.
Rank(r) == Before(InZone(ZoneOf[r]), r)
ZoneRank(r) == Before(LiveZone, ZoneOf[r])
Read(v) == (v.page - 1) * PageSize

LiveZones == \A r \in Present : cfZone[ZoneOf[r]] = "live"

\* What a session v knows of a firm record, now of these ranks.
KnowsFirm(v, r, rank, zoneRank) ==
    /\ v.at = "begin" /\ zoneRank < Read(v) => ZoneOf[r] \in v.seen
    /\ v.at \notin {"idle", "begin"} => ZoneOf[r] \in v.seen
    /\ v.plan[r].kind # "delete"
    /\ v.at = "list" /\ v.zone = ZoneOf[r] /\ rank < Read(v) => v.listed[r] # "none"
    /\ v.at = "rows" /\ v.zone = ZoneOf[r] => v.listed[r] # "none"

FirstPage(v) == v.page = 1 \/ v.at = "begin" \/ (v.at = "list" /\ v.zone # 0)

FirmIsKnown ==
    /\ LiveZones
    /\ \A s \in Syncer : /\ FirstPage(sync[s])
                          /\ steady[s] \subseteq Present
                          /\ \A r \in Firm(s) : KnowsFirm(sync[s], r, Rank(r), ZoneRank(r))

LEMMA PagesReadType ==
    ASSUME NEW v \in Sync
    PROVE  Read(v) \in Int /\ (v.page = 1 => Read(v) = 0)
<1>1. v.page \in Nat
    BY DEF Sync
<1>2. \A n \in Nat : (n - 1) * PageSize \in Int
    OBVIOUS
<1>3. (1 - 1) * PageSize = 0
    OBVIOUS
<1>4. QED
    BY <1>1, <1>2, <1>3 DEF Read

LEMMA SortedListings ==
    /\ LiveZone \in SUBSET Nat /\ IsFiniteSet(LiveZone)
    /\ \A z \in Zone : InZone(z) \in SUBSET Nat /\ IsFiniteSet(InZone(z))
BY FS_Subset DEF LiveZone, InZone, Present

LEMMA RankType ==
    ASSUME NEW r \in Record
    PROVE  Rank(r) \in Nat /\ ZoneRank(r) \in Nat
BY BeforeType DEF Rank, ZoneRank, InZone, LiveZone, Present

\* Nothing moves to an earlier rank when a listing grows.
LEMMA BeforeGrows ==
    ASSUME NEW T \in SUBSET Nat, IsFiniteSet(T), NEW S \in SUBSET T, NEW x
    PROVE  /\ Before(S, x) \in Nat /\ Before(T, x) \in Nat
           /\ Before(S, x) <= Before(T, x)
<1>1. {y \in T : y < x} \subseteq T /\ {y \in S : y < x} \subseteq {y \in T : y < x}
    OBVIOUS
<1>2. IsFiniteSet({y \in T : y < x})
    BY <1>1, FS_Subset
<1>3. /\ IsFiniteSet({y \in S : y < x})
      /\ Cardinality({y \in S : y < x}) <= Cardinality({y \in T : y < x})
    BY <1>1, <1>2, FS_Subset
<1>4. QED
    BY <1>2, <1>3, FS_CardinalityType DEF Before

\* What the pages before n did not reach is on page n, if it is before page n + 1 or
\* page n is the last.
LEMMA PagesCover ==
    ASSUME NEW S \in SUBSET Nat, IsFiniteSet(S), NEW x \in S, NEW n \in Nat,
           ~(Before(S, x) < (n - 1) * PageSize),
           LastPage(S, n) \/ Before(S, x) < ((n + 1) - 1) * PageSize
    PROVE  x \in Page(S, n)
<1>1. Before(S, x) \in Nat /\ Cardinality(S) \in Nat /\ Before(S, x) < Cardinality(S)
    BY Ranks
<1>2. (n - 1) * PageSize \in Int /\ n * PageSize \in Nat /\ (n + 1) - 1 = n
    OBVIOUS
<1> DEFINE lo == (n - 1) * PageSize
           hi == n * PageSize
<1>3. Before(S, x) < hi
  <2>1. CASE LastPage(S, n)
    <3>1. Cardinality(S) <= hi /\ hi \in Nat
      BY <1>2, <2>1 DEF LastPage
    <3> HIDE DEF hi
    <3>2. QED
      BY <1>1, <3>1
  <2>2. CASE Before(S, x) < ((n + 1) - 1) * PageSize
    BY <1>2, <2>2
  <2>3. QED
    BY <2>1, <2>2
<1>4. lo <= Before(S, x)
  <2>1. lo \in Int /\ ~(Before(S, x) < lo)
    BY <1>2
  <2> HIDE DEF lo
  <2>2. QED
    BY <1>1, <2>1
<1>5. QED
    BY <1>3, <1>4 DEF Page

-----------------------------------------------------------------------------
(* The three things a step can do to what Cloudflare has.                  *)

Still ==
    /\ UNCHANGED <<cf, cfZone>>
    /\ \/ UNCHANGED <<steady, slipped>>
       \/ \E s \in Syncer : Leave(s) \/ \E id \in Nat : Enter(s, id)

Gains ==
    \/ \E r \in Record, c \in Content :
         Accept(r, c) /\ (r \in Present \/ cfZone[ZoneOf[r]] = "live")
    \/ \E z \in Zone : ZoneAddedElsewhere(z)

Loses == \E R, Z : Forget(R, Z) /\ \A z \in Z : InZone(z) \subseteq R

LEMMA CloudflareMoves == ASSUME TypeOK, [Next]_vars PROVE Still \/ Gains \/ Loses
<1>1. ASSUME UNCHANGED cloudflare PROVE Still
    BY <1>1 DEF cloudflare, Still
<1>2. ASSUME NEW R, NEW Z, Forget(R, Z), \A z \in Z : InZone(z) \subseteq R PROVE Loses
    BY <1>2, Zenon DEF Loses
<1>3. CASE Elsewhere
  <2>1. ASSUME NEW r \in Record, NEW c \in Content, AddedElsewhere(r, c) \/ EditedElsewhere(r, c)
        PROVE  Gains
    BY <2>1, Zenon DEF AddedElsewhere, EditedElsewhere, Gains
  <2>2. ASSUME NEW r \in Record, RemovedElsewhere(r) PROVE Loses
    BY <1>2, <2>2, Zenon DEF RemovedElsewhere
  <2>3. ASSUME NEW z \in Zone, ZoneAddedElsewhere(z) PROVE Gains
    BY <2>3 DEF Gains
  <2>4. ASSUME NEW z \in Zone, ZoneRemovedElsewhere(z) PROVE Loses
    <3>1. Forget(InZone(z), {z}) /\ \A y \in {z} : InZone(y) \subseteq InZone(z)
      BY <2>4 DEF ZoneRemovedElsewhere
    <3>2. QED
      BY <1>2, <3>1
  <2>5. QED
    BY <1>3, <2>1, <2>2, <2>3, <2>4, Zenon DEF Elsewhere
<1>4. CASE DeleteAccount \/ UNCHANGED vars
    BY <1>1, <1>4 DEF DeleteAccount, vars, cloudflare
<1>5. ASSUME NEW s \in Syncer, AddAccount(s) \/ BeginSync(s) PROVE Still
  <2>1. \E id \in Nat : Enter(s, id)
    BY <1>5, FreeAfterType DEF AddAccount, BeginSync, TypeOK
  <2>2. UNCHANGED <<cf, cfZone>>
    BY <1>5 DEF AddAccount, BeginSync
  <2>3. QED
    BY <2>1, <2>2 DEF Still
<1>6. ASSUME NEW s \in Syncer, SyncStep(s) PROVE Still
  <2>1. CASE SyncCommit(s) \/ SyncFails(s)
    BY <2>1 DEF SyncCommit, SyncFails, Still
  <2>2. QED
    BY <1>1, <1>6, <2>1 DEF SyncStep, SyncListZones, SyncReadZones, SyncListPage, SyncReadRows
<1>7. ASSUME NEW w \in Worker, RequestStart(w) PROVE Still
    BY <1>1, <1>7 DEF RequestStart, CreateStart, UpdateStart, DeleteStart
<1>8. ASSUME NEW w \in Worker, RequestStep(w) PROVE Still \/ Gains \/ Loses
  <2>1. ASSUME NEW r \in Record, NEW answered \in BOOLEAN, CreateRemote(w, r, answered)
        PROVE  Gains
    <3>1. req[w].content \in Content
      BY <2>1, ReqType DEF CreateRemote, CreateReq
    <3>2. QED
      BY <2>1, <3>1, Zenon DEF CreateRemote, Gains
  <2>2. ASSUME NEW answered \in BOOLEAN, UpdateRemote(w, answered) PROVE Gains
    <3>1. req[w].rec \in Record /\ req[w].content \in Content
      BY <2>2, ReqType DEF UpdateRemote, UpdateReq
    <3>2. QED
      BY <2>2, <3>1, Zenon DEF UpdateRemote, Gains
  <2>3. ASSUME NEW r \in Record, NEW answered \in BOOLEAN, DeleteRemote(w, r, answered)
        PROVE  Loses
    BY <1>2, <2>3 DEF DeleteRemote
  <2>4. CASE CreateCommit(w) \/ UpdateCommit(w) \/ DeleteCommit(w) \/ RequestFails(w)
               \/ \E r \in Record : DeleteRefused(w, r)
    BY <1>1, <2>4 DEF CreateCommit, UpdateCommit, DeleteCommit, RequestFails, DeleteRefused
  <2>5. QED
    BY <1>8, <2>1, <2>2, <2>3, <2>4, Zenon DEF RequestStep
<1>9. QED
    BY <1>3, <1>4, <1>5, <1>6, <1>7, <1>8, Zenon DEF Next

LEMMA GainsGrow ==
    ASSUME TypeOK, Gains
    PROVE  /\ Present \subseteq Present' /\ LiveZone \subseteq LiveZone'
           /\ \A z \in Zone : InZone(z) \subseteq InZone(z)'
           /\ UNCHANGED <<steady, slipped>>
<1>1. Present \subseteq Present' /\ LiveZone \subseteq LiveZone' /\ UNCHANGED <<steady, slipped>>
  <2>1. ASSUME NEW r \in Record, NEW c \in Content, Accept(r, c)
        PROVE  /\ Present \subseteq Present' /\ LiveZone \subseteq LiveZone'
               /\ UNCHANGED <<steady, slipped>>
    BY <2>1 DEF Accept, Present, LiveZone, TypeOK
  <2>2. ASSUME NEW z \in Zone, ZoneAddedElsewhere(z)
        PROVE  /\ Present \subseteq Present' /\ LiveZone \subseteq LiveZone'
               /\ UNCHANGED <<steady, slipped>>
    BY <2>2 DEF ZoneAddedElsewhere, Present, LiveZone, TypeOK
  <2>3. QED
    BY <2>1, <2>2, Zenon DEF Gains
<1>2. QED
    BY <1>1 DEF InZone

LEMMA LosesExactly ==
    ASSUME TypeOK, NEW R, NEW Z, Forget(R, Z)
    PROVE  /\ Present' = Present \ R /\ LiveZone' = LiveZone \ Z
           /\ \A z \in Zone : InZone(z)' = InZone(z) \ R
<1>1. Present' = Present \ R /\ LiveZone' = LiveZone \ Z
    BY DEF Forget, Present, LiveZone, TypeOK
<1>2. QED
    BY <1>1 DEF InZone

LEMMA LiveZonesStep == ASSUME TypeOK, LiveZones, [Next]_vars PROVE LiveZones'
<1>1. CASE Still
    BY <1>1 DEF Still, LiveZones, Present
<1>2. CASE Gains
  <2>1. ASSUME NEW r \in Record, NEW c \in Content, Accept(r, c),
               r \in Present \/ cfZone[ZoneOf[r]] = "live"
        PROVE  LiveZones'
    BY <2>1 DEF Accept, LiveZones, Present, TypeOK
  <2>2. ASSUME NEW z \in Zone, ZoneAddedElsewhere(z) PROVE LiveZones'
    BY <2>2 DEF ZoneAddedElsewhere, LiveZones, Present, TypeOK
  <2>3. QED
    BY <1>2, <2>1, <2>2, Zenon DEF Gains
<1>3. CASE Loses
  <2>1. PICK R, Z : Forget(R, Z) /\ \A z \in Z : InZone(z) \subseteq R
    BY <1>3, Zenon DEF Loses
  <2>2. ASSUME NEW r \in Present' PROVE cfZone'[ZoneOf[r]] = "live"
    <3>1. r \in Present /\ r \notin R /\ r \in Record
      BY <2>1, <2>2, LosesExactly DEF Present
    <3>2. ZoneOf[r] \notin Z /\ cfZone[ZoneOf[r]] = "live"
      BY <2>1, <3>1 DEF InZone, LiveZones
    <3>3. QED
      BY <2>1, <3>1, <3>2 DEF Forget
  <2>3. QED
    BY <2>2 DEF LiveZones
<1>4. QED
    BY <1>1, <1>2, <1>3, CloudflareMoves

\* A record is steady only while Cloudflare has it, and firm only while it was.
LEMMA FirmStep ==
    ASSUME TypeOK, FirmIsKnown, [Next]_vars
    PROVE  \A s \in Syncer :
             /\ steady'[s] \subseteq Present'
             /\ (\A id \in Nat : ~Enter(s, id)) => Firm(s)' \subseteq Firm(s)
<1>0. /\ steady \in [Syncer -> SUBSET Record] /\ slipped \in [Syncer -> SUBSET Record]
      /\ \A s \in Syncer : steady[s] \subseteq Present
    BY DEF TypeOK, FirmIsKnown
<1> SUFFICES ASSUME NEW s \in Syncer
             PROVE  /\ steady'[s] \subseteq Present'
                    /\ (\A id \in Nat : ~Enter(s, id)) => Firm(s)' \subseteq Firm(s)
    OBVIOUS
<1>1. CASE Still
  <2>1. Present' = Present
    BY <1>1 DEF Still, Present
  <2>2. CASE UNCHANGED <<steady, slipped>>
    BY <1>0, <2>1, <2>2 DEF Firm
  <2>3. ASSUME NEW t \in Syncer, Leave(t)
        PROVE  steady'[s] \subseteq Present' /\ Firm(s)' \subseteq Firm(s)
    BY <1>0, <2>1, <2>3 DEF Leave, Firm
  <2>4. ASSUME NEW t \in Syncer, NEW id \in Nat, Enter(t, id)
        PROVE  steady'[s] \subseteq Present' /\ (t # s => Firm(s)' \subseteq Firm(s))
    BY <1>0, <2>1, <2>4 DEF Enter, Firm
  <2>5. QED
    BY <1>1, <2>2, <2>3, <2>4, Zenon DEF Still
<1>2. CASE Gains
    BY <1>0, <1>2, GainsGrow DEF Firm
<1>3. CASE Loses
  <2>1. PICK R, Z : Forget(R, Z)
    BY <1>3, Zenon DEF Loses
  <2>2. /\ steady'[s] = steady[s] \ R
        /\ slipped'[s] = (slipped[s] \cup {r \in steady[s] : Slips(s, r, R, Z)}) \ R
    BY <2>1, Zenon DEF Forget
  <2>3. QED
    BY <1>0, <2>1, <2>2, LosesExactly DEF Firm
<1>4. QED
    BY <1>1, <1>2, <1>3, CloudflareMoves

\* A session that does not step knows as much as before.
LEMMA UnmovedKnows ==
    ASSUME TypeOK, TypeOK', FirmIsKnown, [Next]_vars, NEW s \in Syncer,
           sync'[s] = sync[s], NEW r \in Firm(s), r \in Firm(s)'
    PROVE  KnowsFirm(sync'[s], r, Rank(r)', ZoneRank(r)')
<1> DEFINE v == sync[s]
<1>0. /\ KnowsFirm(v, r, Rank(r), ZoneRank(r)) /\ r \in Record /\ ZoneOf[r] \in Zone
      /\ v \in Sync /\ Read(v) \in Int
  <2>1. KnowsFirm(v, r, Rank(r), ZoneRank(r)) /\ r \in Record
    BY DEF FirmIsKnown, TypeOK, Firm
  <2>2. v \in Sync
    BY DEF TypeOK
  <2> HIDE DEF v
  <2>3. QED
    BY <2>1, <2>2, PagesReadType
<1>1. /\ Rank(r) \in Nat /\ ZoneRank(r) \in Nat
      /\ Rank(r)' = Before(InZone(ZoneOf[r])', r)
      /\ ZoneRank(r)' = Before(LiveZone', ZoneOf[r])
    BY <1>0, RankType DEF Rank, ZoneRank, Before
<1>2. ASSUME v.at = "begin" /\ ZoneRank(r)' < Read(v) => ZoneOf[r] \in v.seen,
             v.at = "list" /\ v.zone = ZoneOf[r] /\ Rank(r)' < Read(v) => v.listed[r] # "none"
      PROVE  KnowsFirm(sync'[s], r, Rank(r)', ZoneRank(r)')
    BY <1>0, <1>2 DEF KnowsFirm
<1>3. ASSUME InZone(ZoneOf[r]) \subseteq InZone(ZoneOf[r])', LiveZone \subseteq LiveZone'
      PROVE  KnowsFirm(sync'[s], r, Rank(r)', ZoneRank(r)')
  <2>1. /\ InZone(ZoneOf[r])' \in SUBSET Nat /\ IsFiniteSet(InZone(ZoneOf[r])')
        /\ LiveZone' \in SUBSET Nat /\ IsFiniteSet(LiveZone')
    BY <1>0, FS_Subset DEF LiveZone, InZone, Present
  <2>2. /\ Before(InZone(ZoneOf[r]), r) <= Before(InZone(ZoneOf[r])', r)
        /\ Before(InZone(ZoneOf[r])', r) \in Nat
    BY <1>3, <2>1, BeforeGrows
  <2>3. /\ Before(LiveZone, ZoneOf[r]) <= Before(LiveZone', ZoneOf[r])
        /\ Before(LiveZone', ZoneOf[r]) \in Nat
    BY <1>3, <2>1, BeforeGrows
  <2>4. /\ Rank(r) <= Rank(r)' /\ Rank(r)' \in Nat
        /\ ZoneRank(r) <= ZoneRank(r)' /\ ZoneRank(r)' \in Nat
    BY <1>1, <2>2, <2>3 DEF Rank, ZoneRank
  <2> HIDE DEF v
  <2>5. /\ Rank(r)' < Read(v) => Rank(r) < Read(v)
        /\ ZoneRank(r)' < Read(v) => ZoneRank(r) < Read(v)
    BY <1>0, <1>1, <2>4
  <2>6. QED
    BY <1>0, <1>2, <2>5 DEF KnowsFirm
<1>4. CASE Still
  <2>1. InZone(ZoneOf[r])' = InZone(ZoneOf[r]) /\ LiveZone' = LiveZone
    BY <1>4 DEF Still, InZone, Present, LiveZone
  <2>2. QED
    BY <1>3, <2>1
<1>5. CASE Gains
    BY <1>0, <1>3, <1>5, GainsGrow
<1>6. CASE Loses
  <2>1. PICK R, Z : Forget(R, Z)
    BY <1>6, Zenon DEF Loses
  <2>2. slipped'[s] = (slipped[s] \cup {q \in steady[s] : Slips(s, q, R, Z)}) \ R
    BY <2>1, Zenon DEF Forget
  <2>3. r \in steady[s] /\ r \notin slipped'[s] /\ r \notin R
    <3>1. steady'[s] = steady[s] \ R
      BY <2>1, Zenon DEF Forget
    <3>2. QED
      BY <3>1 DEF Firm
  <2>4. ~Slips(s, r, R, Z)
    BY <2>2, <2>3
  <2>5. /\ Rank(r)' = Before(InZone(ZoneOf[r]) \ R, r)
        /\ ZoneRank(r)' = Before(LiveZone \ Z, ZoneOf[r])
    BY <1>0, <1>1, <2>1, LosesExactly
  <2>6. QED
    BY <1>2, <2>4, <2>5 DEF Slips, Read
<1>7. QED
    BY <1>4, <1>5, <1>6, CloudflareMoves

\* The steps of a session's own reading.
LEMMA ReadingKnows ==
    ASSUME TypeOK, TypeOK', FirmIsKnown, NEW s \in Syncer,
           \/ SyncListZones(s) \/ SyncReadZones(s) \/ SyncReadRows(s)
           \/ \E z \in Zone : SyncListPage(s, z)
    PROVE  /\ FirstPage(sync'[s])
           /\ \A r \in Firm(s) : KnowsFirm(sync'[s], r, Rank(r)', ZoneRank(r)')
<1> DEFINE v == sync[s]
           Goal == /\ FirstPage(sync'[s])
                   /\ \A r \in Firm(s) : KnowsFirm(sync'[s], r, Rank(r)', ZoneRank(r)')
<1>0. /\ v \in Sync /\ sync \in [Syncer -> Sync]
      /\ FirstPage(v) /\ Firm(s) \subseteq Present /\ Present \subseteq Record
      /\ \A r \in Firm(s) : KnowsFirm(v, r, Rank(r), ZoneRank(r))
      /\ LiveZones
    BY DEF TypeOK, FirmIsKnown, Present, Firm
<1>1. \A r \in Record : /\ Rank(r)' = Rank(r) /\ Rank(r) \in Nat
                        /\ ZoneRank(r)' = ZoneRank(r) /\ ZoneRank(r) \in Nat
                        /\ ZoneOf[r] \in Zone
  <2>1. UNCHANGED <<cf, cfZone>>
    BY DEF SyncListZones, SyncReadZones, SyncListPage, SyncReadRows, cloudflare
  <2>2. QED
    BY <2>1, RankType DEF Rank, ZoneRank, Before, InZone, LiveZone, Present
<1>2. v.page \in Nat
    BY <1>0 DEF Sync
<1>3. CASE SyncListZones(s)
  <2> DEFINE n == v.page
             seen == v.seen \cup Page(LiveZone, n)
  <2>1. PICK again :
          sync' = [sync EXCEPT ![s].at = IF LastPage(LiveZone, n) THEN "zones" ELSE "begin",
                               ![s].seen = seen, ![s].again = again,
                               ![s].page = IF LastPage(LiveZone, n) THEN 1 ELSE n + 1]
    BY <1>3, Zenon DEF SyncListZones
  <2>2. ASSUME NEW r \in Firm(s), LastPage(LiveZone, n) \/ ZoneRank(r) < ((n + 1) - 1) * PageSize
        PROVE  ZoneOf[r] \in seen
    <3>1. ZoneOf[r] \in LiveZone
      BY <1>0, <1>1 DEF LiveZones, LiveZone
    <3>2. CASE ZoneRank(r) < (n - 1) * PageSize
      <4>1. v.at = "begin" /\ ZoneRank(r) < Read(v)
        BY <1>3, <3>2 DEF SyncListZones, Read
      <4>2. QED
        BY <1>0, <4>1 DEF KnowsFirm
    <3>3. CASE ~(ZoneRank(r) < (n - 1) * PageSize)
      <4>1. ZoneOf[r] \in Page(LiveZone, n)
        BY <1>2, <2>2, <3>1, <3>3, SortedListings, PagesCover DEF ZoneRank
      <4>2. QED
        BY <4>1
    <3>4. QED
      BY <3>2, <3>3
  <2> HIDE DEF seen
  <2>3. /\ sync'[s].seen = seen /\ sync'[s].plan = v.plan
        /\ IF LastPage(LiveZone, n) THEN sync'[s].at = "zones" /\ sync'[s].page = 1
                                    ELSE sync'[s].at = "begin" /\ sync'[s].page = n + 1
    BY <1>0, <2>1 DEF Sync
  <2>4. FirstPage(sync'[s])
    BY <2>3 DEF FirstPage
  <2>5. ASSUME NEW r \in Firm(s) PROVE KnowsFirm(sync'[s], r, Rank(r)', ZoneRank(r)')
    <3>1. v.plan[r].kind # "delete" /\ ZoneRank(r)' = ZoneRank(r)
      BY <1>0, <1>1 DEF KnowsFirm
    <3>2. CASE LastPage(LiveZone, n)
      BY <2>2, <2>3, <3>1, <3>2 DEF KnowsFirm
    <3>3. CASE ~LastPage(LiveZone, n)
      <4>1. sync'[s].at = "begin" /\ sync'[s].page = n + 1
        BY <2>3, <3>3
      <4>2. Read(sync'[s]) = ((n + 1) - 1) * PageSize
        BY <4>1 DEF Read
      <4>3. ZoneRank(r) < Read(sync'[s]) => ZoneOf[r] \in sync'[s].seen
        BY <2>2, <2>3, <4>2
      <4>4. QED
        BY <2>3, <3>1, <4>1, <4>3 DEF KnowsFirm
    <3>4. QED
      BY <3>2, <3>3
  <2>6. QED
    BY <2>4, <2>5
<1>4. CASE SyncReadZones(s)
  <2>1. /\ sync'[s].at \in {"list", "commit"} /\ sync'[s].page = v.page
        /\ sync'[s].plan = v.plan /\ sync'[s].seen = v.seen /\ v.at = "zones"
    BY <1>0, <1>4 DEF SyncReadZones, NextStop, Sync
  <2>2. sync'[s].page = 1
    BY <1>0, <2>1 DEF FirstPage
  <2>3. Read(sync'[s]) = 0
    BY <2>2 DEF Read
  <2>4. ASSUME NEW r \in Firm(s) PROVE ~(Rank(r)' < Read(sync'[s]))
    <3>1. r \in Record
      BY <1>0
    <3>2. Rank(r)' \in Nat
      BY <1>1, <3>1
    <3>3. QED
      BY <2>3, <3>2
  <2>5. QED
    BY <1>0, <2>1, <2>2, <2>4 DEF FirstPage, KnowsFirm
<1>5. ASSUME NEW z \in Zone, SyncListPage(s, z) PROVE Goal
  <2> DEFINE n == v.page
             listed == [r \in Record |-> IF r \in Page(InZone(z), n) THEN cf[r] ELSE v.listed[r]]
  <2>1. PICK twice :
          sync' = [sync EXCEPT ![s].at = IF LastPage(InZone(z), n) THEN "rows" ELSE "list",
                               ![s].zone = z,
                               ![s].page = IF LastPage(InZone(z), n) THEN 1 ELSE n + 1,
                               ![s].listed = listed, ![s].twice = twice]
    BY <1>5, Zenon DEF SyncListPage
  <2>2. ASSUME NEW r \in Firm(s), ZoneOf[r] = z,
               LastPage(InZone(z), n) \/ Rank(r) < ((n + 1) - 1) * PageSize
        PROVE  listed[r] # "none"
    <3>1. r \in InZone(z) /\ r \in Record /\ cf[r] # "none"
      BY <1>0, <2>2 DEF InZone, Present
    <3>2. CASE Rank(r) < (n - 1) * PageSize
      <4>1. v.at = "list" /\ v.zone \in {0, z} /\ Rank(r) < Read(v)
        BY <1>5, <3>2 DEF SyncListPage, Read
      <4>2. v.page # 1
        <5>1. Rank(r) \in Nat /\ (v.page = 1 => Read(v) = 0)
          BY <1>0, <1>1, <3>1, PagesReadType
        <5>2. QED
          BY <4>1, <5>1
      <4>3. v.zone = z
        BY <1>0, <4>1, <4>2 DEF FirstPage
      <4>4. v.listed[r] # "none"
        BY <1>0, <2>2, <4>1, <4>3 DEF KnowsFirm
      <4>5. QED
        BY <3>1, <4>4
    <3>3. CASE ~(Rank(r) < (n - 1) * PageSize)
      <4>1. r \in Page(InZone(z), n)
        BY <1>2, <2>2, <3>1, <3>3, SortedListings, PagesCover DEF Rank
      <4>2. QED
        BY <3>1, <4>1
    <3>4. QED
      BY <3>2, <3>3
  <2> HIDE DEF listed
  <2>3. /\ sync'[s].zone = z /\ sync'[s].listed = listed
        /\ sync'[s].seen = v.seen /\ sync'[s].plan = v.plan
        /\ IF LastPage(InZone(z), n) THEN sync'[s].at = "rows" /\ sync'[s].page = 1
                                     ELSE sync'[s].at = "list" /\ sync'[s].page = n + 1
    BY <1>0, <2>1 DEF Sync
  <2>4. FirstPage(sync'[s])
    BY <2>3 DEF FirstPage
  <2>5. ASSUME NEW r \in Firm(s) PROVE KnowsFirm(sync'[s], r, Rank(r)', ZoneRank(r)')
    <3>1. ZoneOf[r] \in v.seen /\ v.plan[r].kind # "delete" /\ Rank(r)' = Rank(r)
      BY <1>0, <1>1, <1>5 DEF KnowsFirm, SyncListPage
    <3>2. CASE LastPage(InZone(z), n)
      BY <2>2, <2>3, <3>1, <3>2 DEF KnowsFirm
    <3>3. CASE ~LastPage(InZone(z), n)
      <4>1. sync'[s].at = "list" /\ sync'[s].page = n + 1
        BY <2>3, <3>3
      <4>2. Read(sync'[s]) = ((n + 1) - 1) * PageSize
        BY <4>1 DEF Read
      <4>3. ZoneOf[r] = z /\ Rank(r) < Read(sync'[s]) => listed[r] # "none"
        BY <2>2, <4>2
      <4>4. QED
        BY <2>3, <3>1, <4>1, <4>3 DEF KnowsFirm
    <3>4. QED
      BY <3>2, <3>3
  <2>6. QED
    BY <2>4, <2>5
<1>6. CASE SyncReadRows(s)
  <2> DEFINE known == /\ v.zone \in Zone /\ v.known[v.zone] # 0
                      /\ zoneRow[v.zone] = v.known[v.zone]
             plan == [r \in Record |->
                        IF ZoneOf[r] = v.zone
                        THEN WriteFor(IF known THEN rows[r] ELSE NoRow, v.listed[r])
                        ELSE v.plan[r]]
  <2>1. PICK todo, listed :
          sync' = [sync EXCEPT ![s].at = NextStop(todo), ![s].todo = todo, ![s].zone = 0,
                               ![s].listed = listed, ![s].plan = plan]
    BY <1>6, Zenon DEF SyncReadRows
  <2>2. \A row, c : c # "none" => WriteFor(row, c).kind # "delete"
    BY DEF WriteFor
  <2>3. v.at = "rows" /\ v.page = 1
    BY <1>0, <1>6 DEF SyncReadRows, FirstPage
  <2>4. ASSUME NEW r \in Firm(s) PROVE plan[r].kind # "delete"
    <3> HIDE DEF known
    <3>1. r \in Record /\ KnowsFirm(v, r, Rank(r), ZoneRank(r))
      BY <1>0
    <3>2. QED
      BY <2>2, <2>3, <3>1 DEF KnowsFirm
  <2> HIDE DEF plan
  <2>5. /\ sync'[s].at \in {"list", "commit"} /\ sync'[s].zone = 0
        /\ sync'[s].page = v.page /\ sync'[s].seen = v.seen /\ sync'[s].plan = plan
    BY <1>0, <2>1 DEF Sync, NextStop
  <2>6. \A r \in Record : sync'[s].zone # ZoneOf[r]
    BY <2>5
  <2>7. QED
    BY <1>0, <2>3, <2>4, <2>5, <2>6 DEF FirstPage, KnowsFirm
<1>7. QED
    BY <1>3, <1>4, <1>5, <1>6

\* A synchronization steps for itself alone.
LEMMA StepsOwn ==
    ASSUME TypeOK, NEW s \in Syncer, AddAccount(s) \/ BeginSync(s) \/ SyncStep(s)
    PROVE  \E v : sync' = [sync EXCEPT ![s] = v]
<1>0. sync \in [Syncer -> Sync]
    BY DEF TypeOK
<1>1. CASE AddAccount(s) \/ BeginSync(s) \/ SyncCommit(s) \/ SyncFails(s)
    BY <1>1, Zenon DEF AddAccount, BeginSync, SyncCommit, SyncFails, Enter, Leave
<1>2. CASE SyncListZones(s)
  <2>1. PICK at, seen, again, page :
          sync' = [sync EXCEPT ![s].at = at, ![s].seen = seen, ![s].again = again,
                               ![s].page = page]
    BY <1>2, Zenon DEF SyncListZones
  <2>2. sync' = [sync EXCEPT ![s] = [sync[s] EXCEPT !.at = at, !.seen = seen,
                                                    !.again = again, !.page = page]]
    BY <1>0, <2>1
  <2>3. QED
    BY <2>2, Zenon
<1>3. CASE SyncReadZones(s)
  <2>1. PICK at, known, todo :
          sync' = [sync EXCEPT ![s].at = at, ![s].known = known, ![s].todo = todo]
    BY <1>3, Zenon DEF SyncReadZones
  <2>2. sync' = [sync EXCEPT ![s] =
                   [sync[s] EXCEPT !.at = at, !.known = known, !.todo = todo]]
    BY <1>0, <2>1
  <2>3. QED
    BY <2>2, Zenon
<1>4. ASSUME NEW z \in Zone, SyncListPage(s, z) PROVE \E v : sync' = [sync EXCEPT ![s] = v]
  <2>1. PICK at, page, listed, twice :
          sync' = [sync EXCEPT ![s].at = at, ![s].zone = z, ![s].page = page,
                               ![s].listed = listed, ![s].twice = twice]
    BY <1>4, Zenon DEF SyncListPage
  <2>2. sync' = [sync EXCEPT ![s] = [sync[s] EXCEPT !.at = at, !.zone = z, !.page = page,
                                                    !.listed = listed, !.twice = twice]]
    BY <1>0, <2>1
  <2>3. QED
    BY <2>2, Zenon
<1>5. CASE SyncReadRows(s)
  <2>1. PICK at, todo, zone, listed, plan :
          sync' = [sync EXCEPT ![s].at = at, ![s].todo = todo, ![s].zone = zone,
                               ![s].listed = listed, ![s].plan = plan]
    BY <1>5, Zenon DEF SyncReadRows
  <2>2. sync' = [sync EXCEPT ![s] = [sync[s] EXCEPT !.at = at, !.todo = todo, !.zone = zone,
                                                    !.listed = listed, !.plan = plan]]
    BY <1>0, <2>1
  <2>3. QED
    BY <2>2, Zenon
<1>6. QED
    BY <1>1, <1>2, <1>3, <1>4, <1>5 DEF SyncStep

LEMMA FirmKnownStep ==
    ASSUME TypeOK, FirmIsKnown, [Next]_vars
    PROVE  FirmIsKnown'
<1> DEFINE Knows(s) == /\ FirstPage(sync'[s])
                       /\ \A r \in Firm(s)' : KnowsFirm(sync'[s], r, Rank(r)', ZoneRank(r)')
<1>0. /\ TypeOK' /\ LiveZones' /\ sync \in [Syncer -> Sync]
      /\ steady \in [Syncer -> SUBSET Record] /\ slipped \in [Syncer -> SUBSET Record]
    BY TypeStep, LiveZonesStep DEF FirmIsKnown, TypeOK
<1>1. ASSUME NEW s \in Syncer, \A id \in Nat : ~Enter(s, id) PROVE Firm(s)' \subseteq Firm(s)
    BY <1>1, FirmStep
<1>2. ASSUME NEW s \in Syncer, NEW id \in Nat, Enter(s, id) PROVE Knows(s)
  <2>1. sync'[s].at = "begin" /\ sync'[s].page = 1 /\ sync'[s].plan = NoSync.plan
    BY <1>0, <1>2 DEF Enter, NoSync
  <2>2. Read(sync'[s]) = 0
    BY <2>1 DEF Read
  <2>3. ASSUME NEW r \in Firm(s)'
        PROVE  sync'[s].plan[r].kind = "keep" /\ ~(ZoneRank(r)' < Read(sync'[s]))
    <3>1. r \in Record
      BY <1>0 DEF Firm, TypeOK
    <3>2. LiveZone' \subseteq Zone
      BY DEF LiveZone
    <3>3. ZoneRank(r)' \in Nat
      BY <3>2, BeforeType DEF ZoneRank, Before
    <3>4. QED
      BY <2>1, <2>2, <3>1, <3>3 DEF NoSync, NoWrite
  <2>4. QED
    BY <2>1, <2>3 DEF FirstPage, KnowsFirm
<1>3. ASSUME NEW s \in Syncer, Leave(s) PROVE Knows(s)
    BY <1>0, <1>3 DEF Leave, FirstPage, NoSync, Firm
<1>4. ASSUME NEW s \in Syncer PROVE Knows(s)
  <2>1. CASE \E id \in Nat : Enter(s, id)
    BY <1>2, <2>1
  <2>2. CASE sync'[s] = sync[s] /\ \A id \in Nat : ~Enter(s, id)
    BY <1>0, <1>1, <2>2, UnmovedKnows DEF FirmIsKnown
  <2>3. CASE \/ SyncListZones(s) \/ SyncReadZones(s) \/ SyncReadRows(s)
             \/ \E z \in Zone : SyncListPage(s, z)
    <3>1. UNCHANGED <<steady, slipped>>
      BY <2>3 DEF SyncListZones, SyncReadZones, SyncReadRows, SyncListPage, cloudflare
    <3>2. QED
      BY <1>0, <2>3, <3>1, ReadingKnows DEF Firm
  <2>4. CASE SyncCommit(s) \/ SyncFails(s)
    BY <1>3, <2>4 DEF SyncCommit, SyncFails
  <2>5. CASE AddAccount(s) \/ BeginSync(s)
    BY <1>2, <2>5, FreeAfterType DEF AddAccount, BeginSync, TypeOK
  <2>6. ASSUME sync'[s] # sync[s] PROVE AddAccount(s) \/ BeginSync(s) \/ SyncStep(s)
    <3>1. ASSUME NEW t \in Syncer \ {s}, NEW x, sync' = [sync EXCEPT ![t] = x]
          PROVE  FALSE
      BY <1>0, <2>6, <3>1
    <3>2. ASSUME NEW t \in Syncer \ {s}, AddAccount(t) \/ BeginSync(t) \/ SyncStep(t)
          PROVE  \E x : sync' = [sync EXCEPT ![t] = x]
      BY <3>2, StepsOwn
    <3>3. ~Elsewhere /\ ~DeleteAccount /\ ~UNCHANGED vars
      BY <2>6 DEF Elsewhere, AddedElsewhere, EditedElsewhere, RemovedElsewhere,
         ZoneAddedElsewhere, ZoneRemovedElsewhere, DeleteAccount, vars
    <3>4. \A w \in Worker : ~RequestStart(w) /\ ~RequestStep(w)
      BY <2>6 DEF RequestStart, RequestStep, CreateStart, UpdateStart, DeleteStart,
         CreateRemote, CreateCommit, UpdateRemote, UpdateCommit, DeleteRemote, DeleteRefused,
         DeleteCommit, RequestFails
    <3>5. QED
      BY <3>1, <3>2, <3>3, <3>4 DEF Next
  <2>7. QED
    BY <2>1, <2>2, <2>3, <2>4, <2>5, <2>6 DEF SyncStep
<1>5. QED
    BY <1>0, <1>4, FirmStep DEF FirmIsKnown

\* As long as no id is reassigned, a synchronization drops a row only if its record was
\* absent at some moment of it or slipped onto a page already read.
THEOREM SyncsDropOnlyAbsent == Spec /\ IdsNotReassigned => SyncDropsOnlyAbsent
<1>1. Init => FirmIsKnown
  <2>1. Init => LiveZones
    BY DEF Init, LiveZones
  <2>2. Init => \A s \in Syncer : sync[s] = NoSync /\ steady[s] = {}
    BY DEF Init
  <2>3. QED
    BY <2>1, <2>2 DEF FirmIsKnown, FirstPage, NoSync, Firm
<1>2. TypeOK /\ FirmIsKnown /\ [Next]_vars => FirmIsKnown'
    BY FirmKnownStep
<1>3. ASSUME TypeOK, OnlyItsOwn, FirmIsKnown, NEW s \in Syncer, NEW r \in Cached, SyncCommit(s)
      PROVE  rows'[r].id # 0 \/ r \notin steady[s] \/ r \in slipped[s]
  <2>1. SUFFICES ASSUME r \in Firm(s) PROVE rows'[r].id # 0
    BY DEF Firm
  <2>2. r \in Record /\ rows[r].id # 0
    BY DEF Cached
  <2>3. KnowsFirm(sync[s], r, Rank(r), ZoneRank(r)) /\ sync[s].at = "commit"
    BY <1>3, <2>1 DEF FirmIsKnown, SyncCommit
  <2>4. ZoneOf[r] \notin StaleZones(s) /\ sync[s].plan[r].kind # "delete"
    BY <2>3 DEF KnowsFirm, StaleZones
  <2>5. rows'[r] = rows[r] \/ rows'[r].id = rows[r].id
    BY <1>3, <2>2, <2>4, SyncHits
  <2>6. QED
    BY <2>2, <2>5
<1>4. TypeOK /\ OnlyItsOwn /\ FirmIsKnown =>
        \A s \in Syncer, r \in Cached :
          SyncCommit(s) => rows'[r].id # 0 \/ r \notin steady[s] \/ r \in slipped[s]
    BY <1>3
<1>5. QED
    BY <1>1, <1>2, <1>4, TypeCorrect, OnlyItsOwnInvariant, PTL
       DEF Spec, SyncDropsOnlyAbsent

\* With ids from a sequence the same holds of every behavior, for listings of any length.
THEOREM SequenceSyncsDropOnlyAbsent == ~ReuseIds => (Spec => SyncDropsOnlyAbsent)
BY SequenceIdsAreNotReassigned, SyncsDropOnlyAbsent, PTL

=============================================================================
