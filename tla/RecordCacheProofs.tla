--------------------------- MODULE RecordCacheProofs ---------------------------
(***************************************************************************)
(* Proofs about RecordCache, for any records, zones, sessions and bounds.  *)
(* They rest on what a synchronization carries from its reads to its       *)
(* commit: the account it began with, the zones it saw, and writes planned *)
(* only for records of those zones.                                        *)
(***************************************************************************)
EXTENDS RecordCache, FiniteSetTheorems, TLAPS

USE ConstantsAssumption

\* A running synchronization has an account and stays within the zones it listed.
SyncStaysWithinSeen ==
    \A s \in Syncer :
        /\ sync[s].at # "idle" => sync[s].acct # 0
        /\ sync[s].todo \subseteq sync[s].seen
        /\ sync[s].at = "rows" => sync[s].zone \in sync[s].todo
        /\ \A r \in Inserted(s) : ZoneOf[r] \in sync[s].seen
        /\ sync[s].at \in {"begin", "zones"} => sync[s].todo = {} /\ Inserted(s) = {}

IInv == TypeOK /\ NoOrphanRows /\ SyncStaysWithinSeen

-----------------------------------------------------------------------------
(* The operators the actions are built from.                               *)

LEMMA CountIsNat ==
    ASSUME NEW S, S \subseteq Record
    PROVE  Cardinality(S) \in Nat
BY FS_Subset, FS_CardinalityType

LEMMA FreeAfterType ==
    ASSUME TypeOK, NEW ids \in SUBSET Nat, NEW id \in FreeAfter(ids)
    PROVE  id \in Nat \ {0}
BY DEF FreeAfter, TypeOK

LEMMA FreeIdType ==
    ASSUME TypeOK, NEW id \in FreeIds
    PROVE  id \in Nat \ {0}
<1>1. {rows[r].id : r \in Record} \in SUBSET Nat
    BY DEF TypeOK, Row, NoRow
<1>2. QED
    BY <1>1, FreeAfterType DEF FreeIds

\* The rank of a zone or record among some of them.
LEMMA BeforeType ==
    ASSUME NEW S, S \subseteq Record \/ S \subseteq Zone, NEW x
    PROVE  Before(S, x) \in Nat
<1>1. IsFiniteSet(S)
    BY FS_Subset
<1>2. IsFiniteSet({y \in S : y < x})
    BY <1>1, FS_Subset
<1>3. QED
    BY <1>2, FS_CardinalityType DEF Before

LEMMA ZoneRowType ==
    ASSUME TypeOK, NEW s \in Syncer, NEW base \in FreeAfter({zoneRow[z] : z \in Zone}),
           NEW z
    PROVE  base + Before(NewZones(s), z) \in Nat \ {0}
<1>1. {zoneRow[y] : y \in Zone} \in SUBSET Nat
    BY DEF TypeOK
<1>2. base \in Nat \ {0}
    BY <1>1, FreeAfterType
<1>3. NewZones(s) \subseteq Zone
    BY DEF NewZones, TypeOK, Sync
<1>4. Before(NewZones(s), z) \in Nat
    BY <1>3, BeforeType
<1>5. QED
    BY <1>2, <1>4

LEMMA CachedRowType ==
    ASSUME TypeOK, NEW r \in Record
    PROVE  /\ r \in Cached => rows[r] \in Row
           /\ r \notin Cached => rows[r] = NoRow
BY DEF TypeOK, Cached, Row, NoRow

LEMMA WriteForType ==
    ASSUME NEW row \in Row \cup {NoRow}, NEW c \in Content \cup {"none"}
    PROVE  /\ WriteFor(row, c) \in Write
           /\ WriteFor(row, c).kind = "insert" => c # "none"
<1>1. CASE row.id = 0
  <2>1. row = NoRow
    BY <1>1 DEF Row
  <2>2. QED
    BY <1>1, <2>1 DEF WriteFor, Write, NoWrite, NoRow
<1>2. CASE row.id # 0
  <2>1. row \in Row
    BY <1>2 DEF NoRow
  <2>2. QED
    BY <1>2, <2>1 DEF WriteFor, Write, NoWrite, Row
<1>3. QED
    BY <1>1, <1>2

\* What is written to a row is a row, and only an insertion makes one appear.
LEMMA WrittenType ==
    ASSUME TypeOK, NEW s \in Syncer, NEW base \in Nat \ {0}, NEW r \in Record
    PROVE  /\ Written(s, base, r) \in Row \cup {NoRow}
           /\ Written(s, base, r).id # 0 /\ r \notin Inserted(s) => r \in Cached
<1>1. sync[s].plan \in [Record -> Write] /\ rows \in [Record -> Row \cup {NoRow}]
    BY DEF TypeOK, Sync
<1>2. CASE r \in Inserted(s)
  <2>1. Before(Inserted(s), r) \in Nat
    BY BeforeType DEF Inserted
  <2>2. sync[s].plan[r].content \in Content
    BY <1>1, <1>2 DEF Inserted, Write, NoWrite
  <2>3. QED
    BY <1>2, <2>1, <2>2 DEF Written, Row
<1>3. CASE r \notin Inserted(s)
  <2>1. CASE PlannedFor(s, "delete", rows[r].id) # {}
    BY <1>3, <2>1 DEF Written, NoRow
  <2>2. CASE PlannedFor(s, "delete", rows[r].id) = {} /\ Updates(s, rows[r].id) = {}
    BY <1>1, <1>3, <2>2 DEF Written, Cached
  <2>3. CASE PlannedFor(s, "delete", rows[r].id) = {} /\ Updates(s, rows[r].id) # {}
    <3>1. PICK q \in Updates(s, rows[r].id) :
            q = CHOOSE p \in Updates(s, rows[r].id) : TRUE
      BY <2>3
    <3>2. sync[s].plan[q].content \in Content /\ rows[r].id # 0
      BY <1>1 DEF Updates, PlannedFor, Write, NoWrite
    <3>3. Written(s, base, r) = [rows[r] EXCEPT !.content = sync[s].plan[q].content]
      BY <1>3, <2>3, <3>1 DEF Written
    <3>4. QED
      BY <1>1, <3>2, <3>3 DEF Row, NoRow, Cached
  <2>4. QED
    BY <2>1, <2>2, <2>3
<1>4. QED
    BY <1>2, <1>3

-----------------------------------------------------------------------------
(* The type invariant, action by action.                                   *)

LEMMA InitType == Init => TypeOK
<1> SUFFICES ASSUME Init PROVE TypeOK
    OBVIOUS
<1>1. NoWrite \in Write
    BY DEF Write
<1>2. NoSync \in Sync
    BY <1>1 DEF NoSync, Sync
<1>3. cf \in [Record -> Content \cup {"unborn", "gone"}] /\ cfZone \in [Zone -> {"unborn", "live", "gone"}]
    BY DEF Init
<1>4. account \in Nat /\ zoneRow \in [Zone -> Nat] /\ nextId \in Nat \ {0} /\ ops \in 0..MaxOps
    BY DEF Init
<1>5. rows \in [Record -> Row \cup {NoRow}] /\ req \in [Worker -> Req]
    BY DEF Init, Req
<1>6. sync \in [Syncer -> Sync]
    BY <1>2 DEF Init
<1>7. /\ held \in [Record -> SUBSET Content]
      /\ steady \in [Syncer -> SUBSET Record] /\ slipped \in [Syncer -> SUBSET Record]
    BY DEF Init
<1>8. QED
    BY <1>3, <1>4, <1>5, <1>6, <1>7 DEF TypeOK

LEMMA BudgetType == ASSUME TypeOK, Budget PROVE ops' \in 0..MaxOps
BY DEF TypeOK, Budget

LEMMA AcceptType ==
    ASSUME TypeOK, NEW r \in Record, NEW c \in Content, Accept(r, c)
    PROVE  /\ cf' \in [Record -> Content \cup {"unborn", "gone"}]
           /\ held' \in [Record -> SUBSET Content]
           /\ cfZone' = cfZone /\ steady' = steady /\ slipped' = slipped
BY DEF TypeOK, Accept

LEMMA ForgetType ==
    ASSUME TypeOK, NEW R, NEW Z, Forget(R, Z)
    PROVE  /\ cf' \in [Record -> Content \cup {"unborn", "gone"}]
           /\ cfZone' \in [Zone -> {"unborn", "live", "gone"}]
           /\ steady' \in [Syncer -> SUBSET Record]
           /\ slipped' \in [Syncer -> SUBSET Record]
           /\ held' = held
BY DEF TypeOK, Forget

LEMMA ElsewhereType == ASSUME TypeOK, Elsewhere PROVE TypeOK'
<1>1. Budget /\ UNCHANGED <<account, zoneRow, rows, nextId, sync, req>>
    BY DEF Elsewhere, AddedElsewhere, EditedElsewhere, RemovedElsewhere,
           ZoneAddedElsewhere, ZoneRemovedElsewhere, database
<1>2. ops' \in 0..MaxOps
    BY <1>1, BudgetType
<1>3. ASSUME NEW r \in Record, NEW c \in Content, AddedElsewhere(r, c) \/ EditedElsewhere(r, c)
      PROVE  TypeOK'
  <2>1. Accept(r, c)
    BY <1>3 DEF AddedElsewhere, EditedElsewhere
  <2>2. QED
    BY <1>1, <1>2, <2>1, AcceptType DEF TypeOK
<1>4. ASSUME NEW r \in Record, RemovedElsewhere(r) PROVE TypeOK'
    BY <1>1, <1>2, <1>4, ForgetType DEF TypeOK, RemovedElsewhere
<1>5. ASSUME NEW z \in Zone, ZoneAddedElsewhere(z) PROVE TypeOK'
  <2>1. cfZone' \in [Zone -> {"unborn", "live", "gone"}]
    BY <1>5 DEF TypeOK, ZoneAddedElsewhere
  <2>2. QED
    BY <1>1, <1>2, <1>5, <2>1 DEF TypeOK, ZoneAddedElsewhere
<1>6. ASSUME NEW z \in Zone, ZoneRemovedElsewhere(z) PROVE TypeOK'
    BY <1>1, <1>2, <1>6, ForgetType DEF TypeOK, ZoneRemovedElsewhere
<1>7. QED
    BY <1>3, <1>4, <1>5, <1>6 DEF Elsewhere

LEMMA EnterType ==
    ASSUME TypeOK, NEW s \in Syncer, NEW id \in Nat, Enter(s, id)
    PROVE  /\ sync' \in [Syncer -> Sync]
           /\ steady' \in [Syncer -> SUBSET Record] /\ slipped' \in [Syncer -> SUBSET Record]
<1>1. [NoSync EXCEPT !.at = "begin", !.acct = id] \in Sync
    BY DEF NoSync, Sync, Write
<1>2. QED
    BY <1>1 DEF Enter, TypeOK, Present

LEMMA LeaveType ==
    ASSUME TypeOK, NEW s \in Syncer, Leave(s)
    PROVE  /\ sync' \in [Syncer -> Sync]
           /\ steady' \in [Syncer -> SUBSET Record] /\ slipped' \in [Syncer -> SUBSET Record]
<1>1. NoSync \in Sync
    BY DEF NoSync, Sync, Write
<1>2. QED
    BY <1>1 DEF Leave, TypeOK

LEMMA AccountType ==
    ASSUME TypeOK, NEW s \in Syncer, DeleteAccount \/ AddAccount(s) \/ BeginSync(s)
    PROVE  TypeOK'
<1>1. CASE DeleteAccount
  <2>1. zoneRow' \in [Zone -> Nat] /\ rows' \in [Record -> Row \cup {NoRow}]
    BY <1>1 DEF DeleteAccount
  <2>2. account' \in Nat /\ ops' \in 0..MaxOps
    BY <1>1, BudgetType DEF DeleteAccount
  <2>3. QED
    BY <1>1, <2>1, <2>2 DEF DeleteAccount, TypeOK, cloudflare
<1>2. CASE AddAccount(s)
  <2>1. PICK id \in FreeAfter({account}) : account' = id /\ Enter(s, id)
    BY <1>2 DEF AddAccount
  <2>2. id \in Nat /\ account' \in Nat /\ nextId' \in Nat \ {0}
    BY <1>2, <2>1, FreeAfterType DEF AddAccount, TypeOK
  <2>3. QED
    BY <1>2, <2>1, <2>2, EnterType DEF AddAccount, TypeOK
<1>3. CASE BeginSync(s)
    BY <1>3, EnterType DEF BeginSync, TypeOK, database
<1>4. QED
    BY <1>1, <1>2, <1>3

\* Reading changes nothing but the session that reads.
LEMMA ReadType ==
    ASSUME TypeOK, NEW s \in Syncer, NEW v \in Sync, sync' = [sync EXCEPT ![s] = v],
           UNCHANGED <<cloudflare, database, req, ops>>
    PROVE  TypeOK'
<1>1. sync' \in [Syncer -> Sync]
    BY DEF TypeOK
<1>2. QED
    BY <1>1 DEF TypeOK, cloudflare, database

LEMMA SyncReadType ==
    ASSUME TypeOK, NEW s \in Syncer,
           \/ SyncListZones(s) \/ SyncReadZones(s) \/ SyncReadRows(s)
           \/ \E z \in Zone : SyncListPage(s, z)
    PROVE  TypeOK'
<1>1. sync[s] \in Sync
    BY DEF TypeOK
<1>2. CASE SyncListZones(s)
  <2> DEFINE n == sync[s].page
             at == IF LastPage(LiveZone, n) THEN "zones" ELSE "begin"
             seen == sync[s].seen \cup Page(LiveZone, n)
             again == sync[s].again \cup (Page(LiveZone, n) \cap sync[s].seen)
             next == IF LastPage(LiveZone, n) THEN 1 ELSE n + 1
             v == [sync[s] EXCEPT !.at = at, !.seen = seen, !.again = again, !.page = next]
  <2>1. Page(LiveZone, n) \subseteq Zone
    BY DEF Page, LiveZone
  <2>2. seen \subseteq Zone /\ again \subseteq Zone /\ at \in {"zones", "begin"} /\ next \in Nat
    BY <1>1, <2>1 DEF Sync
  <2>3. UNCHANGED <<cloudflare, database, req, ops>>
    BY <1>2 DEF SyncListZones
  <2>4. sync' = [sync EXCEPT ![s].at = at, ![s].seen = seen, ![s].again = again,
                             ![s].page = next]
    BY <1>2 DEF SyncListZones
  <2> HIDE DEF at, seen, again, next
  <2>5. v \in Sync
    BY <1>1, <2>2 DEF Sync
  <2>6. sync' = [sync EXCEPT ![s] = v]
    BY <2>4
  <2> HIDE DEF v
  <2>7. QED
    BY <2>3, <2>5, <2>6, ReadType
<1>3. CASE SyncReadZones(s)
  <2> DEFINE known == IF account = sync[s].acct THEN zoneRow ELSE sync[s].known
             v == [sync[s] EXCEPT !.at = NextStop(sync[s].seen), !.known = known,
                                  !.todo = sync[s].seen]
  <2>1. v \in Sync
    BY <1>1 DEF Sync, NextStop, TypeOK
  <2>2. sync' = [sync EXCEPT ![s] = v] /\ UNCHANGED <<cloudflare, database, req, ops>>
    BY <1>3 DEF SyncReadZones
  <2> HIDE DEF v
  <2>3. QED
    BY <2>1, <2>2, ReadType
<1>4. ASSUME NEW z \in Zone, SyncListPage(s, z) PROVE TypeOK'
  <2> DEFINE n == sync[s].page
             page == Page(InZone(z), n)
             at == IF LastPage(InZone(z), n) THEN "rows" ELSE "list"
             next == IF LastPage(InZone(z), n) THEN 1 ELSE n + 1
             listed == [r \in Record |-> IF r \in page THEN cf[r] ELSE sync[s].listed[r]]
             twice == sync[s].twice \cup {r \in page : sync[s].listed[r] # "none"}
             v == [sync[s] EXCEPT !.at = at, !.zone = z, !.page = next,
                                  !.listed = listed, !.twice = twice]
  <2>1. page \subseteq Present
    BY DEF Page, InZone
  <2>2. listed \in [Record -> Content \cup {"none"}]
    BY <1>1, <2>1 DEF Sync, Present
  <2>3. twice \subseteq Record
    BY <1>1, <2>1 DEF Sync, Present
  <2>4. at \in {"rows", "list"} /\ next \in Nat
    BY <1>1 DEF Sync
  <2>5. /\ sync' = [sync EXCEPT ![s] = v]
        /\ UNCHANGED <<cloudflare, database, req, ops>>
    <3>1. sync' = [sync EXCEPT ![s].at = at, ![s].zone = z, ![s].page = next,
                               ![s].listed = listed, ![s].twice = twice]
      BY <1>4 DEF SyncListPage
    <3>2. UNCHANGED <<cloudflare, database, req, ops>>
      BY <1>4 DEF SyncListPage
    <3> HIDE DEF at, next, listed, twice
    <3>3. sync' = [sync EXCEPT ![s] = v]
      BY <3>1
    <3>4. QED
      BY <3>2, <3>3
  <2>6. v \in Sync
    <3> HIDE DEF listed, twice, at, next
    <3>1. QED
      BY <1>1, <2>2, <2>3, <2>4 DEF Sync
  <2> HIDE DEF v
  <2>7. QED
    BY <2>5, <2>6, ReadType
<1>5. CASE SyncReadRows(s)
  <2> DEFINE z == sync[s].zone
             known == z \in Zone /\ sync[s].known[z] # 0 /\ zoneRow[z] = sync[s].known[z]
             plan == [r \in Record |->
                        IF ZoneOf[r] = z
                        THEN WriteFor(IF known THEN rows[r] ELSE NoRow, sync[s].listed[r])
                        ELSE sync[s].plan[r]]
             v == [sync[s] EXCEPT !.at = NextStop(sync[s].todo \ {z}),
                                  !.todo = sync[s].todo \ {z}, !.zone = 0,
                                  !.listed = [r \in Record |-> "none"], !.plan = plan]
  <2>1. plan \in [Record -> Write]
    <3>1. \A r \in Record : /\ (IF known THEN rows[r] ELSE NoRow) \in Row \cup {NoRow}
                            /\ sync[s].listed[r] \in Content \cup {"none"}
                            /\ sync[s].plan[r] \in Write
      BY <1>1 DEF Sync, TypeOK
    <3> HIDE DEF known
    <3>2. QED
      BY <3>1, WriteForType
  <2>2. v \in Sync
    <3> HIDE DEF plan
    <3>1. QED
      BY <1>1, <2>1 DEF Sync, NextStop
  <2>3. sync' = [sync EXCEPT ![s] = v] /\ UNCHANGED <<cloudflare, database, req, ops>>
    BY <1>5 DEF SyncReadRows
  <2> HIDE DEF v
  <2>4. QED
    BY <2>2, <2>3, ReadType
<1>6. QED
    BY <1>2, <1>3, <1>4, <1>5

LEMMA SyncEndType ==
    ASSUME TypeOK, NEW s \in Syncer, SyncCommit(s) \/ SyncFails(s)
    PROVE  TypeOK'
<1>1. /\ sync' \in [Syncer -> Sync]
      /\ steady' \in [Syncer -> SUBSET Record] /\ slipped' \in [Syncer -> SUBSET Record]
    BY LeaveType DEF SyncCommit, SyncFails
<1>2. CASE SyncCommit(s)
  <2>1. zoneRow' \in [Zone -> Nat]
    <3>1. PICK base \in FreeAfter({zoneRow[z] : z \in Zone}) :
            zoneRow' = [z \in Zone |->
                         IF z \in NewZones(s) THEN base + Before(NewZones(s), z)
                         ELSE IF z \in StaleZones(s) THEN 0 ELSE zoneRow[z]]
      BY <1>2 DEF SyncCommit
    <3>2. \A z \in Zone : base + Before(NewZones(s), z) \in Nat
      BY ZoneRowType
    <3>3. QED
      BY <3>1, <3>2 DEF TypeOK
  <2>2. rows' \in [Record -> Row \cup {NoRow}]
    <3>1. PICK base \in FreeIds :
            rows' = [r \in Record |->
                       IF ZoneOf[r] \in StaleZones(s) THEN NoRow ELSE Written(s, base, r)]
      BY <1>2 DEF SyncCommit
    <3>2. \A r \in Record : Written(s, base, r) \in Row \cup {NoRow}
      BY FreeIdType, WrittenType
    <3>3. QED
      BY <3>1, <3>2
  <2>3. nextId' \in Nat \ {0}
    <3>1. Cardinality(Inserted(s)) \in Nat
      BY CountIsNat DEF Inserted
    <3>2. Cardinality(NewZones(s)) \in Nat
      <4>1. NewZones(s) \subseteq Zone
        BY DEF NewZones, TypeOK, Sync
      <4>2. QED
        BY <4>1, FS_Subset, FS_CardinalityType
    <3>3. QED
      BY <1>2, <3>1, <3>2 DEF SyncCommit, TypeOK
  <2>4. QED
    BY <1>1, <1>2, <2>1, <2>2, <2>3 DEF SyncCommit, TypeOK
<1>3. CASE SyncFails(s)
    BY <1>1, <1>3 DEF SyncFails, TypeOK, database
<1>4. QED
    BY <1>2, <1>3

\* A request is told apart by its op.
LEMMA ReqType ==
    ASSUME TypeOK, NEW w \in Worker
    PROVE  /\ req[w].op = "create" => req[w] \in CreateReq
           /\ req[w].op = "created" => req[w] \in CreatedReq
           /\ req[w].op \in {"update", "updated"} => req[w] \in UpdateReq
           /\ req[w].op = "delete" => req[w] \in DeleteReq
<1>1. req[w] \in Req
    BY DEF TypeOK
<1>2. QED
    BY <1>1 DEF Req, NoReq, CreateReq, CreatedReq, UpdateReq, DeleteReq

LEMMA AskType ==
    ASSUME TypeOK, NEW w \in Worker, NEW v \in Req, Ask(w, v)
    PROVE  req' \in [Worker -> Req]
BY DEF TypeOK, Ask

LEMMA RequestStartType == ASSUME TypeOK, NEW w \in Worker, RequestStart(w) PROVE TypeOK'
<1>1. ASSUME NEW z \in Zone, NEW c \in Content, NEW k \in Comment, CreateStart(w, z, c, k)
      PROVE  TypeOK'
  <2> DEFINE v == [op |-> "create", zone |-> z, zid |-> zoneRow[z], content |-> c, comment |-> k]
  <2>1. v \in Req
    BY <1>1 DEF CreateStart, TypeOK, Req, CreateReq
  <2>2. Ask(w, v) /\ Budget /\ UNCHANGED <<cloudflare, database, sync>>
    BY <1>1 DEF CreateStart
  <2> HIDE DEF v
  <2>3. QED
    BY <2>1, <2>2, AskType, BudgetType DEF TypeOK, cloudflare, database
<1>2. ASSUME NEW r \in Record, NEW c \in Content, NEW k \in Comment, UpdateStart(w, r, c, k)
      PROVE  TypeOK'
  <2> DEFINE v == [op |-> "update", rec |-> r, old |-> rows[r], content |-> c, comment |-> k]
  <2>1. v \in Req
    BY <1>2, CachedRowType DEF UpdateStart, Req, UpdateReq
  <2>2. Ask(w, v) /\ Budget /\ UNCHANGED <<cloudflare, database, sync>>
    BY <1>2 DEF UpdateStart
  <2> HIDE DEF v
  <2>3. QED
    BY <2>1, <2>2, AskType, BudgetType DEF TypeOK, cloudflare, database
<1>3. ASSUME NEW R \in SUBSET Record, DeleteStart(w, R) PROVE TypeOK'
  <2> DEFINE ids == [r \in Record |-> IF r \in R THEN rows[r].id ELSE 0]
             v == [op |-> "delete", todo |-> R, gone |-> {}, ids |-> ids]
  <2>1. ids \in [Record -> Nat]
    BY DEF TypeOK, Row, NoRow
  <2>2. v \in Req
    BY <2>1 DEF Req, DeleteReq
  <2>3. Ask(w, v) /\ Budget /\ UNCHANGED <<cloudflare, database, sync>>
    BY <1>3 DEF DeleteStart
  <2> HIDE DEF v
  <2>4. QED
    BY <2>2, <2>3, AskType, BudgetType DEF TypeOK, cloudflare, database
<1>4. QED
    BY <1>1, <1>2, <1>3 DEF RequestStart

LEMMA CreateType ==
    ASSUME TypeOK, NEW w \in Worker,
           \/ \E r \in Record, answered \in BOOLEAN : CreateRemote(w, r, answered)
           \/ CreateCommit(w)
    PROVE  TypeOK'
<1>1. ASSUME NEW r \in Record, NEW answered \in BOOLEAN, CreateRemote(w, r, answered)
      PROVE  TypeOK'
  <2> DEFINE v == [op |-> "created", rec |-> r, zid |-> req[w].zid,
                   content |-> req[w].content, comment |-> req[w].comment]
  <2>1. req[w] \in CreateReq
    BY <1>1, ReqType DEF CreateRemote
  <2>2. v \in Req /\ NoReq \in Req /\ req[w].content \in Content
    BY <2>1 DEF CreateReq, CreatedReq, Req
  <2>3. /\ Ask(w, IF answered THEN v ELSE NoReq) /\ Accept(r, req[w].content)
        /\ UNCHANGED <<database, sync, ops>>
    BY <1>1 DEF CreateRemote
  <2> HIDE DEF v
  <2>4. QED
    BY <2>2, <2>3, AskType, AcceptType DEF TypeOK, database
<1>2. CASE CreateCommit(w)
  <2>1. req[w] \in CreatedReq
    BY <1>2, ReqType DEF CreateCommit
  <2>2. PICK id \in FreeIds :
          rows' = [rows EXCEPT ![req[w].rec] = [id |-> id, content |-> req[w].content,
                                                comment |-> req[w].comment]]
    BY <1>2 DEF CreateCommit
  <2>3. rows' \in [Record -> Row \cup {NoRow}]
    BY <2>1, <2>2, FreeIdType DEF TypeOK, CreatedReq, Row
  <2>4. NoReq \in Req /\ nextId' \in Nat \ {0} /\ Ask(w, NoReq)
    BY <1>2 DEF CreateCommit, Req, TypeOK
  <2>5. QED
    BY <1>2, <2>3, <2>4, AskType DEF CreateCommit, TypeOK, cloudflare
<1>3. QED
    BY <1>1, <1>2

\* An update changes the content and the comment of a row, never its id.
LEMMA EditedType ==
    ASSUME NEW row \in Row, NEW u \in UpdateReq
    PROVE  Edited(row, u) \in Row /\ Edited(row, u).id = row.id
BY DEF Edited, Row, UpdateReq

LEMMA UpdateType ==
    ASSUME TypeOK, NEW w \in Worker,
           \/ \E answered \in BOOLEAN : UpdateRemote(w, answered)
           \/ UpdateCommit(w)
    PROVE  TypeOK'
<1>1. ASSUME NEW answered \in BOOLEAN, UpdateRemote(w, answered) PROVE TypeOK'
  <2> DEFINE v == [req[w] EXCEPT !.op = "updated"]
  <2>1. req[w] \in UpdateReq
    BY <1>1, ReqType DEF UpdateRemote
  <2>2. v \in Req /\ NoReq \in Req /\ req[w].content \in Content /\ req[w].rec \in Record
    BY <2>1 DEF UpdateReq, Req
  <2>3. /\ Ask(w, IF answered THEN v ELSE NoReq) /\ Accept(req[w].rec, req[w].content)
        /\ UNCHANGED <<database, sync, ops>>
    BY <1>1 DEF UpdateRemote
  <2> HIDE DEF v
  <2>4. QED
    BY <2>2, <2>3, AskType, AcceptType DEF TypeOK, database
<1>2. CASE UpdateCommit(w)
  <2> DEFINE hit == {q \in Record : rows[q].id = req[w].old.id}
  <2>1. req[w] \in UpdateReq
    BY <1>2, ReqType DEF UpdateCommit
  <2>2. rows' = [q \in Record |-> IF q \in hit THEN Edited(rows[q], req[w]) ELSE rows[q]]
    BY <1>2 DEF UpdateCommit
  <2>3. \A q \in hit : rows[q] \in Row
    BY <2>1, CachedRowType DEF UpdateReq, Row, Cached
  <2>4. rows' \in [Record -> Row \cup {NoRow}]
    BY <2>1, <2>2, <2>3, EditedType DEF TypeOK
  <2>5. NoReq \in Req /\ Ask(w, NoReq)
    BY <1>2 DEF UpdateCommit, Req
  <2>6. QED
    BY <1>2, <2>4, <2>5, AskType DEF UpdateCommit, TypeOK, cloudflare
<1>3. QED
    BY <1>1, <1>2

LEMMA DeleteType ==
    ASSUME TypeOK, NEW w \in Worker,
           \/ \E r \in Record, answered \in BOOLEAN : DeleteRemote(w, r, answered)
           \/ \E r \in Record : DeleteRefused(w, r)
           \/ DeleteCommit(w)
    PROVE  TypeOK'
<1>1. ASSUME NEW r \in Record, NEW answered \in BOOLEAN, DeleteRemote(w, r, answered)
      PROVE  TypeOK'
  <2> DEFINE v == [req[w] EXCEPT !.todo = @ \ {r},
                                 !.gone = IF answered THEN @ \cup {r} ELSE @]
  <2>1. req[w] \in DeleteReq
    BY <1>1, ReqType DEF DeleteRemote
  <2>2. v \in Req
    BY <2>1 DEF DeleteReq, Req
  <2>3. Ask(w, v) /\ Forget({r}, {}) /\ UNCHANGED <<database, sync, ops>>
    BY <1>1 DEF DeleteRemote
  <2> HIDE DEF v
  <2>4. QED
    BY <2>2, <2>3, AskType, ForgetType DEF TypeOK, database
<1>2. ASSUME NEW r \in Record, DeleteRefused(w, r) PROVE TypeOK'
  <2> DEFINE v == [req[w] EXCEPT !.todo = @ \ {r}]
  <2>1. req[w] \in DeleteReq
    BY <1>2, ReqType DEF DeleteRefused
  <2>2. v \in Req
    BY <2>1 DEF DeleteReq, Req
  <2>3. Ask(w, v) /\ UNCHANGED <<cloudflare, database, sync, ops>>
    BY <1>2 DEF DeleteRefused
  <2> HIDE DEF v
  <2>4. QED
    BY <2>2, <2>3, AskType DEF TypeOK, cloudflare, database
<1>3. CASE DeleteCommit(w)
  <2>1. rows' \in [Record -> Row \cup {NoRow}]
    BY <1>3 DEF DeleteCommit, TypeOK
  <2>2. NoReq \in Req /\ Ask(w, NoReq)
    BY <1>3 DEF DeleteCommit, Req
  <2>3. QED
    BY <1>3, <2>1, <2>2, AskType DEF DeleteCommit, TypeOK, cloudflare
<1>4. QED
    BY <1>1, <1>2, <1>3

LEMMA TypeStep == TypeOK /\ [Next]_vars => TypeOK'
<1> SUFFICES ASSUME TypeOK, [Next]_vars PROVE TypeOK'
    OBVIOUS
<1>1. CASE Elsewhere
    BY <1>1, ElsewhereType
<1>2. Loop \in Syncer
    OBVIOUS
<1>3. CASE DeleteAccount
    BY <1>2, <1>3, AccountType
<1>4. ASSUME NEW s \in Syncer, AddAccount(s) \/ BeginSync(s) \/ SyncStep(s) PROVE TypeOK'
    BY <1>4, AccountType, SyncReadType, SyncEndType DEF SyncStep
<1>5. ASSUME NEW w \in Worker, RequestStart(w) PROVE TypeOK'
    BY <1>5, RequestStartType
<1>6. ASSUME NEW w \in Worker, RequestStep(w) PROVE TypeOK'
  <2>1. CASE RequestFails(w)
    <3>1. NoReq \in Req /\ Ask(w, NoReq)
      BY <2>1 DEF RequestFails, Req
    <3>2. QED
      BY <2>1, <3>1, AskType DEF RequestFails, TypeOK, cloudflare, database
  <2>2. QED
    BY <1>6, <2>1, CreateType, UpdateType, DeleteType DEF RequestStep
<1>7. CASE UNCHANGED vars
    BY <1>7 DEF vars, TypeOK
<1>8. QED
    BY <1>1, <1>3, <1>4, <1>5, <1>6, <1>7 DEF Next

\* Every variable keeps its type, for all records, zones, sessions and bounds.
THEOREM TypeCorrect == Spec => []TypeOK
<1>1. QED
    BY InitType, TypeStep, PTL DEF Spec

-----------------------------------------------------------------------------
(* No orphan rows: what a synchronization inserts hangs below a zone it saw. *)

\* The same, as a predicate of one session's state.
WithinSeen(v) ==
    /\ v.at # "idle" => v.acct # 0
    /\ v.todo \subseteq v.seen
    /\ v.at = "rows" => v.zone \in v.todo
    /\ \A r \in Record : v.plan[r].kind = "insert" => ZoneOf[r] \in v.seen
    /\ v.at \in {"begin", "zones"} => v.todo = {} /\ \A r \in Record : v.plan[r].kind # "insert"

LEMMA SeenPerSession ==
    /\ SyncStaysWithinSeen <=> \A s \in Syncer : WithinSeen(sync[s])
    /\ SyncStaysWithinSeen' <=> \A s \in Syncer : WithinSeen(sync'[s])
BY DEF SyncStaysWithinSeen, WithinSeen, Inserted

LEMMA OneSession ==
    ASSUME TypeOK, SyncStaysWithinSeen, NEW s \in Syncer, NEW v,
           sync' = [sync EXCEPT ![s] = v], WithinSeen(v)
    PROVE  SyncStaysWithinSeen'
<1>1. \A t \in Syncer : WithinSeen(sync'[t])
    BY SeenPerSession DEF TypeOK
<1>2. QED
    BY <1>1, SeenPerSession

LEMMA IdleWithinSeen ==
    /\ WithinSeen(NoSync)
    /\ \A id \in Nat \ {0} : WithinSeen([NoSync EXCEPT !.at = "begin", !.acct = id])
BY DEF WithinSeen, NoSync, NoWrite

LEMMA SyncStepWithinSeen ==
    ASSUME TypeOK, SyncStaysWithinSeen, NEW s \in Syncer, SyncStep(s)
    PROVE  SyncStaysWithinSeen'
<1>1. /\ sync \in [Syncer -> Sync] /\ sync[s] \in Sync /\ WithinSeen(sync[s])
    BY SeenPerSession DEF TypeOK
<1> DEFINE v == sync'[s]
<1>2. CASE SyncListZones(s)
  <2>1. /\ sync' = [sync EXCEPT ![s] = v]
        /\ v.at \in {"begin", "zones"} /\ v.acct = sync[s].acct /\ v.todo = sync[s].todo
        /\ v.plan = sync[s].plan /\ sync[s].at = "begin"
    BY <1>1, <1>2 DEF SyncListZones, Sync
  <2> HIDE DEF v
  <2>2. /\ sync[s].acct # 0 /\ v.todo = {}
        /\ \A r \in Record : v.plan[r].kind # "insert"
    BY <1>1, <2>1 DEF WithinSeen
  <2>3. WithinSeen(v)
    BY <2>1, <2>2 DEF WithinSeen
  <2>4. QED
    BY <2>1, <2>3, OneSession
<1>3. CASE SyncReadZones(s)
  <2>1. /\ sync' = [sync EXCEPT ![s] = v]
        /\ v.at = NextStop(sync[s].seen) /\ v.acct = sync[s].acct /\ v.todo = sync[s].seen
        /\ v.seen = sync[s].seen /\ v.plan = sync[s].plan /\ sync[s].at = "zones"
    BY <1>1, <1>3 DEF SyncReadZones, Sync
  <2> HIDE DEF v
  <2>2. QED
    BY <1>1, <2>1, OneSession DEF WithinSeen, NextStop
<1>4. ASSUME NEW z \in Zone, SyncListPage(s, z) PROVE SyncStaysWithinSeen'
  <2>1. /\ sync' = [sync EXCEPT ![s] = v]
        /\ v.at \in {"rows", "list"} /\ v.zone = z /\ z \in v.todo
        /\ v.todo = sync[s].todo /\ v.seen = sync[s].seen /\ v.plan = sync[s].plan
        /\ v.acct = sync[s].acct /\ sync[s].at = "list"
    BY <1>1, <1>4 DEF SyncListPage, Sync
  <2> HIDE DEF v
  <2>2. QED
    BY <1>1, <2>1, OneSession DEF WithinSeen
<1>5. CASE SyncReadRows(s)
  <2>1. /\ sync' = [sync EXCEPT ![s] = v]
        /\ v.at = NextStop(v.todo) /\ v.acct = sync[s].acct /\ v.seen = sync[s].seen
        /\ v.todo = sync[s].todo \ {sync[s].zone} /\ sync[s].at = "rows"
    BY <1>1, <1>5 DEF SyncReadRows, Sync
  <2>2. \A r \in Record : ZoneOf[r] # sync[s].zone => v.plan[r] = sync[s].plan[r]
    BY <1>1, <1>5 DEF SyncReadRows, Sync
  <2> HIDE DEF v
  <2>3. QED
    BY <1>1, <2>1, <2>2, OneSession DEF WithinSeen, NextStop
<1>6. CASE SyncCommit(s) \/ SyncFails(s)
    BY <1>6, IdleWithinSeen, OneSession DEF SyncCommit, SyncFails, Leave
<1>7. QED
    BY <1>2, <1>3, <1>4, <1>5, <1>6 DEF SyncStep

LEMMA SeenStep ==
    ASSUME TypeOK, SyncStaysWithinSeen, [Next]_vars
    PROVE  SyncStaysWithinSeen'
<1>1. ASSUME sync' = sync PROVE SyncStaysWithinSeen'
    BY <1>1, SeenPerSession
<1>2. CASE Elsewhere \/ DeleteAccount \/ UNCHANGED vars
    BY <1>1, <1>2 DEF Elsewhere, AddedElsewhere, EditedElsewhere, RemovedElsewhere,
       ZoneAddedElsewhere, ZoneRemovedElsewhere, DeleteAccount, vars
<1>3. ASSUME NEW s \in Syncer, AddAccount(s) \/ BeginSync(s) PROVE SyncStaysWithinSeen'
  <2>1. \E id \in Nat \ {0} : Enter(s, id)
    BY <1>3, FreeAfterType DEF AddAccount, BeginSync, TypeOK
  <2>2. QED
    BY <2>1, IdleWithinSeen, OneSession DEF Enter
<1>4. ASSUME NEW s \in Syncer, SyncStep(s) PROVE SyncStaysWithinSeen'
    BY <1>4, SyncStepWithinSeen
<1>5. ASSUME NEW w \in Worker, RequestStart(w) \/ RequestStep(w) PROVE SyncStaysWithinSeen'
    BY <1>1, <1>5 DEF RequestStart, RequestStep, CreateStart, UpdateStart, DeleteStart,
       CreateRemote, CreateCommit, UpdateRemote, UpdateCommit, DeleteRemote, DeleteRefused,
       DeleteCommit, RequestFails
<1>6. QED
    BY <1>2, <1>3, <1>4, <1>5 DEF Next

LEMMA CommitNoOrphan ==
    ASSUME IInv, NEW s \in Syncer, SyncCommit(s)
    PROVE  NoOrphanRows'
<1>0. /\ account = sync[s].acct /\ account' = account /\ account # 0
      /\ \E base \in FreeAfter({zoneRow[z] : z \in Zone}) :
           zoneRow' = [z \in Zone |->
                        IF z \in NewZones(s) THEN base + Before(NewZones(s), z)
                        ELSE IF z \in StaleZones(s) THEN 0 ELSE zoneRow[z]]
    BY DEF SyncCommit, Applies, IInv, SyncStaysWithinSeen
<1>1. /\ account' # 0
      /\ \A z \in Zone : IF z \in NewZones(s) THEN zoneRow'[z] # 0
                         ELSE IF z \in StaleZones(s) THEN zoneRow'[z] = 0
                         ELSE zoneRow'[z] = zoneRow[z]
    BY <1>0, ZoneRowType DEF IInv
<1>2. PICK base \in FreeIds :
        rows' = [r \in Record |->
                   IF ZoneOf[r] \in StaleZones(s) THEN NoRow ELSE Written(s, base, r)]
    BY DEF SyncCommit
<1>3. ASSUME NEW r \in Record, rows'[r].id # 0 PROVE zoneRow'[ZoneOf[r]] # 0
  <2>1. /\ ZoneOf[r] \in Zone /\ ZoneOf[r] \notin StaleZones(s)
        /\ Written(s, base, r).id # 0
    BY <1>2, <1>3 DEF NoRow
  <2>2. CASE r \in Inserted(s)
    <3>1. zoneRow[ZoneOf[r]] = sync[s].known[ZoneOf[r]] /\ ZoneOf[r] \in sync[s].seen
      BY <2>2 DEF SyncCommit, Applies, IInv, SyncStaysWithinSeen
    <3>2. QED
      BY <1>1, <2>1, <3>1 DEF NewZones
  <2>3. CASE r \notin Inserted(s)
    <3>1. zoneRow[ZoneOf[r]] # 0
      BY <2>1, <2>3, FreeIdType, WrittenType DEF IInv, NoOrphanRows
    <3>2. QED
      BY <1>1, <2>1, <3>1
  <2>4. QED
    BY <2>2, <2>3
<1>4. QED
    BY <1>1, <1>3 DEF NoOrphanRows, Cached

\* Apart from a synchronization, only an answered creation makes a row appear, and only
\* the removal of the account makes a zone's row disappear.
LEMMA NoOrphanStep == ASSUME IInv, [Next]_vars PROVE NoOrphanRows'
<1>1. ASSUME UNCHANGED <<account, zoneRow>>, \A r \in Cached' : r \in Cached
      PROVE  NoOrphanRows'
    BY <1>1 DEF IInv, NoOrphanRows
<1>2. CASE Elsewhere \/ UNCHANGED vars
    BY <1>1, <1>2 DEF Elsewhere, AddedElsewhere, EditedElsewhere, RemovedElsewhere,
       ZoneAddedElsewhere, ZoneRemovedElsewhere, database, vars, Cached
<1>3. CASE DeleteAccount
    BY <1>3 DEF DeleteAccount, NoOrphanRows, Cached, NoRow
<1>4. ASSUME NEW s \in Syncer, AddAccount(s) PROVE NoOrphanRows'
    BY <1>4, FreeAfterType DEF AddAccount, NoOrphanRows, Cached, IInv, TypeOK
<1>5. ASSUME NEW s \in Syncer, BeginSync(s) \/ SyncStep(s), ~SyncCommit(s)
      PROVE  NoOrphanRows'
  <2>1. UNCHANGED <<account, zoneRow, rows>>
    BY <1>5 DEF BeginSync, SyncStep, SyncListZones, SyncReadZones, SyncListPage,
       SyncReadRows, SyncFails, database
  <2>2. QED
    BY <1>1, <2>1 DEF Cached
<1>6. ASSUME NEW w \in Worker, CreateCommit(w) PROVE NoOrphanRows'
  <2>1. req[w] \in CreatedReq
    BY <1>6, ReqType DEF CreateCommit, IInv
  <2>2. /\ UNCHANGED <<account, zoneRow>> /\ zoneRow[ZoneOf[req[w].rec]] # 0
        /\ \A r \in Record : r # req[w].rec => rows'[r] = rows[r]
    BY <1>6, <2>1 DEF CreateCommit, CreatedReq, IInv, TypeOK
  <2>3. QED
    BY <2>2 DEF IInv, NoOrphanRows, Cached
<1>7. ASSUME NEW w \in Worker, UpdateCommit(w) PROVE NoOrphanRows'
  <2>1. req[w] \in UpdateReq
    BY <1>7, ReqType DEF UpdateCommit, IInv
  <2>2. \A r \in Record : rows'[r].id # 0 => rows[r].id # 0
    <3>1. req[w].old.id # 0
      BY <2>1 DEF UpdateReq, Row
    <3>2. QED
      BY <1>7, <3>1 DEF UpdateCommit
  <2>3. QED
    BY <1>1, <1>7, <2>2 DEF UpdateCommit, Cached
<1>8. ASSUME NEW w \in Worker, DeleteCommit(w) PROVE NoOrphanRows'
    BY <1>1, <1>8 DEF DeleteCommit, Cached, NoRow
<1>9. ASSUME NEW w \in Worker, RequestStart(w) \/ RequestStep(w),
             ~CreateCommit(w), ~UpdateCommit(w), ~DeleteCommit(w)
      PROVE  NoOrphanRows'
  <2>1. UNCHANGED <<account, zoneRow, rows>>
    BY <1>9 DEF RequestStart, RequestStep, CreateStart, UpdateStart, DeleteStart,
       CreateRemote, UpdateRemote, DeleteRemote, DeleteRefused, RequestFails, database
  <2>2. QED
    BY <1>1, <2>1 DEF Cached
<1>10. QED
    BY <1>2, <1>3, <1>4, <1>5, <1>6, <1>7, <1>8, <1>9, CommitNoOrphan DEF Next

\* No record row without its zone's row and no zone row without the account, whatever
\* synchronizations, requests and account removals interleave.
THEOREM RowsHaveParents == Spec => []NoOrphanRows
<1>1. Init => IInv
  <2>1. Init => NoOrphanRows
    BY DEF Init, NoOrphanRows, Cached, NoRow
  <2>2. Init => SyncStaysWithinSeen
    BY IdleWithinSeen, SeenPerSession DEF Init
  <2>3. QED
    BY <2>1, <2>2, InitType DEF IInv
<1>2. IInv /\ [Next]_vars => IInv'
    BY TypeStep, SeenStep, NoOrphanStep DEF IInv
<1>3. IInv => NoOrphanRows
    BY DEF IInv
<1>4. QED
    BY <1>1, <1>2, <1>3, PTL DEF Spec

=============================================================================
