----------------------------- MODULE RecordCache -----------------------------
(***************************************************************************)
(* The local cache of one Cloudflare account: account, zone and record     *)
(* rows, the synchronization that copies Cloudflare's listing into them    *)
(* (app/services.py) and the request handlers that write to Cloudflare     *)
(* first and to the cache second (app/routes.py).  Every actor has its own *)
(* database session: what it reads is the committed state of that moment,  *)
(* what it writes becomes visible at its commit, and the commit fails when *)
(* a row it updates is gone or a unique or foreign key would be violated.  *)
(***************************************************************************)
EXTENDS Naturals, FiniteSets

CONSTANTS
    Record,     \* DNS records Cloudflare ever has; it lists them in this order
    Zone,       \* zones Cloudflare ever has, listed in this order too
    ZoneOf,     \* the zone of each record
    Content,    \* what Cloudflare holds for a record (type, name, content, ...)
    Comment,    \* what only the cache holds for it (local comment, check flags)
    NoComment,  \* the value of a row that synchronization inserts
    Syncer,     \* sessions that may run sync_account
    Loop,       \* the one of the background loop
    Worker,     \* sessions of create, update and delete requests
    PageSize,   \* zones or records per page of a listing
    ReuseIds,   \* ids of rows: TRUE, SQLite rowids (max + 1); FALSE, a sequence
    MaxOps      \* bound on user requests and edits made outside the program

ASSUME ConstantsAssumption ==
    /\ Record \subseteq Nat /\ IsFiniteSet(Record)
    /\ Zone \subseteq Nat \ {0} /\ IsFiniteSet(Zone)
    /\ ZoneOf \in [Record -> Zone]
    /\ Content \cap {"unborn", "gone", "none"} = {}
    /\ NoComment \in Comment
    /\ Loop \in Syncer
    /\ PageSize \in Nat \ {0}
    /\ ReuseIds \in BOOLEAN
    /\ MaxOps \in Nat

VARIABLES
    cf,         \* Cloudflare's value of each record
    cfZone,     \* Cloudflare's zones
    account,    \* id of the account row, 0 when there is none
    zoneRow,    \* id of each zone's row, 0 when there is none
    rows,       \* each record's row
    nextId,     \* next value of the id sequences
    sync,       \* what each sync_account call has read and will write
    req,        \* what each request has read and will write
    ops,        \* user requests and outside edits so far
    held,       \* history: the values Cloudflare has ever held for a record
    steady,     \* history: records present in Cloudflare ever since a sync began
    slipped     \* history: those of them that slipped in front of the page it asks for

cloudflare == <<cf, cfZone, held, steady, slipped>>
database == <<account, zoneRow, rows, nextId>>
vars == <<cf, cfZone, account, zoneRow, rows, nextId, sync, req, ops, held, steady, slipped>>

NoRow == [id |-> 0, content |-> "none", comment |-> NoComment]
NoWrite == [kind |-> "keep", id |-> 0, content |-> "none"]
NoSync == [at |-> "idle", acct |-> 0, seen |-> {}, again |-> {},
           known |-> [z \in Zone |-> 0], todo |-> {}, zone |-> 0, page |-> 1,
           listed |-> [r \in Record |-> "none"], twice |-> {},
           plan |-> [r \in Record |-> NoWrite]]
NoReq == [op |-> "idle"]

Row == [id : Nat \ {0}, content : Content, comment : Comment]
Write ==
    {NoWrite}
      \cup [kind : {"insert"}, id : {0}, content : Content]
      \cup [kind : {"update"}, id : Nat \ {0}, content : Content \cup {"none"}]
      \cup [kind : {"delete"}, id : Nat \ {0}, content : {"none"}]
Sync == [at : {"idle", "begin", "zones", "list", "rows", "commit"},
         acct : Nat, seen : SUBSET Zone, again : SUBSET Zone, known : [Zone -> Nat],
         todo : SUBSET Zone, zone : Zone \cup {0}, page : Nat,
         listed : [Record -> Content \cup {"none"}], twice : SUBSET Record,
         plan : [Record -> Write]]
CreateReq == [op : {"create"}, zone : Zone, zid : Nat \ {0}, content : Content,
              comment : Comment]
CreatedReq == [op : {"created"}, rec : Record, zid : Nat \ {0}, content : Content,
               comment : Comment]
UpdateReq == [op : {"update", "updated"}, rec : Record, old : Row,
              content : Content, comment : Comment]
DeleteReq == [op : {"delete"}, ids : [Record -> Nat], todo : SUBSET Record,
              gone : SUBSET Record]
Req == {NoReq} \cup CreateReq \cup CreatedReq \cup UpdateReq \cup DeleteReq

Present == {r \in Record : cf[r] \in Content}
InZone(z) == {r \in Present : ZoneOf[r] = z}
LiveZone == {z \in Zone : cfZone[z] = "live"}
Cached == {r \in Record : rows[r].id # 0}

Init ==
    /\ cfZone \in [Zone -> {"unborn", "live"}]
    /\ cf \in [Record -> Content \cup {"unborn"}]
    /\ \A r \in Present : cfZone[ZoneOf[r]] = "live"
    /\ account = 0
    /\ zoneRow = [z \in Zone |-> 0]
    /\ rows = [r \in Record |-> NoRow]
    /\ nextId = 1
    /\ sync = [s \in Syncer |-> NoSync]
    /\ req = [w \in Worker |-> NoReq]
    /\ ops = 0
    /\ held = [r \in Record |-> {cf[r]} \cap Content]
    /\ steady = [s \in Syncer |-> {}]
    /\ slipped = [s \in Syncer |-> {}]

-----------------------------------------------------------------------------
(* Listings.  _paginate asks for one page after the other, and every page  *)
(* is cut from what there is at that moment.                               *)

Before(S, x) == Cardinality({y \in S : y < x})

Page(S, n) ==
    {x \in S : (n - 1) * PageSize <= Before(S, x) /\ Before(S, x) < n * PageSize}

\* Variant: the listing stops one page early.
LastPageEarly(S, n) == Cardinality(S) <= (n + 1) * PageSize
LastPage(S, n) == Cardinality(S) <= n * PageSize

\* When the records R and the zones Z go, a record or zone that s has still to read
\* moves in front of the page that s asks for next.
Slips(s, r, R, Z) ==
    LET read == (sync[s].page - 1) * PageSize
    IN  \/ /\ sync[s].at = "begin" /\ ZoneOf[r] \notin sync[s].seen
           /\ Before(LiveZone \ Z, ZoneOf[r]) < read
        \/ /\ sync[s].at = "list" /\ sync[s].zone = ZoneOf[r] /\ sync[s].listed[r] = "none"
           /\ Before(InZone(ZoneOf[r]) \ R, r) < read

-----------------------------------------------------------------------------
(* Cloudflare: what its API does to a record, and edits made elsewhere.    *)

Accept(r, c) ==
    /\ cf' = [cf EXCEPT ![r] = c]
    /\ held' = [held EXCEPT ![r] = @ \cup {c}]
    /\ UNCHANGED <<cfZone, steady, slipped>>

Forget(R, Z) ==
    /\ cf' = [r \in Record |-> IF r \in R THEN "gone" ELSE cf[r]]
    /\ cfZone' = [z \in Zone |-> IF z \in Z THEN "gone" ELSE cfZone[z]]
    /\ steady' = [s \in Syncer |-> steady[s] \ R]
    /\ slipped' = [s \in Syncer |->
                     (slipped[s] \cup {r \in steady[s] : Slips(s, r, R, Z)}) \ R]
    /\ UNCHANGED held

Budget == ops < MaxOps /\ ops' = ops + 1

AddedElsewhere(r, c) ==
    /\ Budget
    /\ cf[r] = "unborn" /\ cfZone[ZoneOf[r]] = "live"
    /\ Accept(r, c)
    /\ UNCHANGED <<database, sync, req>>

EditedElsewhere(r, c) ==
    /\ Budget
    /\ r \in Present /\ c # cf[r]
    /\ Accept(r, c)
    /\ UNCHANGED <<database, sync, req>>

RemovedElsewhere(r) ==
    /\ Budget
    /\ r \in Present
    /\ Forget({r}, {})
    /\ UNCHANGED <<database, sync, req>>

ZoneAddedElsewhere(z) ==
    /\ Budget
    /\ cfZone[z] = "unborn"
    /\ cfZone' = [cfZone EXCEPT ![z] = "live"]
    /\ UNCHANGED <<cf, held, steady, slipped, database, sync, req>>

ZoneRemovedElsewhere(z) ==
    /\ Budget
    /\ cfZone[z] = "live"
    /\ Forget(InZone(z), {z})
    /\ UNCHANGED <<database, sync, req>>

-----------------------------------------------------------------------------
(* sync_account: list the zones page by page, read their rows, then for    *)
(* every zone list its records page by page and read their rows, and write *)
(* it all at once.                                                         *)

Enter(s, id) ==
    /\ sync' = [sync EXCEPT ![s] = [NoSync EXCEPT !.at = "begin", !.acct = id]]
    /\ steady' = [steady EXCEPT ![s] = Present]
    /\ slipped' = [slipped EXCEPT ![s] = {}]

Leave(s) ==
    /\ sync' = [sync EXCEPT ![s] = NoSync]
    /\ steady' = [steady EXCEPT ![s] = {}]
    /\ slipped' = [slipped EXCEPT ![s] = {}]

\* The id of the next row of a table that holds these ids.
FreeAfter(ids) == IF ReuseIds
                  THEN {n \in {i + 1 : i \in ids} : \A i \in ids : i < n}
                  ELSE {nextId}

BeginSync(s) ==
    /\ sync[s].at = "idle" /\ account # 0
    /\ Enter(s, account)
    /\ UNCHANGED <<cf, cfZone, held, database, req, ops>>

\* The account is stored before its first synchronization runs.
AddAccount(s) ==
    /\ sync[s].at = "idle" /\ account = 0
    /\ \E id \in FreeAfter({account}) : account' = id /\ Enter(s, id)
    /\ nextId' = nextId + 1
    /\ UNCHANGED <<cf, cfZone, held, zoneRow, rows, req, ops>>

DeleteAccount ==
    /\ Budget
    /\ account # 0
    /\ account' = 0
    /\ zoneRow' = [z \in Zone |-> 0]
    /\ rows' = [r \in Record |-> NoRow]
    /\ UNCHANGED <<cloudflare, nextId, sync, req>>

SyncListZones(s) ==
    /\ sync[s].at = "begin"
    /\ LET n == sync[s].page
           page == Page(LiveZone, n)
           last == LastPage(LiveZone, n)
       IN  sync' = [sync EXCEPT ![s].at = IF last THEN "zones" ELSE "begin",
                                ![s].seen = @ \cup page,
                                ![s].again = @ \cup (page \cap sync[s].seen),
                                ![s].page = IF last THEN 1 ELSE n + 1]
    /\ UNCHANGED <<cloudflare, database, req, ops>>

NextStop(todo) == IF todo = {} THEN "commit" ELSE "list"

SyncReadZones(s) ==
    /\ sync[s].at = "zones"
    /\ sync' = [sync EXCEPT
                  ![s].at = NextStop(sync[s].seen),
                  ![s].known = IF account = sync[s].acct THEN zoneRow ELSE @,
                  ![s].todo = sync[s].seen]
    /\ UNCHANGED <<cloudflare, database, req, ops>>

SyncListPage(s, z) ==
    /\ sync[s].at = "list" /\ cfZone[z] = "live"
    /\ z \in sync[s].todo /\ sync[s].zone \in {0, z}
    /\ LET n == sync[s].page
           page == Page(InZone(z), n)
           last == LastPage(InZone(z), n)
           old == sync[s].listed
       IN  sync' = [sync EXCEPT
             ![s].at = IF last THEN "rows" ELSE "list",
             ![s].zone = z,
             ![s].page = IF last THEN 1 ELSE n + 1,
             ![s].listed = [r \in Record |-> IF r \in page THEN cf[r] ELSE old[r]],
             ![s].twice = @ \cup {r \in page : old[r] # "none"}]
    /\ UNCHANGED <<cloudflare, database, req, ops>>

\* Variant: rows that are no longer listed are left in place.
WriteForWithoutDelete(row, c) ==
    [kind |-> CASE c = "none" -> "keep"
                [] c # "none" /\ row.id = 0 -> "insert"
                [] c # "none" /\ row.id # 0 -> "update",
     id |-> IF c = "none" THEN 0 ELSE row.id,
     content |-> IF c = row.content THEN "none" ELSE c]

\* sync_zone and apply_remote_record: what the listing does to one row.  A column
\* that keeps its loaded value is not written; synced_at always is.
WriteFor(row, c) ==
    [kind |-> IF row.id = 0 THEN IF c = "none" THEN "keep" ELSE "insert"
                            ELSE IF c = "none" THEN "delete" ELSE "update",
     id |-> row.id,
     content |-> IF c = row.content THEN "none" ELSE c]

SyncReadRows(s) ==
    /\ sync[s].at = "rows"
    /\ LET z == sync[s].zone
           known == z \in Zone /\ sync[s].known[z] # 0 /\ zoneRow[z] = sync[s].known[z]
           listed == sync[s].listed
           todo == sync[s].todo \ {z}
       IN  sync' = [sync EXCEPT
             ![s].at = NextStop(todo),
             ![s].todo = todo,
             ![s].zone = 0,
             ![s].listed = [r \in Record |-> "none"],
             ![s].plan = [r \in Record |->
                IF ZoneOf[r] = z
                THEN WriteFor(IF known THEN rows[r] ELSE NoRow, listed[r])
                ELSE @[r]]]
    /\ UNCHANGED <<cloudflare, database, req, ops>>

Inserted(s) == {r \in Record : sync[s].plan[r].kind = "insert"}
NewZones(s) == {z \in sync[s].seen : sync[s].known[z] = 0}
StaleZones(s) == {z \in Zone \ sync[s].seen :
                    sync[s].known[z] # 0 /\ zoneRow[z] = sync[s].known[z]}
PlannedFor(s, kind, id) ==
    {q \in Record : sync[s].plan[q].kind = kind /\ sync[s].plan[q].id = id /\ id # 0}

\* The constraints of the schema, and UPDATEs that must find their row.  A zone or
\* record that is new and was listed twice would be inserted twice.
Applies(s) ==
    /\ account = sync[s].acct
    /\ \A z \in NewZones(s) : z \notin sync[s].again /\ zoneRow[z] = 0
    /\ \A r \in Inserted(s) :
         /\ r \notin sync[s].twice /\ rows[r].id = 0
         /\ zoneRow[ZoneOf[r]] = sync[s].known[ZoneOf[r]]
    /\ \A r \in Record : sync[s].plan[r].kind = "update" =>
         \E q \in Record : rows[q].id = sync[s].plan[r].id

FreeIds == FreeAfter({rows[r].id : r \in Record})

\* Variants: every column is written back, also the local comment; or the content
\* column is written although it did not change.
WrittenWithComment(s, base, r) ==
    LET id == rows[r].id
    IN  IF r \in Inserted(s)
        THEN [id |-> base, content |-> sync[s].plan[r].content, comment |-> NoComment]
        ELSE IF PlannedFor(s, "delete", id) # {} THEN NoRow
        ELSE IF PlannedFor(s, "update", id) = {} THEN rows[r]
        ELSE [rows[r] EXCEPT !.comment = NoComment]
WrittenUnchangedColumn(s, base, r) ==
    LET updates == PlannedFor(s, "update", rows[r].id)
    IN  IF r \notin Inserted(s) /\ updates # {}
        THEN [rows[r] EXCEPT !.content = sync[s].plan[CHOOSE q \in updates : TRUE].content]
        ELSE rows[r]

Updates(s, id) == {q \in PlannedFor(s, "update", id) : sync[s].plan[q].content # "none"}

Written(s, base, r) ==
    LET id == rows[r].id
    IN  IF r \in Inserted(s)
        THEN [id |-> base + Before(Inserted(s), r),
              content |-> sync[s].plan[r].content, comment |-> NoComment]
        ELSE IF PlannedFor(s, "delete", id) # {} THEN NoRow
        ELSE IF Updates(s, id) = {} THEN rows[r]
        ELSE [rows[r] EXCEPT !.content = sync[s].plan[CHOOSE q \in Updates(s, id) : TRUE].content]

SyncCommit(s) ==
    /\ sync[s].at = "commit"
    /\ Applies(s)
    /\ \E base \in FreeAfter({zoneRow[z] : z \in Zone}) :
         zoneRow' = [z \in Zone |->
                      IF z \in NewZones(s) THEN base + Before(NewZones(s), z)
                      ELSE IF z \in StaleZones(s) THEN 0 ELSE zoneRow[z]]
    /\ \E base \in FreeIds :
         rows' = [r \in Record |->
                    IF ZoneOf[r] \in StaleZones(s) THEN NoRow ELSE Written(s, base, r)]
    /\ nextId' = nextId + Cardinality(Inserted(s)) + Cardinality(NewZones(s))
    /\ Leave(s)
    /\ UNCHANGED <<cf, cfZone, held, account, req, ops>>

\* Cloudflare, the database or the process fails: whatever was read or flushed is
\* rolled back.  What is then recorded about the account is SyncLoop's subject.
SyncFails(s) ==
    /\ sync[s].at # "idle"
    /\ Leave(s)
    /\ UNCHANGED <<cf, cfZone, held, database, req, ops>>

-----------------------------------------------------------------------------
(* Requests: read the row, write to Cloudflare, write the cache.  A call   *)
(* Cloudflare executed but whose answer is lost is an error for the handler. *)

Ask(w, r) == req' = [req EXCEPT ![w] = r]

CreateStart(w, z, c, k) ==
    /\ Budget
    /\ req[w] = NoReq /\ zoneRow[z] # 0
    /\ Ask(w, [op |-> "create", zone |-> z, zid |-> zoneRow[z], content |-> c, comment |-> k])
    /\ UNCHANGED <<cloudflare, database, sync>>

CreateRemote(w, r, answered) ==
    /\ req[w].op = "create"
    /\ cf[r] = "unborn" /\ ZoneOf[r] = req[w].zone /\ cfZone[ZoneOf[r]] = "live"
    /\ Accept(r, req[w].content)
    /\ Ask(w, IF answered THEN [op |-> "created", rec |-> r, zid |-> req[w].zid,
                                content |-> req[w].content, comment |-> req[w].comment]
                          ELSE NoReq)
    /\ UNCHANGED <<database, sync, ops>>

\* Variant: foreign keys are not enforced (SQLite's default).
CreateCommitNoForeignKey(w) ==
    /\ req[w].op = "created"
    /\ rows[req[w].rec].id = 0
    /\ rows' = [rows EXCEPT ![req[w].rec] = [id |-> nextId, content |-> req[w].content,
                                            comment |-> req[w].comment]]
    /\ nextId' = nextId + 1
    /\ Ask(w, NoReq)
    /\ UNCHANGED <<cloudflare, account, zoneRow, sync, ops>>

CreateCommit(w) ==
    /\ req[w].op = "created"
    /\ LET r == req[w].rec
       IN  /\ zoneRow[ZoneOf[r]] = req[w].zid /\ rows[r].id = 0
           /\ \E id \in FreeIds :
                rows' = [rows EXCEPT ![r] = [id |-> id, content |-> req[w].content,
                                             comment |-> req[w].comment]]
    /\ nextId' = nextId + 1
    /\ Ask(w, NoReq)
    /\ UNCHANGED <<cloudflare, account, zoneRow, sync, ops>>

UpdateStart(w, r, c, k) ==
    /\ Budget
    /\ req[w] = NoReq /\ r \in Cached
    /\ Ask(w, [op |-> "update", rec |-> r, old |-> rows[r], content |-> c, comment |-> k])
    /\ UNCHANGED <<cloudflare, database, sync>>

UpdateRemote(w, answered) ==
    /\ req[w].op = "update"
    /\ req[w].rec \in Present
    /\ Accept(req[w].rec, req[w].content)
    /\ Ask(w, IF answered THEN [req[w] EXCEPT !.op = "updated"] ELSE NoReq)
    /\ UNCHANGED <<database, sync, ops>>

\* Only the columns that differ from the loaded row are written.
Edited(row, u) ==
    [row EXCEPT !.content = IF u.content = u.old.content THEN @ ELSE u.content,
                !.comment = IF u.comment = u.old.comment THEN @ ELSE u.comment]

\* Variant: the row is written without waiting for Cloudflare's answer.
UpdateCommitEarly(w) ==
    /\ req[w].op \in {"update", "updated"}
    /\ rows' = [q \in Record |-> IF rows[q].id = req[w].old.id THEN Edited(rows[q], req[w])
                                                               ELSE rows[q]]
    /\ Ask(w, NoReq)
    /\ UNCHANGED <<cloudflare, account, zoneRow, nextId, sync, ops>>

UpdateCommit(w) ==
    /\ req[w].op = "updated"
    /\ LET hit == {q \in Record : rows[q].id = req[w].old.id}
       IN  /\ hit # {}
           /\ rows' = [q \in Record |-> IF q \in hit THEN Edited(rows[q], req[w]) ELSE rows[q]]
    /\ Ask(w, NoReq)
    /\ UNCHANGED <<cloudflare, account, zoneRow, nextId, sync, ops>>

\* One record, or the selection of a bulk deletion: unknown ids are only reported.
DeleteStart(w, R) ==
    /\ Budget
    /\ req[w] = NoReq /\ R \subseteq Cached /\ R # {}
    /\ Ask(w, [op |-> "delete", todo |-> R, gone |-> {},
               ids |-> [r \in Record |-> IF r \in R THEN rows[r].id ELSE 0]])
    /\ UNCHANGED <<cloudflare, database, sync>>

DeleteRemote(w, r, answered) ==
    /\ req[w].op = "delete"
    /\ r \in req[w].todo \cap Present
    /\ Forget({r}, {})
    /\ Ask(w, [req[w] EXCEPT !.todo = @ \ {r}, !.gone = IF answered THEN @ \cup {r} ELSE @])
    /\ UNCHANGED <<database, sync, ops>>

\* Variant: a refused deletion is counted as done.
DeleteRefusedCounts(w, r) ==
    /\ req[w].op = "delete"
    /\ r \in req[w].todo
    /\ Ask(w, [req[w] EXCEPT !.todo = @ \ {r}, !.gone = @ \cup {r}])
    /\ UNCHANGED <<cloudflare, database, sync, ops>>

DeleteRefused(w, r) ==
    /\ req[w].op = "delete"
    /\ r \in req[w].todo
    /\ Ask(w, [req[w] EXCEPT !.todo = @ \ {r}])
    /\ UNCHANGED <<cloudflare, database, sync, ops>>

DeleteCommit(w) ==
    /\ req[w].op = "delete" /\ req[w].todo = {}
    /\ LET ids == {req[w].ids[r] : r \in req[w].gone}
       IN  rows' = [q \in Record |-> IF rows[q].id \in ids THEN NoRow ELSE rows[q]]
    /\ Ask(w, NoReq)
    /\ UNCHANGED <<cloudflare, account, zoneRow, nextId, sync, ops>>

\* An error of Cloudflare, of a constraint or of the process ends the request
\* where it stands; what Cloudflare has already done stays done.
RequestFails(w) ==
    /\ req[w] # NoReq
    /\ Ask(w, NoReq)
    /\ UNCHANGED <<cloudflare, database, sync, ops>>

-----------------------------------------------------------------------------
Elsewhere ==
    \/ \E r \in Record, c \in Content : AddedElsewhere(r, c) \/ EditedElsewhere(r, c)
    \/ \E r \in Record : RemovedElsewhere(r)
    \/ \E z \in Zone : ZoneAddedElsewhere(z) \/ ZoneRemovedElsewhere(z)

SyncStep(s) ==
    \/ SyncListZones(s) \/ SyncReadZones(s)
    \/ \E z \in Zone : SyncListPage(s, z)
    \/ SyncReadRows(s) \/ SyncCommit(s) \/ SyncFails(s)

RequestStart(w) ==
    \/ \E z \in Zone, c \in Content, k \in Comment : CreateStart(w, z, c, k)
    \/ \E r \in Record, c \in Content, k \in Comment : UpdateStart(w, r, c, k)
    \/ \E R \in SUBSET Record : DeleteStart(w, R)

RequestStep(w) ==
    \/ \E r \in Record, answered \in BOOLEAN : CreateRemote(w, r, answered)
    \/ CreateCommit(w)
    \/ \E answered \in BOOLEAN : UpdateRemote(w, answered)
    \/ UpdateCommit(w)
    \/ \E r \in Record, answered \in BOOLEAN : DeleteRemote(w, r, answered)
    \/ \E r \in Record : DeleteRefused(w, r)
    \/ DeleteCommit(w) \/ RequestFails(w)

Next ==
    \/ Elsewhere
    \/ DeleteAccount
    \/ \E s \in Syncer : AddAccount(s) \/ BeginSync(s) \/ SyncStep(s)
    \/ \E w \in Worker : RequestStart(w) \/ RequestStep(w)

Spec == Init /\ [][Next]_vars

\* Every call ends, the loop comes round again, and the steps of its
\* synchronization do not fail forever.
Fairness ==
    /\ \A w \in Worker : WF_vars(RequestStep(w))
    /\ \A s \in Syncer : WF_vars(SyncStep(s))
    /\ WF_vars(BeginSync(Loop))
    /\ SF_vars(SyncListZones(Loop)) /\ SF_vars(SyncReadZones(Loop))
    /\ SF_vars(\E z \in Zone : SyncListPage(Loop, z))
    /\ SF_vars(SyncReadRows(Loop)) /\ SF_vars(SyncCommit(Loop))

FairSpec == Spec /\ Fairness

-----------------------------------------------------------------------------
(* Properties.                                                             *)

\* Every variable keeps its type, in particular a row that exists has an id, a value
\* Cloudflare can hold and a comment, and a row that does not has none of them.
TypeOK ==
    /\ cf \in [Record -> Content \cup {"unborn", "gone"}]
    /\ cfZone \in [Zone -> {"unborn", "live", "gone"}]
    /\ account \in Nat
    /\ zoneRow \in [Zone -> Nat]
    /\ rows \in [Record -> Row \cup {NoRow}]
    /\ nextId \in Nat \ {0}
    /\ sync \in [Syncer -> Sync]
    /\ req \in [Worker -> Req]
    /\ ops \in 0..MaxOps
    /\ held \in [Record -> SUBSET Content]
    /\ steady \in [Syncer -> SUBSET Record]
    /\ slipped \in [Syncer -> SUBSET Record]

\* The cache never shows a value Cloudflare has not accepted: a handler writes its
\* row only after Cloudflare's answer, and a synchronization only what was listed.
CachedContentWasAccepted == \A r \in Cached : rows[r].content \in held[r]

\* Rows hang below the account: no zone row without the account, no record row
\* without its zone's row, whatever sync, create and account removal interleave.
NoOrphanRows ==
    /\ \A z \in Zone : zoneRow[z] # 0 => account # 0
    /\ \A r \in Cached : zoneRow[ZoneOf[r]] # 0

\* A local comment is changed only by the update request made for its record: no
\* synchronization and no other record's request overwrites it.
CommentChangedOnlyByItsUpdate ==
    [][\A r \in Cached : rows'[r].id = rows[r].id /\ rows'[r].comment # rows[r].comment =>
         \E w \in Worker : /\ req[w].op = "updated" /\ req[w].rec = r
                           /\ req[w].comment = rows'[r].comment /\ req'[w] = NoReq]_vars

\* A synchronization removes a row only if its record was missing from Cloudflare at
\* some moment of that synchronization, or slipped from a page still to be read onto one
\* already read because a record or zone in front of it was removed.
SyncDropsOnlyAbsent ==
    [][\A s \in Syncer, r \in Cached :
         SyncCommit(s) => rows'[r].id # 0 \/ r \notin steady[s] \/ r \in slipped[s]]_vars

\* A deletion removes no row whose record Cloudflare still has.
DeletesOnlyGone ==
    [][\A w \in Worker, r \in Cached : DeleteCommit(w) => rows'[r].id # 0 \/ cf[r] = "gone"]_vars

\* Local comments survive synchronization: a commit of sync_account leaves the comment
\* of every record that Cloudflare has.
CommentsSurviveSync ==
    [][\A s \in Syncer, r \in Cached \cap Present :
         SyncCommit(s) /\ rows[r].comment # NoComment
           => rows'[r].comment = rows[r].comment]_vars

Mirrors ==
    /\ \A z \in Zone : zoneRow[z] # 0 <=> cfZone[z] = "live"
    /\ \A r \in Record : IF r \in Present THEN r \in Cached /\ rows[r].content = cf[r]
                                          ELSE r \notin Cached

\* Once requests and outside edits stop, the cache of a connected account ends up
\* and stays equal to Cloudflare, whatever was lost or applied late before.
Converges == <>[](account # 0 => Mirrors)

=============================================================================
