# Specifications of CFDNS

CFDNS keeps a local, searchable copy of the DNS records of several Cloudflare
accounts, lets an administrator edit them, and monitors them (SSL, ping, GET)
with Telegram alerts. It is one FastAPI process with two background loops, plus
cron processes for the checks, all on one database (PostgreSQL or SQLite). Every
task and request has a database session of its own; there is no other shared
state and no lock. What can go wrong is therefore what happens *between* the
steps of a session: between its reads, its calls to Cloudflare or Telegram, and
its commit. That is what these modules describe.

## Inventory

| Part | Source (`src/app/`) | State | Operations | What makes it correct |
|---|---|---|---|---|
| Record cache, synchronization | `services.py`, `models.py` | rows of accounts, zones, records | `sync_account`, `sync_zone`, `apply_remote_record` | rows have parents; only accepted values; only absent records dropped; local comments kept; ends up equal to Cloudflare |
| Cloudflare client | `cloudflare.py` | none | listings by page, create, update, delete | every page once; an error never counts as success |
| Account and record requests | `routes.py` 499-762, 1560-1638 | as above | connect, synchronize, remove; create, update, delete, bulk delete | cache written after Cloudflare and only with its answer |
| SSL monitoring | `ssl_checker.py` | results per record and address | inspect, store, scheduled run, recheck | results replaced as a whole; states of other addresses pruned |
| Ping monitoring | `ping_checker.py` | results per record and address | inspect, store, scheduled run, selection | as above |
| GET monitoring | `http_checker.py` | one result per record and route | inspect, store, scheduled run | direct route only with the main one |
| Notifications | `notifications.py` | a state per record and address (or route, or OVH service) | `notify_*` | an alert once; nothing recorded that was not delivered; a recovery for every alert |
| Telegram client | `telegram.py` | none | send, detect the administrator | an unanswered call is an error |
| Settings | `routes.py` 106-112, 1199-1349, `proxy.py` | one row | bot, chat, proxies, preferences | forms do not undo each other |
| Background loops | `main.py`, `providers.py` | none | Cloudflare and ATW, OVH | one account's failure stays its own; errors recorded per account |
| OVH, ATW | `ovh*.py`, `atw*.py` | accounts, services | list, replace, notify (OVH) | as the record cache, one listing |
| Check log | `check_logs.py` | append-only rows | append, prune | nothing younger than the retention is pruned |
| Dashboard, search, paging | `routes.py` 242-496, 986-1240 | none (reads) | lists | every match on exactly one page |
| Authentication, encryption, schema, configuration | `auth.py`, `security.py`, `schemas.py`, `config.py` | none | pure | |
| Migrations, templates, browser code, scripts | `migrations/`, `templates/`, `static/`, `scripts/` | | | |

How they interact: requests and the loop call `sync_account`; requests and cron
processes call the checkers; the checkers call `notify_*` with their results; all
of them meet only in the database. Deleting a record, by a request or by a
synchronization, cascades to its results and states.

The hard behaviours (with their lines, in `PROJECT.json` under `hazards`):

* a synchronization is a long sequence of reads, of Cloudflare and of the database,
  that is written in one commit minutes later;
* listings are cut into pages while they change;
* calls whose answer is lost: Cloudflare has done it, the handler reports an error;
* two sessions that read, send and then write the same notification state;
* switches, the bot's removal and deletions during a run;
* SQLite gives the id of a deleted row to the next inserted one;
* one failing item of a batch or of a loop that takes others with it.

## Modules

| Module | Lines it stands for | Content |
|---|---|---|
| `RecordCache` | `services.py` 16-93, `cloudflare.py` 34-78, the record and account handlers of `routes.py` | one account: Cloudflare, the database, synchronizations, requests |
| `MCRecordCache` | | values for TLC |
| `RecordCacheProofs` | | type correctness, rows have parents |
| `RecordRowsProofs` | | what rows hold: comments, accepted values, deletions, what a synchronization drops |
| `AddressMonitor` | `ssl_checker.py` 119-201, `ping_checker.py` 68-164, `notifications.py` 89-203, switches and bot of `routes.py` | one record: its check runs, results, states, messages |
| `MCAddressMonitor` | | values for TLC |
| `AddressMonitorProofs` | | type correctness, delivery, recoveries; deduplication, listed states and the channel for a sole run |
| `GetMonitor` | `http_checker.py` 123-237, `notifications.py` 206-257, the two GET switches of `routes.py` | records with two routes: switches, batches and requests, results, states |
| `MCGetMonitor` | | values for TLC |
| `GetMonitorProofs` | | type correctness, delivery; switches, leftovers, deduplication and the channel for a sole session |
| `AlertChannel` | README "Alerts are deduplicated per monitored resource", abstractly | what every kind of notification promises |
| `SyncLoop` | `main.py` 19-48, `services.py` 96-104, `ovh_services.py` 163-223, `atw_services.py` 51-104, account handlers of `routes.py` | several accounts: loops, requests, errors |
| `MCSyncLoop` | | values for TLC |
| `SyncLoopProofs` | | type correctness, a removed account leaves no services |
| `OvhReminders` | `ovh.py` 87-206, `ovh_services.py` 61-103 and 163-213, `notifications.py` 50-86 and 260-307 | one OVH account: what a listing makes of the answers, the rows, the reminders |
| `MCOvhReminders` | | values for TLC |
| `OvhRemindersProofs` | | type correctness, the window of a reminder, no repetition and the channel for a sole session |
| `Listing` | `routes.py` 242-496 and 986-1083, `check_logs.py` | pages of the dashboard and the log, and a reader who follows the links |
| `MCListing` | | values for TLC |
| `ListingProofs` | | type correctness, nothing is missed, pages say what they show |
| `Settings` | `routes.py` 106-112 and 1199-1349 | the settings row and the forms that load, ask and save |
| `MCSettings` | | values for TLC |
| `SettingsProofs` | | type correctness, forms of different subjects do not undo each other |

The state machines share no variables, because the code's sessions share nothing
but the tables, and each table belongs to one of them. Where two of them touch, one
appears in the other as a step of the environment: a synchronization that deletes a
record is `RecordDeleted` in the monitors, one that turns a record ineligible is
`ResolutionChanges` to `{}` in `AddressMonitor`, the loop of `SyncLoop` is the
fairness of `BeginSync` in `RecordCache` and of `Sync` in `OvhReminders`, whose whole
run is the steps from `Fetch` to `Notify` of `SyncLoop`, and what `Settings` does with
token and chat is `BotSaved` and `BotRemoved` elsewhere.

### AlertChannel

The abstract specification of a notification: a subject (an address, a route, a
service) has at most one recorded key; a message is handed to Telegram (`Begin`) only
while its key is not the recorded one; when it arrives (`End`) that is still so; and a
transaction (`Record`) forgets keys, or records quiet ones and those the chat has heard,
and none that is still being sent. It does not say when anything is sent or forgotten.
`AddressMonitor`, `GetMonitor` and `OvhReminders` each define `Channel`, an instance with
a refinement mapping (`recorded` is the table of states, `sending` the sessions that
await `send_message`, `heard` the history variable), and are shown to implement
`Channel!Spec` when sessions do not overlap. With overlap they do not, and that is the
one assumption the deduplication of the code rests on.

### RecordCache

`cf` and `cfZone` are what Cloudflare holds; `account`, `zoneRow`, `rows` the
database, each row with the id SQLAlchemy addresses it by; `sync[s]` the local
variables of one call of `sync_account`; `req[w]` those of one request. A step is
what happens between two awaits that matter:

| Code | Action |
|---|---|
| one page of `list_zones` | `SyncListZones` |
| select of the zones' rows | `SyncReadZones` |
| one page of `list_records` | `SyncListPage` |
| select of the zone's records, `apply_remote_record`, stale ids | `SyncReadRows` (fills `plan`) |
| stale zones, commit | `SyncCommit` |
| `except`: rollback | `SyncFails` |
| handlers: load / remote call / commit | `CreateStart`, `CreateRemote`, `CreateCommit`, and the same for updates and deletions |
| any exception of a handler | `RequestFails` |

`plan[r]` is what the unit of work will do with the row of record `r`: insert,
update (only the columns that differ from the values loaded, which is what
SQLAlchemy emits; `content = "none"` means the column is left alone) or delete.
Inserts and updates go by the row id loaded, so a row that was replaced meanwhile
is not found, or, with reused ids, another row is.

Zones and records are both listed page by page, each page (`Page`) cut from what there is
at that moment, in the order of their numbers. A record that is listed twice, or a new
zone, would be inserted twice, and the commit is refused (`twice`, `again`); a known zone
that is listed twice is read twice by the code and once here, since the second reading
overwrites the first. `steady[s]` are the records that have been in Cloudflare ever since
session `s` began, and `slipped[s]` those of them that a removal has moved in front of the
page `s` asks for next (`Slips`); both are history variables.

Abstractions. One account; a value (`Content`) stands for all columns that come
from Cloudflare, a `Comment` for all that do not (comment and switches). Reads see the
committed state of their moment and
writes appear at the commit, which is refused when it would break a unique or
foreign key or updates a missing row: READ COMMITTED without the lock waits and
without the early flush of inserts, which can only make a refusal come sooner.
`last_sync_error` is left out. Creation uses a record id Cloudflare never used
before (`"unborn"`), and a removed id never returns (`"gone"`). `ReuseIds` chooses, for
the rows of the account, zones and records alike, between a sequence that never repeats
and SQLite's `max + 1` of the table. With the latter a late write does meet the new account
and its zone under the old ids. What the model cannot say is that a zone's row gets the id
of *another* zone's, and a late record is hung below that one: the row of a record has no
zone but its own. The single deletion is the bulk deletion of one.

### AddressMonitor

One record, one kind of check. `world` is what a check of each address would find,
`targets` the addresses the record resolves to, `{}` while it is not eligible
(proxied, or a type that is not checked). `results` and `state` are the tables;
`run[c]` the local variables of a run. A run is `Inspect`, `Store` (one commit:
results replaced, other states dropped), `NotifyBegin` (is there a bot?), for each
checked address `NotifyRead` and perhaps `Send`, and `NotifyCommit`. It begins in
a cron process (`CronBegin`), by switching the checks on (`SwitchOn`), by a recheck
(`RecheckBegin`, SSL only) or by pinging a selection (`SelectedBegin`, ping only).
The checks are switched by a toggle or by the edit form of the record, which loads it,
waits for Cloudflare, and only then commits the switch: `FormLoaded`, then `SwitchOff` or
`SwitchOn`, or `FormDropped` when Cloudflare refuses or the record is gone. `form[c]` is
what the form has loaded and will write; the column is written only where the two differ,
while results and states are deleted whenever the checks end up off.
Outcomes stand for the state keys: failures by status, reminders by date and
threshold, `"healthy"`.

Abstractions. All addresses of a run are inspected at one moment and in the order
TLC chooses. The pending writes of a batch are applied at its commit (the code may
flush an insert sooner; a refusal then comes before the remaining messages). The
database ids of states are not modelled: an insert needs that there is none, an
update that there is one. `told` and `open` are history variables: the outcomes
ever delivered for an address, and the addresses whose last delivered message was
a failure.

### GetMonitor

Records with the routes `"get"` and `"direct"`; an `Item` is a record and a route.
`enabled` are the two columns of switches, `result` and `state` the tables, `run[c]`
the local variables of a session. A request loads the record (`ToggleStart`,
`FormStart`), commits the columns that differ from what it loaded and drops what
belongs to a route switched off (`EditCommit`), and then checks the routes switched on.
The scheduled batch loads all records (`CronBegin`), inspects all routes
(`InspectAll`) and handles them one after the other (`Take`, `Store`, `NotifyBegin`,
`ReadState`, `Send`, `NotifyCommit`). A failing step rolls back (`Abort`), which
expires every record of the batch if a transaction is open: what is left is then given
up (`GiveUp`). `txn` and `expired` follow SQLAlchemy's session for that purpose.

Abstractions. A result is healthy or a failure; the state key of a failure does not
depend on its status. Storing a result and dropping an old one is one commit. The log
and its pruning, the normalization of URLs, and the creation of records are left out.

### SyncLoop

Accounts of three providers, each a set of zones or services: `remote` is what the
provider lists, `stored` what the rows hold, `error` the accounts with a
`last_sync_error`. `answers` and `readable` say whether the provider answers and
whether the stored credentials can be decrypted with the current key. A session is one
of the two loops or a request.

| Code | Action |
|---|---|
| sleep, new session, select of the account ids | `Select`, `SelectNext` (the ATW stage) |
| `session.get` of the next account | `Load` |
| decrypt, `global_proxy` (before the `try`) | `SetupRaises`, or part of `Fetch` |
| listing of the provider | `Fetch` |
| select of the rows | `Read` |
| writes and commit | `Commit` |
| `notify_ovh_expirations` (inside the `try`, after the commit) | `Notify` |
| an exception inside the `try`; the handler's commit | `Raises`; `Record` |
| an exception in the handler | `RecordRaises` |
| an exception of the loop's own statements | `LoopEnds` |

Abstractions. The columns of a service and row ids are not modelled: an insert needs
that the service has no row, an update of a row that is gone is refused if it would
change a column (both outcomes are allowed). A statement that fails outside the
handler may leave the session's transaction unusable (`broken`): the next statement of
the loop then raises. The first state is a new installation whose providers list
everything; ids of removed accounts do not return. Saving accounts with a new key is
adding them; the proxy and the bot's token are taken to be entered again with it.
Reminders are a step that may fail. What happens inside a Cloudflare account is in
`RecordCache`.

### OvhReminders

`remote` and `listed` are what OVH holds and lists, `rows` the ids that have a row,
`state` the keys of the reminders. `run[c]` are the local variables of a
synchronization:

| Code | Action |
|---|---|
| `list_services` and `normalize_service` | `List`: which sub-requests are answered is chosen (`informed`, `joined`, `alone`); each that is not is a fault |
| select, write and delete rows, commit, select again | `Store` |
| settings and clock | `NotifyBegin` |
| one service: read its state, decide | `NotifyRead` |
| `send_message`, pending write | `Send` |
| commit | `NotifyCommit` |
| an exception anywhere | `RunFails` |

A row has the four columns reminders depend on. `Normalized` is their fallback from the
product's serviceInfos to the billing data, separately for the expiration, for the
renewal with its deletion at the end (whichever answer has a `renew` first), and for the
renewal type that counts when that `renew` does not say `automatic`; without serviceInfos
a service has what the billing data says, which may be nothing. An unanswered detail of a
dedicated server leaves it unjoined with its service, as a second row
(`<<s, "dedicated">>`). `Days` is
`math.ceil`, `Stage` the first threshold that is not below, and `ReminderKey` the
state key. `Thresholds`, `Day` and the instants are constants, so that the theorems hold
for the real ones; `NoKey` stands for both keys that call for nothing.

Abstractions. A date is a number of days since the epoch, `end \div Day`. One request
below `/services/<id>` stands for its alternatives. Writes pending for several services
are applied at the commit; the autoflush of an insert can only keep other sessions out
longer. Names, prices and addresses of services are left out. `settled` is a history
variable: the reminders that were answered, each with the row it was about, until something
excuses repeating them: a synchronization that stores other data for the service or does
not list it, a run that fails, the bot's removal.

### Listing

`entries` are the entries the filter selects, known by their place in the order of the
listing. `walk` is the reader: `Count` is the first query with the clamping of the page,
`Query` the second with `OFFSET` and `LIMIT`, after which the reader takes the link to the
next page if there is one. Both pages of the code do the same arithmetic; the log has no
"all" (`0` in `PerPage`). Entries are added anywhere (a log entry is dated by the
beginning of its check), removed anywhere, and pruned at the old end.
`seen`, `stayed` and `excused` are history variables.

### Settings

`row` is the one row of `app_settings`, `stored` whether it is there, `form[s]` what a
handler has loaded (`old`) and will write (`ask`). `Post` loads or inserts the row,
`Answered` is Telegram's answer, `Save` the commit, and `GiveUp` every way out without
one. `Written` is the `UPDATE` of SQLAlchemy: the assigned columns whose value differs
from the loaded one, and always an encrypted one, since Fernet never gives the same text
twice. `asked` is a history variable: for each column what the form saved last wanted.
A token stands for itself and, in column `user`, for the name of its bot.

## What is checked

| Run | Question | Bounds |
|---|---|---|
| `cache_safety` | a row is dropped only if its record was absent or slipped between pages; comments change only by their own update; deletions remove only what is gone | 2 records, 2 zones (one without records), pages of 1, 1 synchronization, 2 requests, 3 operations, ids never reused |
| `cache_converges` | types; accepted values; rows have parents; convergence | 1 record, 2 contents, 2 synchronizations, 1 request, 2 operations, ids of account, zone and record reused |
| `cache_comment_lost` | do comments survive a synchronization? **no** | 2 records on one page |
| `monitor_safety` | types; recorded alerts were delivered; recoveries follow alerts | ssl, 1 address and the unresolved one, 1 failure, 1 reminder, cron and request, 2 changes, 1 switch, 1 fault |
| `monitor_settles` | states belong to listed addresses; no duplicates; the channel is implemented; states settle | ping, 2 addresses, one session, 3 changes, 2 faults, no switches |
| `monitor_unresolved` | is a recovery announced? **no** | one session, 3 changes |
| `get_settles` | types; switches; nothing left of what is off; delivery; no duplicates; the channel is implemented; results and states settle | 1 record, one session for batches and requests, 2 changes, 2 switchings, 2 faults |
| `get_batch` | does a batch survive a broken record? **no** | 2 records, 1 fault |
| `sync_settles` | types; a removed account leaves no services; every account ends up right or in error | 1 account of each provider, 2 loops, 1 user, 1 service, 2 requests, 1 change, 1 fault |
| `reminders` | types; the window of a reminder; no repetition without a cause; the channel is implemented; reminders settle | 1 service that is a dedicated server, 3 kinds of facts, days of 2 units, windows of 1 and 2 days, time 0 to 3, instants up to 5, 1 change, 2 faults, one session |
| `listing` | types; nothing that stays is missed; pages say what they show; walks end | 5 places, pages of 2 or all, 3 changes |
| `settings` | types; no form undoes another; what belongs together is stored together | 3 sessions (bot, proxy, the rest), 2 tokens, 1 chat, 1 proxy, 5 forms |

Why the bounds are enough for these questions. The operations (`MaxOps`) count
requests and outside edits; three let one actor's change fall between two steps of
another's twice over. In `cache_safety` zones and records are listed on two pages each,
which shift: the first record is removed before the page of the second is asked for (with
that slip taken out of `Slips`, TLC refutes `SyncDropsOnlyAbsent`), or the empty zone comes
or goes, so that the other is listed twice or the synchronization fails at the one that is
gone. A zone slips without that failure only if one in front of it is added and removed
again between three pages; this takes three zones, which only the theorem covers. One
record with two contents
is what stale writes need; with the account's removal and its connection anew among the
operations, its rows come back under the ids that late writes carry. Two sessions
suffice for every race described here, since the code has no protocol among more.
One address and the unresolved one cover the pruning; two addresses cover a batch;
the two routes of one record are a batch of two items, so that a failure of one meets
the other. With two requests two of the three accounts exist at a time: two of one
loop, or one of each, or one that the loop and a user synchronize together; one change
and one fault then fall between any two steps. A service is enough, since rows of
different services do not meet. In `reminders` a service that is a dedicated server can
have two rows, so that one run handles two; time and ends are such that an end lies
before, on and after the boundary of each window, and the three facts are a manual
renewal whose billing names an earlier end of the same day, a cancellation with a date of
its own, and a renewal by policy, which calls for nothing; two
faults are a listing that lacks something and a lost message or failing run after it.
In `listing` two full pages and a last one of one entry are what clamping and pruning
can get wrong; three changes fall between any queries of a walk. In `settings` five forms
let each of the three sessions load before and save after another's.
In all runs a system that has used up its bounds may stop: deadlock is checked in
the cache runs (a synchronization can always begin or an account be added) and not
in the others, where nothing monitored, or no loop alive, leaves nothing to do.

Fairness. `RecordCache`: every started request or synchronization takes a step
(httpx calls have a timeout of 30 seconds, the database of 30); the loop's
synchronization begins again and again (`main.py` 19-28, as long as the task
lives, which is assumed here); and its steps are not prevented forever (strong
fairness: `SyncFails` may strike every time but the last). `AddressMonitor`: a run
that began ends, and cron begins the next (the README's crontab); faults are
bounded by `MaxFaults`. `GetMonitor`: the same. `SyncLoop`: a task that lives goes on
(its sleep is finite and every call has a timeout), and a started request does; nothing
restarts a loop that ended but the process itself, so `Settles` speaks of the accounts
whose loop is alive. `OvhReminders`: the hourly loop synchronizes again and again, and a
synchronization goes on. `Listing`: a reader who has begun follows the links; nothing
else is fair. `Settings` needs none. `Converges`, `Settles`, `RemindersSettle` and `WalkEnds`
hold only after the bounded changes stop, which is what "eventually consistent" can mean
here.

Deviations the runs exhibit (`findings`):

* `CommentsSurviveSync`: a record created through the UI between a synchronization's
  listing and its reading of rows is removed with its comment, and reinserted without
  it the next time.
* `RecoveryIsAnnounced`: the state of the pseudo address `unresolved` is pruned when
  the name resolves, so its alert is never followed by a recovery.
* `OnlyBrokenGivenUp`: the rollback after one broken record of a GET batch expires the
  others, which are given up with it. (The ping batch has the same loop; the SSL batch
  loads each record anew.)

Others, which the models contain as behaviours and the properties state as conditions:

* a record removed from a page already read moves the next one onto it, which is then not
  listed: the row of a record that Cloudflare has had all the time is removed, with its
  comment (the excuse `slipped` of `SyncDropsOnlyAbsent`, which does not hold without it);
  a whole zone goes the same way when one in front of it is added and removed again during
  the listing;
* two sessions that overlap both read the old state, send, and record: alerts are then
  not deduplicated. The theorems `SoleRunDeduplicates`, `SoleSessionDeduplicates` and
  those about the channel show that overlap is the only cause;
* a run that is under way when the checks are switched off, or the bot removed, records
  its state afterwards, and switching on again does not forget it;
* credentials are decrypted before the `try` (`SetupRaises` of `SyncLoop`), so an account
  that cannot be decrypted fails in every round without an error on it, although the
  repository's README says a failed synchronization is recorded;
* the bodies of both loops are in no `try`, so that an error of their own statements ends
  the task, silently and for good (`LoopEnds`);
* a serviceInfos request that OVH leaves unanswered stores the service without its
  expiration, so that a reminder is forgotten and sent again, although README promises one
  message per window: `RepeatsOnlyAfterCause` allows it, since other data was stored;
* an entry is never shown to a reader who follows the links if one in front of the page
  is removed meanwhile: the excuse of `NoneMissed`, which does not hold without it;
* two overlapping forms of one subject can leave the token of one with the chat or name of
  the other, or SSL checks sent through a proxy that is not there (`SubjectsApart`).

Some properties hold only under conditions, which the runs satisfy by their constants and
the theorems have as hypotheses. A session carries row ids from a read to a later commit,
and the commit finds its row by the id alone. `CommentChangedOnlyByItsUpdate`,
`DeletesOnlyGone`, `CachedContentWasAccepted` and `SyncDropsOnlyAbsent` need that no row is
inserted meanwhile under an id that is still carried for another record
(`IdsNotReassigned`). Sequences give that; SQLite's row ids do not, and with them each of
the four fails for two records (the runs have a sequence, or one record):
an update, a deletion or a synchronization under way hits the row of another record.
`SyncDropsOnlyAbsent` besides excuses the records of `slipped`: what a removal moves in
front of the page asked for next is not listed, and dropped.
`StateOnlyForListed` needs that runs do not overlap and that nothing is switched off
during one (`SwitchesApart`): a run under way records a state after its results are gone.
`DirectFollowsGet`, `NothingLeftWhenOff` and `AlertsAreDeduplicated` of `GetMonitor` need
that one session checks and edits: two forms that overlap each write the column they
changed, and a batch under way stores what it inspected before a switch.
`ImplementsChannel` needs one session everywhere, `LastSavedStands` and `BelongsTogether`
that forms of one subject do not overlap.

## What is proved

`RecordCacheProofs`, for any records, zones, sessions, page size and bound:

* `TypeCorrect`: `TypeOK` is inductive. Its core is `WriteForType` and `WrittenType`:
  an update that leaves a column alone never puts the marker into a row, since a
  column is left alone only if the row had the value that was listed.
* `RowsHaveParents`: `NoOrphanRows`. It is not inductive alone: a commit inserts records
  into zones that it inserts itself, so one has to know that what a session plans to
  insert belongs to zones it has listed (`SyncStaysWithinSeen`). With it, a zone that
  receives a record is either being inserted, or has kept the row that was read.

`RecordRowsProofs` goes on from there, for the same constants:

* `IdsInvariant`: ids are distinct, and below the sequence's next value where there is one,
  because the ids of a commit are above all in use and differ by the rank of their record
  (`InsertedRank`).
* `SequenceIdsAreNotReassigned`: what a session or request remembers was read from the
  record's own row (`RememberedIsRead`) and is therefore below the sequence, so
  `~ReuseIds` implies `IdsNotReassigned`. The theorems below assume the latter rather than
  the former: they say exactly what SQLite's row ids can break.
* `OnlyItsOwnInvariant`: under `IdsNotReassigned` an id remembered for a record is that of no
  other record's row. From it, what a commit does to one row (`SyncHits`, `UpdateHits`,
  `DeleteHits`), and at once `CommentsChangeByUpdate`.
* `DeletionsFollowCloudflare`: a deletion counts as gone only what Cloudflare has deleted, and
  what is gone stays gone (`CountsOnlyGone`).
* `CacheShowsAccepted`: `CachedContentWasAccepted` is not inductive alone; every value on its
  way, in Cloudflare, in a listing, in a plan, in an answered request, has to be one that
  was accepted for that record (`Accepted`).
* `SyncsDropOnlyAbsent`: the firm records of a session are those that were there when it
  began, are still there and did not slip (`Firm`). Of such a record the session has seen
  the zone and listed the record as far as its pages go, by rank, and plans no deletion
  (`KnowsFirm`). A page covers the ranks from the pages before it to its end
  (`PagesCover`); a step of Cloudflare leaves it alone, adds, or loses something
  (`CloudflareMoves`), and only a loss lowers a rank: then either the record has been
  listed, or its new rank is still ahead, or it has slipped (`FirmStep`, `UnmovedKnows`).
  `SequenceSyncsDropOnlyAbsent` needs no hypothesis on behaviors: a sequence of ids
  reassigns none.

`AddressMonitorProofs`, for any addresses, outcomes, sessions and bounds:

* `TypeCorrect`, `AlertsRecordedAreDelivered`, `RecoveriesReferToAlerts` follow from one
  invariant. Besides the types it says that a pending write of a failure or reminder was
  delivered (`PendingWasDelivered`), that a run in `Send` holds the outcome of a checked
  address with an old outcome that was delivered (`SendsAboutChecked`), and that a run
  writes nothing before its notification begins (`WritesNothingEarly`).
* `SoleRunDeduplicates`: if there is only one session, the state a run has read is the
  state that is stored when it sends, and an address is handled once in a run.

* `SoleRunStatesAreListed`: under `SwitchesApart` the results a run has stored are those it is
  about to record states for, and a record that is gone has neither (`StoredIsListed`).

`GetMonitorProofs`, for any records, sessions and bounds:

* `TypeCorrect` and `FailuresRecordedAreDelivered` from one invariant: a session in
  `NotifyCommit` with a failure that it has not read as announced has delivered it.
* `SoleSessionLeavesNothing`, `SoleSessionDirectFollowsGet`, `SoleSessionDeduplicates`:
  under `SoleSession` (at most one session) a second invariant says that what a session
  has read is still so when it writes: the switches it loaded are the row's, what is
  on its list is switched on, and the old state it compares with is the stored one.

* `SoleRunImplementsChannel` and `SoleSessionImplementsChannel` (both modules): initial states
  map to initial states and every step to `Begin`, `End`, `Record` or a stutter, from the
  invariants above: what is written was heard, and what is sent is not recorded.

`OvhRemindersProofs`, for any services, facts, thresholds, lengths of a day and bounds:

* `TypeCorrect`, and `RemindersNameTheirWindow`: `Days(end, at) <= v` exactly if `end - at` is
  at most `v` days (`DaysCount`, from the two inequalities of a quotient and the
  monotonicity of a product), so the first threshold reached is the tightest window.
* `SoleSessionImplementsChannel`: the invariant adds that pending writes were heard
  (`RunOK`) and, for one session, that what is sent is not recorded (`Unrecorded`), which
  needs that a reminder being sent has a key and is therefore not what forgetting leaves.
* `SoleSessionRepeatsNothing`: while a service keeps its row, its key moves through ever
  tighter windows and never comes back to one it has left (`KeysDoNotReturn`). A reminder
  that was answered is therefore either the recorded or pending key of its service, or
  one that is never due again (`AnsweredKept`), whatever clock the next run reads.

`ListingProofs`, for any listing, page sizes and changes:

* `TypeCorrect`, and `WalksMissNothing`: while a reader is before page `n`, every entry that
  stayed and has a rank below `(n - 1) * size` was seen, unless the walk is excused.
  Additions only raise ranks, pruning leaves them alone, and the last page, by
  `TotalPages * size >= total`, shows the rest.
* `PagesSayWhatTheyShow`: the ranks of the entries are `0` to `total - 1` without a gap
  (`RanksFill`, an injection between sets of one size), so the entries cut from the listing
  are exactly those announced as "first to last"; and no page that is counted begins
  beyond the end (`PagesBeginWithin`).

`SettingsProofs`, for any sessions, forms and values:

* `TypeCorrect`; `FormsApartLoseNothing` and `FormsApartStoreTogether` under `SubjectsApart`: a
  form that has loaded a column it is about still holds the value that is stored, so that
  a column it does not write has what it asked for.

`SyncLoopProofs`, for any accounts, sessions, services and bounds:

* `TypeCorrect`, and `RemovedLeavesNothing`: `NothingWithoutAccount` is inductive with the
  types, because a commit needs the account's row and the handler looks it up again.

The assumptions on constants are `ConstantsAssumption` of each module and
`ThresholdsAssumption` of `OvhReminders` (a finite tuple of thresholds has a least one),
which the runs evaluate. `SoleRun`, `SoleSession`, `SubjectsApart`, `IdsNotReassigned`
and `SwitchesApart` are hypotheses of the theorems that need them; the
last two constrain behaviors, so each such theorem has the form "every behavior that
keeps to it has the property". With them every safety invariant and action property of
the passing runs is stated by a theorem. Liveness under fairness (`Converges`, `Settles`,
`RemindersSettle`, `WalkEnds`) is out of the prover's reach and, like the deviations,
model-checked only.

## What is not modelled, and the plan

What could still be added, in this order:

1. An abstract cache (each row is absent or holds an accepted value, and changes in one
   step) that `RecordCache` implements: the theorems about rows say it property by property.
2. The SSL batch, which loads each record anew, with the log it writes and prunes.
3. `NothingLeftWhenOff` and `DirectFollowsGet` for sessions that overlap, under a hypothesis
   on behaviors like `SwitchesApart`, in place of `SoleSession`.

Left out for good: authentication and encryption (stateless), templates, browser code,
deployment scripts and migrations, the wording of messages, the mapping of provider
responses to columns other than those reminders depend on, the pages of OVH and ATW
services (one query each, no state), TLS, ICMP and HTTP themselves.

## Running

    tlc -config RecordCacheSafety.cfg MCRecordCache
    tlc -config RecordCacheConverges.cfg MCRecordCache
    tlc -config AddressMonitorSettles.cfg MCAddressMonitor
    tlc -config GetMonitorSettles.cfg MCGetMonitor
    tlc -config SyncLoopSettles.cfg MCSyncLoop
    tlc -config OvhReminders.cfg MCOvhReminders
    tlc -config Listing.cfg MCListing
    tlc -config Settings.cfg MCSettings
    tlapm RecordCacheProofs.tla
    tlapm RecordRowsProofs.tla

The runs take from seconds to four minutes, the proofs a few minutes each.
