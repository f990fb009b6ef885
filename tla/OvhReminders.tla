----------------------------- MODULE OvhReminders -----------------------------
(***************************************************************************)
(* Reminders about the services of one OVH account: what a listing makes   *)
(* of the answers it gets (app/ovh.py), the rows that are normalized from  *)
(* it (app/ovh_services.py), and the notifications that follow each        *)
(* synchronization (notify_ovh_expirations of app/notifications.py), while *)
(* time passes, OVH changes its mind and the bot is removed.  SyncLoop has *)
(* the schedule and what a failing synchronization records.                *)
(***************************************************************************)
EXTENDS Integers

CONSTANTS
    Service,     \* services OVH may list
    Server,      \* the dedicated servers among them
    Fact,        \* what OVH may hold about a service
    Day,         \* units of time in a day
    Thresholds,  \* the days before an end that call for a reminder
    Latest,      \* bound on the instants OVH names
    Session,     \* the background loop and web requests that synchronize
    Horizon,     \* bound on time
    MaxChanges,  \* bound on changes at OVH and of the bot
    MaxFaults    \* bound on unanswered requests, lost messages and failing runs

Never == -1
Instant == 0..Latest \cup {Never}
Renewal == {"automatic", "manual", "unknown"}

\* A product's serviceInfos, and what the generic service response has of the same: an
\* expiration, a renewal ("unknown" when it says nothing about automatic, "none" when
\* there is none) that may delete the service at its end, and a renewal type.
Answer == Renewal \cup {"none"}
Info == [expires : Instant, renew : Answer, deletes : BOOLEAN, mode : Answer]
Billing == [expires : Instant, renew : Answer, deletes : BOOLEAN, mode : Answer, ends : Instant]
NoInfo == [expires |-> Never, renew |-> "none", deletes |-> FALSE, mode |-> "none"]
NoBilling == [expires |-> Never, renew |-> "none", deletes |-> FALSE, mode |-> "none",
              ends |-> Never]

ASSUME ConstantsAssumption ==
    /\ Server \subseteq Service
    /\ Fact \subseteq [info : Info, billing : Billing, policy : BOOLEAN]
    /\ Day \in Nat \ {0} /\ Thresholds \subseteq Nat \ {0}
    /\ Latest \in Nat /\ Horizon \in Nat /\ MaxChanges \in Nat /\ MaxFaults \in Nat

\* EXPIRY_THRESHOLDS is a finite tuple in ascending order.
ASSUME ThresholdsAssumption ==
    \A S \in SUBSET Thresholds : S # {} => \E v \in S : \A w \in S : v <= w

VARIABLES
    now,
    remote,   \* what OVH holds about each service
    listed,   \* the services it lists
    rows,     \* the stored services: the ids that have a row, and the rows
    state,    \* the recorded key of each row's reminder, NoKey where there is none
    bot,      \* a Telegram bot and chat are configured
    run,      \* what each session has listed and will write
    changes, faults,
    heard,    \* history: the reminders ever delivered
    settled   \* history: those answered, with the row they were about, that nothing excuses
              \* repeating

world == <<now, remote, listed, bot, changes>>
history == <<heard, settled>>
vars == <<world, rows, state, run, faults, history>>

-----------------------------------------------------------------------------
(* From the answers to a row (_expiration_renewal_and_cancellation), and   *)
(* from a row to the key of its reminder.                                  *)

\* A server that a listing cannot join with its service becomes a row of its own.
Id == (Service \X {"service"}) \cup (Server \X {"dedicated"})
Row == [expires : Instant, renew : Renewal, cancelled : BOOLEAN, ends : Instant]
Blank == [expires |-> Never, renew |-> "unknown", cancelled |-> FALSE, ends |-> Never]

Decided == {"automatic", "manual"}

Normalized(info, billing, policy) ==
    LET expires == IF info.expires # Never THEN info.expires ELSE billing.expires
        renew == IF info.renew # "none" THEN info.renew ELSE billing.renew
        mode == IF info.mode # "none" THEN info.mode ELSE billing.mode
        cancelled == policy \/ IF info.renew # "none" THEN info.deletes ELSE billing.deletes
    IN  [expires |-> expires,
         renew |-> IF renew \in Decided THEN renew
                   ELSE IF mode \in Decided THEN mode ELSE "unknown",
         cancelled |-> cancelled,
         ends |-> IF billing.ends # Never THEN billing.ends
                  ELSE IF cancelled THEN expires ELSE Never]

EndsAt(row) == IF row.cancelled /\ row.ends # Never THEN row.ends ELSE row.expires

\* Variant: a day that has begun counts as over.
DaysRoundedDown(end, at) == (end - at) \div Day

\* math.ceil((end - at) / 86400)
Days(end, at) == -((at - end) \div Day)

\* The first threshold that is not below the days, 0 if there is none.
Stage(days) ==
    LET reached == {v \in Thresholds : days <= v}
    IN  IF reached = {} THEN 0 ELSE CHOOSE v \in reached : \A w \in reached : v <= w

Key == [kind : {"cancellation", "expiry"}, date : Instant, stage : Thresholds \cup {0}]
NoKey == [kind |-> "none", date |-> Never, stage |-> 0]

\* NoKey stands for "healthy" and "not-actionable", which nothing tells apart.
ReminderKey(row, at) ==
    LET end == EndsAt(row)
        stage == IF end = Never THEN 0 ELSE Stage(Days(end, at))
        date == IF end = Never THEN Never ELSE end \div Day
    IN  IF row.cancelled THEN [kind |-> "cancellation", date |-> date, stage |-> stage]
        ELSE IF row.renew = "manual" /\ stage # 0
             THEN [kind |-> "expiry", date |-> date, stage |-> stage]
             ELSE NoKey

-----------------------------------------------------------------------------
NothingRead == [i \in Id |-> Blank]
NothingWritten == [i \in Id |-> NoKey]
Idle == [at |-> "idle", ids |-> {}, got |-> NothingRead, todo |-> {}, clock |-> 0,
         id |-> "none", old |-> NoKey, writes |-> NothingWritten,
         inserts |-> {}, drops |-> {}]
RunState ==
    [at : {"idle", "store", "notify", "next", "send"}, ids : SUBSET Id, got : [Id -> Row],
     todo : SUBSET Id, clock : Nat, id : Id \cup {"none"},
     old : Key \cup {NoKey}, writes : [Id -> Key \cup {NoKey}], inserts : SUBSET Id,
     drops : SUBSET Id]

Init ==
    /\ now = 0
    /\ remote \in [Service -> Fact] /\ listed \in SUBSET Service
    /\ rows = {} /\ state = NothingWritten
    /\ bot \in BOOLEAN
    /\ run = [c \in Session |-> Idle]
    /\ changes = 0 /\ faults = 0
    /\ heard = {} /\ settled = {}

Change == changes < MaxChanges /\ changes' = changes + 1
Fault == faults < MaxFaults /\ faults' = faults + 1
Move(c, r) == run' = [run EXCEPT ![c] = r]

-----------------------------------------------------------------------------
(* Time, OVH and the bot.                                                  *)

Tick ==
    /\ now < Horizon /\ now' = now + 1
    /\ UNCHANGED <<remote, listed, bot, changes, rows, state, run, faults, history>>

FactsChange(s, f) ==
    /\ Change
    /\ f # remote[s] /\ remote' = [remote EXCEPT ![s] = f]
    /\ UNCHANGED <<now, listed, bot, rows, state, run, faults, history>>

ListingChanges(s) ==
    /\ Change
    /\ listed' = IF s \in listed THEN listed \ {s} ELSE listed \cup {s}
    /\ UNCHANGED <<now, remote, bot, rows, state, run, faults, history>>

BotSaved ==
    /\ Change
    /\ ~bot /\ bot' = TRUE
    /\ UNCHANGED <<now, remote, listed, rows, state, run, faults, history>>

BotRemoved ==
    /\ Change
    /\ bot /\ bot' = FALSE
    /\ state' = NothingWritten
    /\ settled' = {}
    /\ UNCHANGED <<now, remote, listed, rows, run, faults, heard>>

-----------------------------------------------------------------------------
(* A synchronization: list, store, notify.                                 *)

\* Requests below /services/<id> may go unanswered and are skipped: without
\* serviceInfos a row has only its billing data; without its details a server is not
\* joined with its service and, if /dedicated/server answers, listed on its own.
List(c, joined, alone, informed) ==
    LET ids == (listed \X {"service"}) \cup (alone \X {"dedicated"})
        Got(i) == LET info == IF i \in informed THEN remote[i[1]].info ELSE NoInfo
                  IN  IF i[2] = "service"
                      THEN Normalized(info, remote[i[1]].billing, remote[i[1]].policy)
                      ELSE Normalized(info, NoBilling, FALSE)
    IN  /\ run[c].at = "idle"
        /\ alone \in {(Server \cap listed) \ joined} \cup (IF joined = {} THEN {{}} ELSE {})
        /\ informed \subseteq ids
        /\ IF Server \cap listed \subseteq joined /\ informed = ids THEN UNCHANGED faults ELSE Fault
        /\ Move(c, [Idle EXCEPT !.at = "store", !.ids = ids,
                                !.got = [i \in Id |-> IF i \in ids THEN Got(i) ELSE Blank]])
        /\ UNCHANGED <<world, rows, state, history>>

\* Variant: services that are no longer listed stay.
StoreKeepsStale(c) ==
    /\ run[c].at = "store"
    /\ rows' = rows \cup run[c].ids
    /\ Move(c, [run[c] EXCEPT !.at = "notify"])
    /\ UNCHANGED <<world, state, faults, history>>

\* Rows are replaced and stale ones deleted, their reminders with them; all rows of the
\* account are then notified about.
Store(c) ==
    /\ run[c].at = "store"
    /\ rows' = run[c].ids
    /\ state' = [i \in Id |-> IF i \in run[c].ids THEN state[i] ELSE NoKey]
    /\ settled' = {m \in settled : m[1] \in run[c].ids /\ m[3] = run[c].got[m[1]]}
    /\ Move(c, [run[c] EXCEPT !.at = "notify"])
    /\ UNCHANGED <<world, faults, heard>>

NotifyBegin(c) ==
    /\ run[c].at = "notify"
    /\ Move(c, IF bot THEN [run[c] EXCEPT !.at = "next", !.todo = run[c].ids, !.clock = now]
                      ELSE Idle)
    /\ UNCHANGED <<world, rows, state, faults, history>>

Due(c, i) == ReminderKey(run[c].got[i], run[c].clock)

\* Variant: the recorded key is not compared.
NotifyReadAlways(c, i) ==
    /\ run[c].at = "next" /\ i \in run[c].todo
    /\ LET r == [run[c] EXCEPT !.todo = @ \ {i}]
       IN  Move(c, IF Due(c, i) = NoKey THEN [r EXCEPT !.drops = @ \cup {i}]
                   ELSE [r EXCEPT !.at = "send", !.id = i, !.old = state[i]])
    /\ UNCHANGED <<world, rows, state, faults, history>>

\* Variant: a service that is healthy is reminded of like any other.
NotifyReadUnfiltered(c, i) ==
    /\ run[c].at = "next" /\ i \in run[c].todo
    /\ LET r == [run[c] EXCEPT !.todo = @ \ {i}]
       IN  Move(c, IF state[i] = Due(c, i) /\ Due(c, i) # NoKey THEN r
                   ELSE [r EXCEPT !.at = "send", !.id = i, !.old = state[i]])
    /\ UNCHANGED <<world, rows, state, faults, history>>

NotifyRead(c, i) ==
    /\ run[c].at = "next" /\ i \in run[c].todo
    /\ LET r == [run[c] EXCEPT !.todo = @ \ {i}]
       IN  Move(c, IF Due(c, i) = NoKey
                   THEN [r EXCEPT !.drops = IF state[i] = NoKey THEN @ ELSE @ \cup {i}]
                   ELSE IF state[i] = Due(c, i) THEN r
                   ELSE [r EXCEPT !.at = "send", !.id = i, !.old = state[i]])
    /\ UNCHANGED <<world, rows, state, faults, history>>

\* Variant: a reminder is recorded although Telegram did not answer.
SendRecordsAnyway(c, delivered, answered) ==
    /\ run[c].at = "send" /\ (answered => delivered)
    /\ IF answered THEN UNCHANGED faults ELSE Fault
    /\ LET i == run[c].id
       IN  /\ heard' = IF delivered THEN heard \cup {<<i, Due(c, i)>>} ELSE heard
           /\ Move(c, [run[c] EXCEPT !.at = "next", !.id = "none", !.old = NoKey,
                                     !.writes[i] = Due(c, i),
                                     !.inserts = IF run[c].old = NoKey THEN @ \cup {i} ELSE @])
    /\ UNCHANGED <<world, rows, state, settled>>

Send(c, delivered, answered) ==
    /\ run[c].at = "send" /\ (answered => delivered)
    /\ IF answered THEN UNCHANGED faults ELSE Fault
    /\ LET i == run[c].id
           r == [run[c] EXCEPT !.at = "next", !.id = "none", !.old = NoKey]
       IN  /\ heard' = IF delivered THEN heard \cup {<<i, Due(c, i)>>} ELSE heard
           /\ settled' = IF answered THEN settled \cup {<<i, Due(c, i), run[c].got[i]>>} ELSE settled
           /\ Move(c, IF ~answered THEN r
                      ELSE [r EXCEPT !.writes[i] = Due(c, i),
                                     !.inserts = IF run[c].old = NoKey THEN @ \cup {i} ELSE @])
    /\ UNCHANGED <<world, rows, state>>

Writes(c) == {i \in Id : run[c].writes[i] # NoKey}

\* One commit for all services: a reminder needs its row, an insert finds no reminder, an
\* update finds one; deleting one that is gone already does no harm.
CommitAllowed(c) ==
    \A i \in Writes(c) : i \in rows /\ (i \in run[c].inserts <=> state[i] = NoKey)

NotifyCommit(c) ==
    /\ run[c].at = "next" /\ run[c].todo = {} /\ CommitAllowed(c)
    /\ state' = [i \in Id |-> IF i \in Writes(c) THEN run[c].writes[i]
                              ELSE IF i \in run[c].drops THEN NoKey ELSE state[i]]
    /\ Move(c, Idle)
    /\ UNCHANGED <<world, rows, faults, history>>

\* The transaction is refused, or the run fails on its way: sent reminders stay unrecorded.
RunFails(c) ==
    /\ run[c].at # "idle"
    /\ IF run[c].at = "next" /\ run[c].todo = {} /\ ~CommitAllowed(c) THEN UNCHANGED faults
                                                                       ELSE Fault
    /\ settled' = {}
    /\ Move(c, Idle)
    /\ UNCHANGED <<world, rows, state, heard>>

-----------------------------------------------------------------------------
Sync(c) == \E joined, alone \in SUBSET Server, informed \in SUBSET Id :
             joined \subseteq listed /\ List(c, joined, alone, informed)

Step(c) ==
    \/ Store(c) \/ NotifyBegin(c)
    \/ \E i \in Id : NotifyRead(c, i)
    \/ \E delivered, answered \in BOOLEAN : Send(c, delivered, answered)
    \/ NotifyCommit(c) \/ RunFails(c)

Environment ==
    \/ Tick \/ BotSaved \/ BotRemoved
    \/ \E s \in Service : ListingChanges(s) \/ \E f \in Fact : FactsChange(s, f)

Next == Environment \/ \E c \in Session : Sync(c) \/ Step(c)

Spec == Init /\ [][Next]_vars

\* The hourly loop synchronizes again and again, and what has begun goes on.
Fairness == \A c \in Session : WF_vars(Sync(c)) /\ WF_vars(Step(c))

FairSpec == Spec /\ Fairness

-----------------------------------------------------------------------------
(* Properties.                                                             *)

\* Every variable keeps its type; what a run does is about rows it has listed.
TypeOK ==
    /\ now \in 0..Horizon
    /\ remote \in [Service -> Fact] /\ listed \in SUBSET Service
    /\ rows \in SUBSET Id /\ state \in [Id -> Key \cup {NoKey}]
    /\ bot \in BOOLEAN
    /\ run \in [Session -> RunState]
    /\ changes \in 0..MaxChanges /\ faults \in 0..MaxFaults
    /\ heard \in SUBSET (Id \X Key) /\ settled \in SUBSET (Id \X Key \X Row)
    /\ \A c \in Session : run[c].at = "send" => run[c].id \in Id /\ Due(c, run[c].id) \in Key

\* The windows README documents, by instants: those of v days contain the last v days.
Windows(end, at) == {v \in Thresholds : end - at <= v * Day}

\* A reminder names the tightest window its service was in when the run looked at the
\* clock; without a window there is none, but for the notice of a cancellation.
RemindsOfTightestWindow ==
    \A c \in Session : run[c].at = "send" =>
      LET end == EndsAt(run[c].got[run[c].id])
          key == Due(c, run[c].id)
          windows == IF end = Never THEN {} ELSE Windows(end, run[c].clock)
      IN  IF windows = {} THEN key.kind = "cancellation" /\ key.stage = 0
          ELSE key.stage \in windows /\ \A w \in windows : key.stage <= w

\* A reminder that was answered is not repeated for its row, however often and late it is
\* synchronized, until other data is stored for it or it is not listed, a run fails or the
\* bot is removed.
RepeatsOnlyAfterCause ==
    [][\A c \in Session, answered \in BOOLEAN :
         LET i == run[c].id
         IN  Send(c, TRUE, answered) => <<i, Due(c, i), run[c].got[i]>> \notin settled]_vars

\* A synchronization as a user of the channel every notification goes through.
Channel == INSTANCE AlertChannel WITH
    Subject <- Id, Quiet <- {}, None <- NoKey,
    recorded <- state, heard <- heard,
    sending <- {<<run[c].id, Due(c, run[c].id)>> : c \in {d \in Session : run[d].at = "send"}}

\* Synchronizations that do not overlap implement the channel: no reminder is announced
\* while it is recorded nor recorded unannounced, whatever fails, is lost or forgotten.
ImplementsChannel == Channel!Spec

Complete(s) == Normalized(remote[s].info, remote[s].billing, remote[s].policy)

\* Once OVH, the bot and faults settle, the recorded reminders, and with them the
\* announced ones, are those due by what OVH holds: none is missing, none is left over.
RemindersSettle ==
    <>[](bot => \A i \in Id :
           state[i] = IF i[1] \in listed /\ i[2] = "service" THEN ReminderKey(Complete(i[1]), now)
                                                             ELSE NoKey)

=============================================================================
