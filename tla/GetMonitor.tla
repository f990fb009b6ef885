------------------------------ MODULE GetMonitor ------------------------------
(***************************************************************************)
(* GET monitoring: every record has two routes, the regular one and the    *)
(* one direct to its content, each with a switch, a stored result and a    *)
(* notification state.  The scheduled batch inspects all enabled routes    *)
(* and then stores and announces them one by one in one database session   *)
(* (app/http_checker.py, notify_http_result of app/notifications.py);      *)
(* requests switch the routes and check them at once (app/routes.py).      *)
(***************************************************************************)
EXTENDS Naturals

CONSTANTS
    Rec,         \* DNS records
    Cron,        \* sessions of the scheduled check command
    Request,     \* sessions of web requests
    MaxChanges,  \* bound on changes of the endpoints, the records and the bot
    MaxSwitches, \* bound on requests
    MaxFaults    \* bound on failing steps and on lost messages or answers

ASSUME ConstantsAssumption ==
    MaxChanges \in Nat /\ MaxSwitches \in Nat /\ MaxFaults \in Nat

Route == {"get", "direct"}
Item == Rec \X Route
Health == {"healthy", "failure"}
Session == Cron \cup Request

VARIABLES
    world,    \* what an inspection of each route would find now
    present,  \* the records whose row exists
    enabled,  \* the routes switched on in each row
    result,   \* stored results, "none" where there is no row
    state,    \* stored notification states, "none" where there is no row
    bot,      \* a Telegram bot and chat are configured
    run,      \* what each session has read and will write
    changes, switches, faults,
    told      \* history: the routes of which a failure was ever delivered

table == <<present, enabled, result, state>>
bounds == <<changes, switches, faults>>
vars == <<world, present, enabled, result, state, bot, run, changes, switches, faults, told>>

\* txn: a transaction is open; expired: a rollback expired the loaded records.
Idle == [at |-> "idle", batch |-> FALSE, todo |-> {}, checks |-> [i \in Item |-> "none"],
         item |-> "none", old |-> "none", txn |-> FALSE, expired |-> FALSE,
         seen |-> {}, want |-> {}]
RunState ==
    [at : {"idle", "edit", "form", "inspect", "next", "store", "notify", "read", "send", "commit"},
     batch : BOOLEAN, todo : SUBSET Item, checks : [Item -> Health \cup {"none", "broken"}],
     item : Item \cup {"none"}, old : Health \cup {"none"}, txn : BOOLEAN, expired : BOOLEAN,
     seen : SUBSET Route, want : SUBSET Route]

\* A row as the forms leave it: the direct route only along with the regular one.
Switching == {{}, {"get"}, {"get", "direct"}}

Init ==
    /\ world \in [Item -> Health]
    /\ present = Rec
    /\ enabled \in [Rec -> Switching]
    /\ result = [i \in Item |-> "none"] /\ state = [i \in Item |-> "none"]
    /\ bot \in BOOLEAN
    /\ run = [c \in Session |-> Idle]
    /\ changes = 0 /\ switches = 0 /\ faults = 0
    /\ told = {}

-----------------------------------------------------------------------------
(* The endpoints, removals of records, and the bot.                        *)

Change == changes < MaxChanges /\ changes' = changes + 1
Fault == faults < MaxFaults /\ faults' = faults + 1

EndpointChanges(i) ==
    /\ Change
    /\ world' = [world EXCEPT ![i] = IF @ = "healthy" THEN "failure" ELSE "healthy"]
    /\ UNCHANGED <<table, bot, run, switches, faults, told>>

Cleared(f, I) == [i \in Item |-> IF i \in I THEN "none" ELSE f[i]]

RecordDeleted(r) ==
    /\ Change
    /\ r \in present /\ present' = present \ {r}
    /\ result' = Cleared(result, {r} \X Route) /\ state' = Cleared(state, {r} \X Route)
    /\ UNCHANGED <<world, enabled, bot, run, switches, faults, told>>

BotSaved ==
    /\ Change
    /\ ~bot /\ bot' = TRUE
    /\ UNCHANGED <<world, table, run, switches, faults, told>>

BotRemoved ==
    /\ Change
    /\ bot /\ bot' = FALSE
    /\ state' = [i \in Item |-> "none"]
    /\ UNCHANGED <<world, present, enabled, result, run, switches, faults, told>>

-----------------------------------------------------------------------------
(* Requests: load the row, for the form ask Cloudflare, then write the     *)
(* switches that differ from the loaded ones and drop what is switched off *)

Move(c, r) == run' = [run EXCEPT ![c] = r]

RequestStart(c, r, at, want) ==
    /\ switches < MaxSwitches /\ switches' = switches + 1
    /\ run[c].at = "idle" /\ r \in present
    /\ Move(c, [Idle EXCEPT !.at = at, !.item = <<r, "get">>, !.seen = enabled[r],
                            !.want = want])
    /\ UNCHANGED <<world, table, bot, changes, faults, told>>

\* Switching on leaves the direct route alone, switching off takes it along.
ToggleStart(c, r) ==
    \E want \in {{}, enabled[r] \cup {"get"}} : RequestStart(c, r, "edit", want)

\* Variant: the form saves the direct switch as it was sent.
FormStartUnchecked(c, r) == \E want \in SUBSET Route : RequestStart(c, r, "form", want)

\* The form saves both switches, the direct one only together with the regular one.
FormStart(c, r) ==
    \E get, direct \in BOOLEAN :
      RequestStart(c, r, "form", {rt \in Route : get /\ (rt = "direct" => direct)})

Merge(row, seen, want) == {rt \in Route : IF rt \in seen <=> rt \in want THEN rt \in row
                                                                        ELSE rt \in want}

\* The form always writes its row, the toggle only a switch that changes.
EditAllowed(c) == run[c].at = "form" \/ run[c].seen # run[c].want => run[c].item[1] \in present

\* Variant: the results and states of what is switched off stay.
EditCommitKeeps(c) ==
    /\ run[c].at \in {"edit", "form"} /\ EditAllowed(c)
    /\ LET r == run[c].item[1]
           q == run[c]
       IN  /\ enabled' = [enabled EXCEPT ![r] = Merge(@, q.seen, q.want)]
           /\ Move(c, [Idle EXCEPT !.at = "next",
                                   !.todo = {r} \X (IF q.at = "form" THEN q.want
                                                    ELSE q.want \cap {"get"})])
    /\ UNCHANGED <<world, present, result, state, bot, bounds, told>>

EditCommit(c) ==
    /\ run[c].at \in {"edit", "form"} /\ EditAllowed(c)
    /\ LET r == run[c].item[1]
           q == run[c]
       IN  /\ enabled' = [enabled EXCEPT ![r] = Merge(@, q.seen, q.want)]
           /\ LET off == IF q.at = "edit" /\ q.want # {} THEN {} ELSE {r} \X (Route \ q.want)
              IN  result' = Cleared(result, off) /\ state' = Cleared(state, off)
           /\ Move(c, [Idle EXCEPT !.at = "next",
                                   !.todo = {r} \X (IF q.at = "form" THEN q.want
                                                    ELSE q.want \cap {"get"})])
    /\ UNCHANGED <<world, present, bot, bounds, told>>

-----------------------------------------------------------------------------
(* A batch inspects everything first; a request inspects route by route.   *)

CronBegin(c) ==
    /\ run[c].at = "idle"
    /\ LET items == {i \in Item : i[1] \in present /\ i[2] \in enabled[i[1]]}
       IN  /\ items # {}
           /\ Move(c, [Idle EXCEPT !.at = "inspect", !.batch = TRUE, !.todo = items,
                                   !.txn = TRUE])
    /\ UNCHANGED <<world, table, bot, bounds, told>>

\* An inspection that raises is kept as its exception.
InspectAll(c, B) ==
    /\ run[c].at = "inspect"
    /\ B \subseteq run[c].todo
    /\ IF B = {} THEN UNCHANGED faults ELSE Fault
    /\ Move(c, [run[c] EXCEPT !.at = "next",
                              !.checks = [i \in Item |-> IF i \in B THEN "broken"
                                                         ELSE IF i \in run[c].todo THEN world[i]
                                                         ELSE "none"]])
    /\ UNCHANGED <<world, table, bot, changes, switches, told>>

\* The regular route of a record comes before its direct one, and right before it.
Turn(c, i) ==
    /\ run[c].at = "next" /\ i \in run[c].todo
    /\ i[2] = "direct" => <<i[1], "get">> \notin run[c].todo
    /\ \A j \in run[c].todo \ {i} :
         j[2] = "direct" /\ run[c].checks[<<j[1], "get">>] # "none" => <<j[1], "get">> \in run[c].todo

\* Variant: an exception is taken for a result.
TakeBroken(c, i) ==
    /\ Turn(c, i) /\ run[c].batch /\ ~run[c].expired
    /\ Move(c, [run[c] EXCEPT !.at = "store", !.item = i, !.todo = @ \ {i}])
    /\ UNCHANGED <<world, table, bot, bounds, told>>

Take(c, i) ==
    /\ Turn(c, i) /\ run[c].batch /\ ~run[c].expired /\ run[c].checks[i] # "broken"
    /\ Move(c, [run[c] EXCEPT !.at = "store", !.item = i, !.todo = @ \ {i}])
    /\ UNCHANGED <<world, table, bot, bounds, told>>

InspectOne(c, i) ==
    /\ Turn(c, i) /\ ~run[c].batch
    /\ Move(c, [run[c] EXCEPT !.at = "store", !.item = i, !.todo = @ \ {i},
                              !.checks[i] = world[i]])
    /\ UNCHANGED <<world, table, bot, bounds, told>>

\* A broken inspection, or a record that a rollback expired: reading it raises.  The
\* rollback that follows expires every loaded record if a transaction was open.
GiveUp(c, i) ==
    /\ Turn(c, i) /\ run[c].batch /\ (run[c].expired \/ run[c].checks[i] = "broken")
    /\ Move(c, [run[c] EXCEPT !.todo = @ \ {i}, !.item = i, !.txn = FALSE,
                              !.expired = @ \/ run[c].txn])
    /\ UNCHANGED <<world, table, bot, bounds, told>>

Finish(c) ==
    /\ run[c].at = "next" /\ run[c].todo = {}
    /\ Move(c, Idle)
    /\ UNCHANGED <<world, table, bot, bounds, told>>

-----------------------------------------------------------------------------
(* Storing and announcing one route.                                       *)

StoreAllowed(c) == run[c].item[1] \in present

Store(c) ==
    /\ run[c].at = "store" /\ StoreAllowed(c)
    /\ result' = [result EXCEPT ![run[c].item] = run[c].checks[run[c].item]]
    /\ Move(c, [run[c] EXCEPT !.at = "notify", !.txn = FALSE])
    /\ UNCHANGED <<world, present, enabled, state, bot, bounds, told>>

NotifyBegin(c) ==
    /\ run[c].at = "notify"
    /\ Move(c, [run[c] EXCEPT !.at = IF bot THEN "read" ELSE "next", !.txn = TRUE])
    /\ UNCHANGED <<world, table, bot, bounds, told>>

\* Variant: the stored state is not compared.
MessageAlways(old, new) == new = "failure" \/ old = "failure"

Message(old, new) == old # new /\ (new = "failure" \/ old = "failure")

ReadState(c) ==
    /\ run[c].at = "read"
    /\ LET old == state[run[c].item]
       IN  Move(c, [run[c] EXCEPT !.old = old,
                                  !.at = IF Message(old, run[c].checks[run[c].item])
                                         THEN "send" ELSE "commit"])
    /\ UNCHANGED <<world, table, bot, bounds, told>>

\* Variant: the state is recorded whether Telegram answered or not.
SendRecordsAnyway(c, delivered, answered) ==
    /\ run[c].at = "send"
    /\ answered => delivered
    /\ IF answered THEN UNCHANGED faults ELSE Fault
    /\ Move(c, [run[c] EXCEPT !.at = "commit"])
    /\ told' = IF delivered /\ run[c].checks[run[c].item] = "failure"
               THEN told \cup {run[c].item} ELSE told
    /\ UNCHANGED <<world, table, bot, changes, switches>>

Send(c, delivered, answered) ==
    /\ run[c].at = "send"
    /\ answered => delivered
    /\ IF answered THEN UNCHANGED faults ELSE Fault
    /\ Move(c, [run[c] EXCEPT !.at = IF answered THEN "commit" ELSE "next"])
    /\ told' = IF delivered /\ run[c].checks[run[c].item] = "failure"
               THEN told \cup {run[c].item} ELSE told
    /\ UNCHANGED <<world, table, bot, changes, switches>>

\* An insert finds no row, an update finds one; an unchanged state is not written.
CommitAllowed(c) ==
    LET i == run[c].item
    IN  run[c].old # run[c].checks[i] =>
          /\ i[1] \in present
          /\ run[c].old = "none" <=> state[i] = "none"

\* Variant: only the first state of a route is written.
NotifyCommitOnce(c) ==
    /\ run[c].at = "commit" /\ CommitAllowed(c)
    /\ state' = IF run[c].old = "none"
                THEN [state EXCEPT ![run[c].item] = run[c].checks[run[c].item]] ELSE state
    /\ Move(c, [run[c] EXCEPT !.at = "next", !.txn = FALSE])
    /\ UNCHANGED <<world, present, enabled, result, bot, bounds, told>>

NotifyCommit(c) ==
    /\ run[c].at = "commit" /\ CommitAllowed(c)
    /\ state' = IF run[c].old = run[c].checks[run[c].item] THEN state
                ELSE [state EXCEPT ![run[c].item] = run[c].checks[run[c].item]]
    /\ Move(c, [run[c] EXCEPT !.at = "next", !.txn = FALSE])
    /\ UNCHANGED <<world, present, enabled, result, bot, bounds, told>>

\* A batch rolls back and goes on; a request ends.
Abort(c) == Move(c, IF run[c].batch
                    THEN [run[c] EXCEPT !.at = "next", !.txn = FALSE, !.expired = TRUE]
                    ELSE Idle)

\* The database refuses: the record is gone, or another session wrote the state.
Rejected(c) ==
    /\ \/ run[c].at \in {"edit", "form"} /\ ~EditAllowed(c)
       \/ run[c].at = "store" /\ ~StoreAllowed(c)
       \/ run[c].at = "commit" /\ ~CommitAllowed(c)
    /\ Abort(c)
    /\ UNCHANGED <<world, table, bot, bounds, told>>

\* A lock timeout or a token that cannot be decrypted, while one route is handled.
StepFails(c) ==
    /\ Fault
    /\ run[c].at \in {"edit", "form", "store", "notify", "read", "commit"}
    /\ Abort(c)
    /\ UNCHANGED <<world, table, bot, changes, switches, told>>

ProcessEnds(c) ==
    /\ Fault
    /\ run[c].at # "idle"
    /\ Move(c, Idle)
    /\ UNCHANGED <<world, table, bot, changes, switches, told>>

-----------------------------------------------------------------------------
Environment ==
    \/ \E i \in Item : EndpointChanges(i)
    \/ \E r \in Rec : RecordDeleted(r)
    \/ BotSaved \/ BotRemoved

Step(c) ==
    \/ EditCommit(c)
    \/ \E B \in SUBSET Item : InspectAll(c, B)
    \/ \E i \in Item : Take(c, i) \/ InspectOne(c, i) \/ GiveUp(c, i)
    \/ Store(c) \/ NotifyBegin(c) \/ ReadState(c)
    \/ \E delivered, answered \in BOOLEAN : Send(c, delivered, answered)
    \/ NotifyCommit(c) \/ Rejected(c) \/ StepFails(c) \/ ProcessEnds(c) \/ Finish(c)

Next ==
    \/ Environment
    \/ \E c \in Request, r \in Rec : ToggleStart(c, r) \/ FormStart(c, r)
    \/ \E c \in Cron : CronBegin(c)
    \/ \E c \in Session : Step(c)

Spec == Init /\ [][Next]_vars

\* The schedule starts batches again and again, and every session goes on.
Fairness ==
    /\ \A c \in Session : WF_vars(Step(c))
    /\ \A c \in Cron : WF_vars(CronBegin(c))

FairSpec == Spec /\ Fairness

-----------------------------------------------------------------------------
(* Properties.                                                             *)

\* Every variable keeps its type; while a route is handled it has been inspected.
TypeOK ==
    /\ world \in [Item -> Health]
    /\ present \in SUBSET Rec
    /\ enabled \in [Rec -> SUBSET Route]
    /\ result \in [Item -> Health \cup {"none"}] /\ state \in [Item -> Health \cup {"none"}]
    /\ bot \in BOOLEAN
    /\ run \in [Session -> RunState]
    /\ changes \in 0..MaxChanges /\ switches \in 0..MaxSwitches /\ faults \in 0..MaxFaults
    /\ told \in SUBSET Item
    /\ \A c \in Session :
         /\ run[c].at \in {"edit", "form"} => run[c].item \in Item
         /\ run[c].at \in {"store", "notify", "read", "send", "commit"} =>
              run[c].item \in Item /\ run[c].checks[run[c].item] \in Health

\* The direct route is on only along with the regular one.
DirectFollowsGet == \A r \in present : "direct" \in enabled[r] => "get" \in enabled[r]

\* Switching a route off leaves neither a result nor a state of it behind.
NothingLeftWhenOff ==
    \A i \in Item : i[2] \notin enabled[i[1]] => result[i] = "none" /\ state[i] = "none"

\* A failure is recorded as announced only if its message was delivered.
RecordedFailureWasDelivered == \A i \in Item : state[i] = "failure" => i \in told

\* A failure is not delivered while it is recorded as announced for that route.
AlertsAreDeduplicated ==
    [][\A c \in Session, answered \in BOOLEAN :
         Send(c, TRUE, answered) /\ run[c].checks[run[c].item] = "failure"
           => state[run[c].item] # "failure"]_vars

\* A session as a user of the channel every notification goes through; of its messages
\* only the failures are followed.
Channel == INSTANCE AlertChannel WITH
    Subject <- Item, Key <- Health, Quiet <- {"healthy"}, None <- "none",
    recorded <- state,
    sending <- {<<run[c].item, "failure">> : c \in
                  {d \in Session : run[d].at = "send" /\ run[d].checks[run[d].item] = "failure"}},
    heard <- told \X {"failure"}

\* Sessions that do not overlap implement the channel: whatever is lost, fails, is
\* switched or forgotten, no failure is announced while it is recorded nor recorded
\* unannounced.
ImplementsChannel == Channel!Spec

\* A batch survives a broken record: only the routes whose inspection broke are
\* given up.
OnlyBrokenGivenUp ==
    [][\A c \in Session, i \in Item : GiveUp(c, i) => run[c].checks[i] = "broken"]_vars

Watched(i) == i[1] \in present /\ i[2] \in enabled[i[1]]

\* Once endpoints, switches and faults settle, the results, and with a bot the states,
\* agree with the endpoints for good.
Settles ==
    <>[](\A i \in Item : Watched(i) => result[i] = world[i] /\ (bot => state[i] = world[i]))

=============================================================================
