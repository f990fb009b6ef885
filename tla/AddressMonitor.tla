---------------------------- MODULE AddressMonitor ----------------------------
(***************************************************************************)
(* SSL and ping monitoring of one DNS record: the check runs of the cron   *)
(* processes and of the web requests (app/ssl_checker.py, ping_checker.py),*)
(* the results and the per-address notification states they store, and the *)
(* Telegram messages they send (app/notifications.py), while the record is *)
(* edited, its checks are switched and the bot is removed                  *)
(* (app/routes.py).  Each run has its own database session.                *)
(***************************************************************************)
EXTENDS Naturals

CONSTANTS
    Kind,        \* "ssl" or "ping"
    Addr,        \* addresses the record may resolve to
    Unresolved,  \* the pseudo address of a check that found no address
    Failure,     \* failing outcomes ("failure:<status>", or "failure" for ping)
    Warning,     \* certificate reminders ("expiry:<date>:<threshold>"), ssl only
    Unreachable, \* the outcome of an unresolved check
    Cron,        \* sessions of the scheduled check command
    Request,     \* sessions of web requests
    MaxChanges,  \* bound on changes of the endpoints, the record and the bot
    MaxSwitches, \* bound on switching the checks on or off
    MaxFaults    \* bound on failing runs and on lost messages or answers

ASSUME ConstantsAssumption ==
    /\ Kind \in {"ssl", "ping"}
    /\ Unresolved \notin Addr
    /\ Unreachable \in Failure
    /\ Failure \cap Warning = {}
    /\ (Failure \cup Warning) \cap {"healthy", "none"} = {}
    /\ Kind = "ping" => Failure = {Unreachable} /\ Warning = {}
    /\ MaxChanges \in Nat /\ MaxSwitches \in Nat /\ MaxFaults \in Nat

Target == Addr \cup {Unresolved}
Outcome == Failure \cup Warning \cup {"healthy"}
Run == Cron \cup Request

VARIABLES
    world,    \* what a check of each address would find now
    targets,  \* what the record resolves to now; {} while it is not eligible
    present,  \* the record's row exists
    enabled,  \* its ssl_check_enabled or ping_check_enabled
    form,     \* what each request that edits the record or toggles its checks has loaded
    results,  \* stored check results, "none" where there is no row
    state,    \* stored notification states, "none" where there is no row
    bot,      \* a Telegram bot and chat are configured
    run,      \* what each check run has seen and will write
    changes, switches, faults,
    told,     \* history: the outcomes ever announced for an address
    open      \* history: addresses whose last message to this chat is a failure

environment == <<world, targets, changes>>
record == <<present, enabled, form, results, switches>>
history == <<told, open>>
vars == <<world, targets, present, enabled, form, results, state, bot, run, changes,
          switches, faults, told, open>>

Nothing == [a \in Target |-> "none"]
Form == [loaded : BOOLEAN, seen : BOOLEAN, want : BOOLEAN]
NoForm == [loaded |-> FALSE, seen |-> FALSE, want |-> FALSE]
Idle == [at |-> "idle", notify |-> FALSE, checks |-> Nothing, todo |-> {},
         addr |-> Unresolved, old |-> "none", writes |-> Nothing, inserts |-> {}]
RunState ==
    [at : {"idle", "inspect", "store", "notify", "next", "send"}, notify : BOOLEAN,
     checks : [Target -> Outcome \cup {"none"}], todo : SUBSET Target, addr : Target,
     old : Outcome \cup {"none"}, writes : [Target -> Outcome \cup {"none"}],
     inserts : SUBSET Target]

Resolutions == {{}, {Unresolved}} \cup (SUBSET Addr)

Init ==
    /\ world \in [Target -> Outcome] /\ world[Unresolved] = Unreachable
    /\ targets \in Resolutions
    /\ present = TRUE
    /\ enabled \in BOOLEAN /\ form = [c \in Request |-> NoForm]
    /\ results = Nothing /\ state = Nothing
    /\ bot \in BOOLEAN
    /\ run = [c \in Run |-> Idle]
    /\ changes = 0 /\ switches = 0 /\ faults = 0
    /\ told = [a \in Target |-> {}] /\ open = {}

-----------------------------------------------------------------------------
(* Endpoints, name resolution and edits of the record.                     *)

Change == changes < MaxChanges /\ changes' = changes + 1

EndpointChanges(a, o) ==
    /\ Change
    /\ a # Unresolved /\ o # world[a]
    /\ world' = [world EXCEPT ![a] = o]
    /\ UNCHANGED <<targets, record, state, bot, run, faults, history>>

ResolutionChanges(T) ==
    /\ Change
    /\ T # targets /\ targets' = T
    /\ UNCHANGED <<world, record, state, bot, run, faults, history>>

\* The record is deleted, by a user or by synchronization: its rows cascade.
RecordDeleted ==
    /\ Change
    /\ present /\ present' = FALSE
    /\ results' = Nothing /\ state' = Nothing /\ open' = {}
    /\ UNCHANGED <<world, targets, enabled, form, bot, run, switches, faults, told>>

-----------------------------------------------------------------------------
(* Requests that change the settings.                                      *)

BotSaved ==
    /\ Change
    /\ ~bot /\ bot' = TRUE
    /\ UNCHANGED <<world, targets, record, state, run, faults, history>>

\* remove_telegram_bot forgets every notification state.
BotRemoved ==
    /\ Change
    /\ bot /\ bot' = FALSE
    /\ state' = Nothing /\ open' = {}
    /\ UNCHANGED <<world, targets, record, run, faults, told>>

\* A toggle, or the edit form, which waits for Cloudflare between its read and its commit.
FormLoaded(c, want) ==
    /\ switches < MaxSwitches /\ switches' = switches + 1
    /\ present /\ ~form[c].loaded
    /\ form' = [form EXCEPT ![c] = [loaded |-> TRUE, seen |-> enabled, want |-> want]]
    /\ UNCHANGED <<environment, present, enabled, results, state, bot, run, faults, history>>

\* Cloudflare refuses the edit, the record is gone, or the request fails.
FormDropped(c) ==
    /\ form[c].loaded
    /\ form' = [form EXCEPT ![c] = NoForm]
    /\ UNCHANGED <<environment, present, enabled, results, switches, state, bot, run, faults,
                   history>>

\* The column is written only if it differs from what was loaded; results and states are
\* deleted in any case.  A record that is not eligible ends up here as well.
SwitchOff(c) ==
    /\ form[c].loaded /\ ~(form[c].want /\ targets # {}) /\ present
    /\ enabled' = IF form[c].seen THEN FALSE ELSE enabled
    /\ form' = [form EXCEPT ![c] = NoForm]
    /\ results' = Nothing /\ state' = Nothing /\ open' = {}
    /\ UNCHANGED <<environment, present, switches, bot, run, faults, told>>

Enter(c, notify) ==
    run' = [run EXCEPT ![c] = [Idle EXCEPT !.at = "inspect", !.notify = notify]]

\* Switching on commits and then checks at once, in the same request.
SwitchOn(c) ==
    /\ run[c].at = "idle"
    /\ form[c].loaded /\ form[c].want /\ targets # {} /\ present
    /\ enabled' = IF form[c].seen THEN enabled ELSE TRUE
    /\ form' = [form EXCEPT ![c] = NoForm]
    /\ Enter(c, TRUE)
    /\ UNCHANGED <<environment, present, results, switches, state, bot, faults, history>>

-----------------------------------------------------------------------------
(* A check run: begin, inspect, store, notify.                             *)

CronBegin(c) ==
    /\ run[c].at = "idle"
    /\ present /\ enabled /\ targets # {}
    /\ Enter(c, TRUE)
    /\ UNCHANGED <<environment, record, state, bot, faults, history>>

\* recheck_ssl needs enabled checks and does not ask for eligibility.
RecheckBegin(c) ==
    /\ Kind = "ssl"
    /\ run[c].at = "idle"
    /\ present /\ enabled
    /\ Enter(c, TRUE)
    /\ UNCHANGED <<environment, record, state, bot, faults, history>>

\* Pinging a selection stores results for any record and notifies for enabled ones.
SelectedBegin(c) ==
    /\ Kind = "ping"
    /\ run[c].at = "idle"
    /\ present /\ targets # {}
    /\ Enter(c, enabled)
    /\ UNCHANGED <<environment, record, state, bot, faults, history>>

Inspect(c) ==
    /\ run[c].at = "inspect"
    /\ run' = [run EXCEPT ![c].at = "store",
                          ![c].checks = [a \in Target |-> IF a \in targets THEN world[a]
                                                                           ELSE "none"]]
    /\ UNCHANGED <<environment, record, state, bot, faults, history>>

Checked(c) == {a \in Target : run[c].checks[a] # "none"}

\* Results are replaced and the states of other addresses dropped in one transaction;
\* inserting a result needs the record's row.
StoreAllowed(c) == Checked(c) # {} => present

\* Variant: the states of addresses that are gone are kept.
StoreKeepsStates(c) ==
    /\ run[c].at = "store"
    /\ StoreAllowed(c)
    /\ results' = run[c].checks
    /\ run' = IF run[c].notify THEN [run EXCEPT ![c].at = "notify"]
                               ELSE [run EXCEPT ![c] = Idle]
    /\ UNCHANGED <<environment, present, enabled, form, switches, state, bot, faults, history>>

Store(c) ==
    /\ run[c].at = "store"
    /\ StoreAllowed(c)
    /\ results' = run[c].checks
    /\ state' = [a \in Target |-> IF a \in Checked(c) THEN state[a] ELSE "none"]
    /\ run' = IF run[c].notify THEN [run EXCEPT ![c].at = "notify"]
                               ELSE [run EXCEPT ![c] = Idle]
    /\ UNCHANGED <<environment, present, enabled, form, switches, bot, faults, history>>

\* Variant: every address the record ever had is looked at, not only the checked ones.
NotifyBeginAll(c) ==
    /\ run[c].at = "notify" /\ bot
    /\ run' = [run EXCEPT ![c].at = "next", ![c].todo = Target]
    /\ UNCHANGED <<environment, record, state, bot, faults, history>>

NotifyBegin(c) ==
    /\ run[c].at = "notify"
    /\ run' = IF bot THEN [run EXCEPT ![c].at = "next", ![c].todo = Checked(c)]
                     ELSE [run EXCEPT ![c] = Idle]
    /\ UNCHANGED <<environment, record, state, bot, faults, history>>

\* Variant: an address without a state counts as one that was not healthy.
SslMessageFromNone(old, new) ==
    CASE new = old -> "nothing"
      [] new # old /\ new = "healthy" -> "recovery"
      [] OTHER -> "alert"

\* What is sent when the stored outcome of an address is old and the new one is new.
SslMessage(old, new) ==
    CASE new = old -> "nothing"
      [] new # old /\ old \in Failure /\ new \notin Failure -> "recovery"
      [] new = "healthy" /\ old \in Warning -> "recovery"
      [] new = "healthy" /\ old = "none" -> "nothing"
      [] OTHER -> "alert"

\* Variant: the stored state is not compared.
PingMessageAlways(old, new) ==
    IF new \in Failure THEN "alert" ELSE IF old \in Failure THEN "recovery" ELSE "nothing"

PingMessage(old, new) ==
    CASE new \in Failure /\ old \notin Failure -> "alert"
      [] new = "healthy" /\ old \in Failure -> "recovery"
      [] OTHER -> "nothing"

Message(old, new) == IF Kind = "ssl" THEN SslMessage(old, new) ELSE PingMessage(old, new)

\* Variant: a state that exists is left as it is.
RecordedOnce(r, a, old) ==
    [r EXCEPT !.at = "next", !.old = "none", !.addr = Unresolved,
              !.writes[a] = IF old = "none" THEN r.checks[a] ELSE "none",
              !.inserts = IF old = "none" THEN @ \cup {a} ELSE @]

\* The pending write of one address; an unchanged state is not written.
Recorded(r, a, old) ==
    [r EXCEPT !.at = "next",
              !.writes[a] = IF r.checks[a] = old THEN "none" ELSE r.checks[a],
              !.inserts = IF old = "none" THEN @ \cup {a} ELSE @,
              !.old = "none", !.addr = Unresolved]

NotifyRead(c, a) ==
    /\ run[c].at = "next"
    /\ a \in run[c].todo
    /\ LET r == [run[c] EXCEPT !.todo = @ \ {a}]
       IN  run' = [run EXCEPT ![c] =
             IF Message(state[a], r.checks[a]) = "nothing" THEN Recorded(r, a, state[a])
             ELSE [r EXCEPT !.at = "send", !.addr = a, !.old = state[a]]]
    /\ UNCHANGED <<environment, record, state, bot, faults, history>>

Fault == faults < MaxFaults /\ faults' = faults + 1

\* Variant: the state is recorded although Telegram did not answer.
SendRecordsAnyway(c, delivered, answered) ==
    /\ run[c].at = "send"
    /\ answered => delivered
    /\ IF answered THEN UNCHANGED faults ELSE Fault
    /\ run' = [run EXCEPT ![c] = Recorded(@, run[c].addr, run[c].old)]
    /\ told' = IF delivered THEN [told EXCEPT ![run[c].addr] = @ \cup {run[c].checks[run[c].addr]}]
                            ELSE told
    /\ UNCHANGED <<environment, record, state, bot, open>>

\* The message reaches the chat or not; without Telegram's answer it counts as not
\* sent and the state is left for the next run.
Send(c, delivered, answered) ==
    /\ run[c].at = "send"
    /\ answered => delivered
    /\ IF answered THEN UNCHANGED faults ELSE Fault
    /\ LET a == run[c].addr
           o == run[c].checks[a]
       IN  /\ run' = [run EXCEPT ![c] =
                IF answered THEN Recorded(@, a, run[c].old)
                ELSE [@ EXCEPT !.at = "next", !.old = "none", !.addr = Unresolved]]
           /\ told' = IF delivered THEN [told EXCEPT ![a] = @ \cup {o}] ELSE told
           /\ open' = IF ~delivered THEN open
                      ELSE IF o \in Failure THEN open \cup {a} ELSE open \ {a}
    /\ UNCHANGED <<environment, record, state, bot>>

Writes(c) == {a \in Target : run[c].writes[a] # "none"}

\* One commit for the whole batch: inserts find no row, updates find theirs.
CommitAllowed(c) ==
    /\ Writes(c) # {} => present
    /\ \A a \in Writes(c) : a \in run[c].inserts <=> state[a] = "none"

NotifyCommit(c) ==
    /\ run[c].at = "next" /\ run[c].todo = {}
    /\ CommitAllowed(c)
    /\ state' = [a \in Target |-> IF a \in Writes(c) THEN run[c].writes[a] ELSE state[a]]
    /\ run' = [run EXCEPT ![c] = Idle]
    /\ UNCHANGED <<environment, record, bot, faults, history>>

\* The database refuses the transaction: a row is gone, or another run inserted it.
RunRejected(c) ==
    /\ \/ run[c].at = "store" /\ ~StoreAllowed(c)
       \/ run[c].at = "next" /\ run[c].todo = {} /\ ~CommitAllowed(c)
    /\ run' = [run EXCEPT ![c] = Idle]
    /\ UNCHANGED <<environment, record, state, bot, faults, history>>

\* A lock timeout, an undecryptable token or the end of the process.
RunFails(c) ==
    /\ run[c].at # "idle"
    /\ Fault
    /\ run' = [run EXCEPT ![c] = Idle]
    /\ UNCHANGED <<environment, record, state, bot, history>>

-----------------------------------------------------------------------------
Environment ==
    \/ \E a \in Addr, o \in Outcome : EndpointChanges(a, o)
    \/ \E T \in Resolutions : ResolutionChanges(T)
    \/ RecordDeleted \/ BotSaved \/ BotRemoved
    \/ \E c \in Request, want \in BOOLEAN : FormLoaded(c, want)
    \/ \E c \in Request : FormDropped(c) \/ SwitchOff(c)

RunStep(c) ==
    \/ Inspect(c) \/ Store(c) \/ NotifyBegin(c)
    \/ \E a \in Target : NotifyRead(c, a)
    \/ \E delivered, answered \in BOOLEAN : Send(c, delivered, answered)
    \/ NotifyCommit(c) \/ RunRejected(c) \/ RunFails(c)

Next ==
    \/ Environment
    \/ \E c \in Cron : CronBegin(c)
    \/ \E c \in Request : SwitchOn(c) \/ RecheckBegin(c) \/ SelectedBegin(c)
    \/ \E c \in Run : RunStep(c)

Spec == Init /\ [][Next]_vars

\* The schedule starts cron runs again and again and every run ends.
Fairness ==
    /\ \A c \in Run : WF_vars(RunStep(c))
    /\ \A c \in Cron : WF_vars(CronBegin(c))

FairSpec == Spec /\ Fairness

-----------------------------------------------------------------------------
(* Properties.                                                             *)

\* Every variable keeps its type; a run handles only the addresses it has checked.
TypeOK ==
    /\ world \in [Target -> Outcome]
    /\ targets \in Resolutions
    /\ present \in BOOLEAN /\ enabled \in BOOLEAN /\ bot \in BOOLEAN
    /\ form \in [Request -> Form]
    /\ results \in [Target -> Outcome \cup {"none"}]
    /\ state \in [Target -> Outcome \cup {"none"}]
    /\ run \in [Run -> RunState]
    /\ \A c \in Run : run[c].todo \cup Writes(c) \cup run[c].inserts \subseteq Checked(c)
    /\ changes \in 0..MaxChanges /\ switches \in 0..MaxSwitches /\ faults \in 0..MaxFaults
    /\ told \in [Target -> SUBSET Outcome]
    /\ open \in SUBSET Target

\* A failure or reminder is recorded as announced only if its message was delivered:
\* no lost message, failed run or overlapping run leaves a state that silences one.
RecordedAlertWasDelivered ==
    \A a \in Target : state[a] \in Failure \cup Warning => state[a] \in told[a]

\* A recovery is announced only for a failure or reminder that was announced before.
RecoveryRefersToAlert ==
    [][\A c \in Run : \A answered \in BOOLEAN :
         /\ Send(c, TRUE, answered)
         /\ Message(run[c].old, run[c].checks[run[c].addr]) = "recovery"
         => told[run[c].addr] # {}]_vars

\* Alerts are deduplicated: none is delivered while its outcome is recorded as
\* announced for that address.
AlertsAreDeduplicated ==
    [][\A c \in Run : \A answered \in BOOLEAN :
         /\ Send(c, TRUE, answered)
         /\ run[c].checks[run[c].addr] \in Failure \cup Warning
         => state[run[c].addr] # run[c].checks[run[c].addr]]_vars

\* Only addresses of the stored results have a state: one that is gone starts from
\* scratch when it returns.
StateOnlyForListed == \A a \in Target : state[a] # "none" => results[a] # "none"

\* A run that finds the record resolved and healthy, and commits, leaves no failure
\* message for it without a recovery.
RecoveryIsAnnounced ==
    [][\A c \in Run :
         /\ NotifyCommit(c)
         /\ Checked(c) # {} /\ \A a \in Checked(c) : run[c].checks[a] = "healthy"
         => open' \cap (Checked(c) \cup {Unresolved}) = {}]_vars

\* A check run as a user of the channel every notification goes through.
Channel == INSTANCE AlertChannel WITH
    Subject <- Target, Key <- Outcome, Quiet <- {"healthy"}, None <- "none",
    recorded <- state,
    sending <- {<<run[c].addr, run[c].checks[run[c].addr]>> : c \in {d \in Run : run[d].at = "send"}},
    heard <- {m \in Target \X Outcome : m[2] \in told[m[1]]}

\* Runs that do not overlap implement the channel: whatever is lost, fails, is edited or
\* forgotten, nothing is announced while it is recorded nor recorded unannounced.
ImplementsChannel == Channel!Spec

Armed == present /\ enabled /\ bot /\ targets # {}
Agrees == \A a \in Target : state[a] = IF a \in targets THEN world[a] ELSE "none"

\* Once endpoints, settings and faults settle, the recorded states, and with them the
\* announced ones, agree with the endpoints for good.
Settles == <>[](Armed => Agrees)

=============================================================================
