------------------------- MODULE AddressMonitorProofs -------------------------
(***************************************************************************)
(* Proofs about AddressMonitor, for any addresses, outcomes, sessions and  *)
(* bounds.  The invariant that carries them follows an outcome from the    *)
(* chat back to the stored state: it is told, then pending in a run, then  *)
(* committed.                                                              *)
(***************************************************************************)
EXTENDS AddressMonitor, TLAPS

Reported == Failure \cup Warning

\* What a run is about to commit has been told.
PendingWasDelivered ==
    \A c \in Run, a \in Target : run[c].writes[a] \in Reported => run[c].writes[a] \in told[a]

\* A run sends only about an address it has checked, and remembers its stored state.
SendsAboutChecked ==
    \A c \in Run : run[c].at = "send" =>
        /\ run[c].addr \in Checked(c)
        /\ run[c].old \in Reported => run[c].old \in told[run[c].addr]

\* Until it looks at the stored states a run has nothing to write.
WritesNothingEarly ==
    \A c \in Run : run[c].at \in {"inspect", "store", "notify"} =>
        run[c].todo = {} /\ run[c].inserts = {} /\ Writes(c) = {}

IInv ==
    /\ TypeOK
    /\ RecordedAlertWasDelivered
    /\ PendingWasDelivered
    /\ SendsAboutChecked
    /\ WritesNothingEarly

USE ConstantsAssumption

-----------------------------------------------------------------------------
(* What the message rules of notify_ssl_results and notify_ping_results give. *)

\* Nothing is sent only when the outcome is recorded already or is healthy.
LEMMA SilentMessage ==
    ASSUME NEW old \in Outcome \cup {"none"}, NEW new \in Outcome,
           Message(old, new) = "nothing"
    PROVE  new = old \/ new \notin Reported
<1>1. CASE Kind = "ssl"
    BY <1>1 DEF Message, SslMessage, Outcome, Reported
<1>2. CASE Kind = "ping"
    BY <1>2 DEF Message, PingMessage, Outcome, Reported
<1>3. QED
    BY <1>1, <1>2

\* A recovery is sent only when a failure or a reminder is recorded.
LEMMA RecoveryMessage ==
    ASSUME NEW old \in Outcome \cup {"none"}, NEW new \in Outcome,
           Message(old, new) = "recovery"
    PROVE  old \in Reported
<1>1. CASE Kind = "ssl"
    BY <1>1 DEF Message, SslMessage, Outcome, Reported
<1>2. CASE Kind = "ping"
    BY <1>2 DEF Message, PingMessage, Outcome, Reported
<1>3. QED
    BY <1>1, <1>2

-----------------------------------------------------------------------------
(* The type invariant, with the two facts about runs it needs.             *)

LEMMA InitIInv == Init => IInv
<1> SUFFICES ASSUME Init PROVE IInv
    OBVIOUS
<1> USE DEF Init, Nothing, Idle, Target, Outcome
<1>1. TypeOK
  <2>1. run \in [Run -> RunState]
    BY DEF RunState
  <2>2. \A c \in Run : run[c].todo \cup Writes(c) \cup run[c].inserts \subseteq Checked(c)
    BY DEF Writes
  <2>3. told \in [Target -> SUBSET Outcome]
    OBVIOUS
  <2>4. open \in SUBSET Target /\ changes \in 0..MaxChanges /\ switches \in 0..MaxSwitches
          /\ faults \in 0..MaxFaults
    OBVIOUS
  <2>5. /\ world \in [Target -> Outcome] /\ targets \in Resolutions
        /\ present \in BOOLEAN /\ enabled \in BOOLEAN /\ bot \in BOOLEAN
        /\ form \in [Request -> Form]
    BY DEF NoForm, Form
  <2>6. /\ results \in [Target -> Outcome \cup {"none"}]
        /\ state \in [Target -> Outcome \cup {"none"}]
    OBVIOUS
  <2>7. QED
    BY ONLY <2>1, <2>2, <2>3, <2>4, <2>5, <2>6 DEF TypeOK
<1>2. RecordedAlertWasDelivered
    BY DEF RecordedAlertWasDelivered
<1>3. PendingWasDelivered
    BY DEF PendingWasDelivered, Reported
<1>4. SendsAboutChecked
    BY DEF SendsAboutChecked
<1>5. WritesNothingEarly
    BY DEF WritesNothingEarly
<1>6. QED
    BY <1>1, <1>2, <1>3, <1>4, <1>5 DEF IInv

\* What holds of one run and depends on nothing but the run and what was told.
RunOK(r, t) ==
    /\ r \in RunState
    /\ r.todo \cup r.inserts \cup {a \in Target : r.writes[a] # "none"}
         \subseteq {a \in Target : r.checks[a] # "none"}
    /\ \A a \in Target : r.writes[a] \in Reported => r.writes[a] \in t[a]
    /\ r.at = "send" => /\ r.checks[r.addr] # "none"
                        /\ r.old \in Reported => r.old \in t[r.addr]
    /\ r.at \in {"inspect", "store", "notify"} =>
         r.todo = {} /\ r.inserts = {} /\ \A a \in Target : r.writes[a] = "none"

LEMMA RunsOK ==
    ASSUME IInv
    PROVE  /\ run \in [Run -> RunState]
           /\ \A c \in Run : RunOK(run[c], told)
<1>1. run \in [Run -> RunState]
    BY DEF IInv, TypeOK
<1>2. ASSUME NEW c \in Run PROVE RunOK(run[c], told)
  <2>1. run[c] \in RunState
    BY <1>1
  <2>2. run[c].todo \cup run[c].inserts \cup {a \in Target : run[c].writes[a] # "none"}
         \subseteq {a \in Target : run[c].checks[a] # "none"}
    BY DEF IInv, TypeOK, Writes, Checked
  <2>3. \A a \in Target : run[c].writes[a] \in Reported => run[c].writes[a] \in told[a]
    BY DEF IInv, PendingWasDelivered
  <2>4. run[c].at = "send" =>
           /\ run[c].checks[run[c].addr] # "none"
           /\ run[c].old \in Reported => run[c].old \in told[run[c].addr]
    BY DEF IInv, SendsAboutChecked, Checked
  <2>5. run[c].at \in {"inspect", "store", "notify"} =>
           /\ run[c].todo = {} /\ run[c].inserts = {}
           /\ \A a \in Target : run[c].writes[a] = "none"
    BY DEF IInv, WritesNothingEarly, Writes
  <2>6. QED
    BY <2>1, <2>2, <2>3, <2>4, <2>5 DEF RunOK
<1>3. QED
    BY <1>1, <1>2

\* Conversely, runs that are well formed one by one, and the rest of the state, make
\* up the invariant of the next state.
OthersOK ==
    /\ world \in [Target -> Outcome]
    /\ targets \in Resolutions
    /\ present \in BOOLEAN /\ enabled \in BOOLEAN /\ bot \in BOOLEAN
    /\ form \in [Request -> Form]
    /\ results \in [Target -> Outcome \cup {"none"}]
    /\ state \in [Target -> Outcome \cup {"none"}]
    /\ changes \in 0..MaxChanges /\ switches \in 0..MaxSwitches /\ faults \in 0..MaxFaults
    /\ told \in [Target -> SUBSET Outcome]
    /\ open \in SUBSET Target

LEMMA Assemble ==
    ASSUME OthersOK', RecordedAlertWasDelivered', run' \in [Run -> RunState],
           \A c \in Run : RunOK(run'[c], told')
    PROVE  IInv'
<1>1. TypeOK'
    BY DEF TypeOK, OthersOK, RunOK, Writes, Checked
<1>2. PendingWasDelivered'
    BY DEF PendingWasDelivered, RunOK
<1>3. SendsAboutChecked'
    BY DEF SendsAboutChecked, RunOK, Checked, RunState
<1>4. WritesNothingEarly'
    BY DEF WritesNothingEarly, RunOK, Writes
<1>5. QED
    BY <1>1, <1>2, <1>3, <1>4 DEF IInv

\* One run moves, and what was told stays told.
LEMMA OneRun ==
    ASSUME IInv, NEW c \in Run, NEW r, RunOK(r, told'), run' = [run EXCEPT ![c] = r],
           \A a \in Target : told[a] \subseteq told'[a],
           OthersOK', RecordedAlertWasDelivered'
    PROVE  IInv'
<1>1. run' \in [Run -> RunState]
    BY RunsOK DEF RunOK
<1>2. ASSUME NEW d \in Run PROVE RunOK(run'[d], told')
  <2>1. CASE d = c
    BY <2>1, RunsOK
  <2>2. CASE d # c
    <3>1. run'[d] = run[d] /\ RunOK(run[d], told) /\ run[d].addr \in Target
      BY <2>2, RunsOK DEF RunState
    <3>2. QED
      BY <3>1 DEF RunOK
  <2>3. QED
    BY <2>1, <2>2
<1>3. QED
    BY <1>1, <1>2, Assemble

\* No run moves and no message is sent: a stored state may only be forgotten.
LEMMA NoRun ==
    ASSUME IInv, UNCHANGED <<run, told>>, OthersOK',
           \A a \in Target : state'[a] \in {state[a], "none"}
    PROVE  IInv'
<1>1. RecordedAlertWasDelivered'
    BY DEF IInv, RecordedAlertWasDelivered
<1>2. QED
    BY <1>1, RunsOK, Assemble

\* A run that is over and one that has just begun.
LEMMA FreshRuns ==
    ASSUME NEW t
    PROVE  /\ RunOK(Idle, t)
           /\ \A notify \in BOOLEAN :
                RunOK([Idle EXCEPT !.at = "inspect", !.notify = notify], t)
BY DEF RunOK, Idle, Nothing, RunState, Target, Outcome, Reported

-----------------------------------------------------------------------------
(* Every action keeps the invariant.                                       *)

LEMMA FormStep ==
    ASSUME form \in [Request -> Form],
           form' = form \/ \E c \in Request, f \in Form : form' = [form EXCEPT ![c] = f]
    PROVE  form' \in [Request -> Form]
OBVIOUS

LEMMA EnvironmentIInv == ASSUME IInv, Environment PROVE IInv'
<1>1. OthersOK
    BY DEF IInv, TypeOK, OthersOK
<1>2. /\ Nothing \in [Target -> Outcome \cup {"none"}]
      /\ \A a \in Target : Nothing[a] = "none"
    BY DEF Nothing
<1>3. \A a \in Target : state'[a] \in {state[a], "none"}
    BY <1>2 DEF Environment, EndpointChanges, ResolutionChanges, RecordDeleted, BotSaved,
                BotRemoved, FormLoaded, FormDropped, SwitchOff, record
<1>4. OthersOK'
  <2> USE DEF Environment, EndpointChanges, ResolutionChanges, RecordDeleted, BotSaved,
              BotRemoved, FormLoaded, FormDropped, SwitchOff, environment, record, history
  <2>1. world' \in [Target -> Outcome]
    BY <1>1 DEF OthersOK
  <2>2. /\ targets' \in Resolutions
        /\ present' \in BOOLEAN /\ enabled' \in BOOLEAN /\ bot' \in BOOLEAN
    BY <1>1 DEF OthersOK
  <2>3. /\ results' \in [Target -> Outcome \cup {"none"}]
        /\ form' \in [Request -> Form]
    <3>1. results' = results \/ results' = Nothing
      BY Zenon
    <3>2. form' = form \/ \E c \in Request, f \in Form : form' = [form EXCEPT ![c] = f]
      <4>1. enabled \in BOOLEAN
        BY <1>1 DEF OthersOK
      <4>2. \A want \in BOOLEAN : [loaded |-> TRUE, seen |-> enabled, want |-> want] \in Form
        BY ONLY <4>1 DEF Form
      <4>3. NoForm \in Form
        BY ONLY DEF Form, NoForm
      <4>4. QED
        BY <4>2, <4>3, Zenon
    <3>3. QED
      BY ONLY <1>1, <1>2, <3>1, <3>2, FormStep DEF OthersOK
  <2>4. state' \in [Target -> Outcome \cup {"none"}]
    BY <1>1, <1>2 DEF OthersOK
  <2>5. changes' \in 0..MaxChanges
    <3>1. changes' = changes \/ Change
      BY Zenon
    <3>2. QED
      BY ONLY <1>1, <3>1, ConstantsAssumption DEF OthersOK, Change
  <2>6. switches' \in 0..MaxSwitches
    <3>1. switches' = switches \/ (switches < MaxSwitches /\ switches' = switches + 1)
      BY Zenon
    <3>2. QED
      BY ONLY <1>1, <3>1, ConstantsAssumption DEF OthersOK
  <2>7. faults' \in 0..MaxFaults /\ told' \in [Target -> SUBSET Outcome]
    BY <1>1 DEF OthersOK
  <2>8. open' \in SUBSET Target
    BY <1>1 DEF OthersOK
  <2>9. QED
    BY ONLY <2>1, <2>2, <2>3, <2>4, <2>5, <2>6, <2>7, <2>8 DEF OthersOK
<1>5. UNCHANGED <<run, told>>
    BY DEF Environment, EndpointChanges, ResolutionChanges, RecordDeleted, BotSaved,
           BotRemoved, FormLoaded, FormDropped, SwitchOff, history
<1>6. QED
    BY <1>3, <1>4, <1>5, NoRun

LEMMA BeginIInv ==
    ASSUME IInv, NEW c \in Run,
           CronBegin(c) \/ SwitchOn(c) \/ RecheckBegin(c) \/ SelectedBegin(c)
    PROVE  IInv'
<1>0. enabled \in BOOLEAN
    BY DEF IInv, TypeOK
<1>1. PICK notify \in BOOLEAN : Enter(c, notify)
    BY <1>0, Zenon DEF CronBegin, SwitchOn, RecheckBegin, SelectedBegin
<1>2. UNCHANGED <<world, targets, present, results, state, bot, changes, faults, told, open>>
    BY DEF CronBegin, SwitchOn, RecheckBegin, SelectedBegin, environment, record, history
<1>3. /\ enabled' \in BOOLEAN /\ switches' \in 0..MaxSwitches
      /\ form' \in [Request -> Form]
  <2>0. form \in [Request -> Form]
    BY DEF IInv, TypeOK
  <2>1. enabled' \in BOOLEAN
    <3>1. CASE SwitchOn(c)
      BY <1>0, <3>1 DEF SwitchOn
    <3>2. CASE CronBegin(c) \/ RecheckBegin(c) \/ SelectedBegin(c)
      BY <1>0, <3>2 DEF CronBegin, RecheckBegin, SelectedBegin, record
    <3>3. QED
      BY <3>1, <3>2
  <2>2. switches' \in 0..MaxSwitches
    <3>1. CASE SwitchOn(c)
      BY <3>1 DEF SwitchOn, IInv, TypeOK
    <3>2. CASE CronBegin(c) \/ RecheckBegin(c) \/ SelectedBegin(c)
      <4>1. switches' = switches
        BY <3>2, Zenon DEF CronBegin, RecheckBegin, SelectedBegin, record
      <4>2. QED
        BY <4>1 DEF IInv, TypeOK
    <3>3. QED
      BY <3>1, <3>2
  <2>3. form' \in [Request -> Form]
    <3>1. CASE SwitchOn(c)
      BY <2>0, <3>1 DEF SwitchOn, NoForm, Form
    <3>2. CASE CronBegin(c) \/ RecheckBegin(c) \/ SelectedBegin(c)
      <4>1. form' = form
        BY <3>2, Zenon DEF CronBegin, RecheckBegin, SelectedBegin, record
      <4>2. QED
        BY <2>0, <4>1
    <3>3. QED
      BY <3>1, <3>2
  <2>4. QED
    BY <2>1, <2>2, <2>3
<1>4. OthersOK' /\ RecordedAlertWasDelivered'
    BY <1>2, <1>3 DEF OthersOK, IInv, TypeOK, RecordedAlertWasDelivered
<1>5. QED
  <2> DEFINE r == [Idle EXCEPT !.at = "inspect", !.notify = notify]
  <2>1. RunOK(r, told') /\ run' = [run EXCEPT ![c] = r]
    BY <1>1, FreshRuns DEF Enter
  <2>2. \A a \in Target : told[a] \subseteq told'[a]
    BY <1>2
  <2> HIDE DEF r
  <2>3. QED
    BY <1>4, <2>1, <2>2, OneRun

\* A run moves and the rest stays, but for the count of faults.
LEMMA RunMoves ==
    ASSUME IInv, NEW c \in Run, NEW r, RunOK(r, told), run' = [run EXCEPT ![c] = r],
           UNCHANGED <<environment, record, state, bot, history>>,
           faults' \in 0..MaxFaults
    PROVE  IInv'
<1>1. UNCHANGED <<world, targets, changes, present, enabled, form, results, switches, state,
                  bot, told, open>>
    BY DEF environment, record, history
<1>2. OthersOK' /\ RecordedAlertWasDelivered'
    BY <1>1 DEF OthersOK, IInv, TypeOK, RecordedAlertWasDelivered
<1>3. QED
    BY <1>1, <1>2, OneRun

LEMMA InspectIInv == ASSUME IInv, NEW c \in Run, Inspect(c) PROVE IInv'
<1> DEFINE seen == [a \in Target |-> IF a \in targets THEN world[a] ELSE "none"]
           r == [run[c] EXCEPT !.at = "store", !.checks = seen]
<1>1. run[c] \in RunState /\ RunOK(run[c], told) /\ run[c].at = "inspect"
    BY RunsOK DEF Inspect
<1>2. seen \in [Target -> Outcome \cup {"none"}]
    BY DEF IInv, TypeOK
<1>3. RunOK(r, told)
    BY <1>1, <1>2 DEF RunOK, RunState, Reported
<1>4. /\ run' = [run EXCEPT ![c] = r]
      /\ UNCHANGED <<environment, record, state, bot, history>>
      /\ faults' \in 0..MaxFaults
    BY RunsOK DEF Inspect, IInv, TypeOK
<1> HIDE DEF r
<1>5. QED
    BY <1>3, <1>4, RunMoves

LEMMA StoreIInv == ASSUME IInv, NEW c \in Run, Store(c) PROVE IInv'
<1> DEFINE r == IF run[c].notify THEN [run[c] EXCEPT !.at = "notify"] ELSE Idle
<1>1. run[c] \in RunState /\ RunOK(run[c], told) /\ run[c].at = "store"
    BY RunsOK DEF Store
<1>2. RunOK(r, told)
  <2>1. RunOK([run[c] EXCEPT !.at = "notify"], told)
    BY <1>1 DEF RunOK, RunState
  <2>2. QED
    BY <2>1, FreshRuns
<1>3. run' = [run EXCEPT ![c] = r]
    BY RunsOK DEF Store
<1>4. OthersOK'
  <2>1. results' \in [Target -> Outcome \cup {"none"}]
    BY <1>1 DEF Store, RunState
  <2>2. state' \in [Target -> Outcome \cup {"none"}]
    BY DEF Store, IInv, TypeOK
  <2>3. QED
    BY <2>1, <2>2 DEF Store, OthersOK, IInv, TypeOK, environment, history
<1>5. RecordedAlertWasDelivered'
    BY DEF Store, IInv, RecordedAlertWasDelivered, history
<1>6. told' = told
    BY DEF Store, history
<1> HIDE DEF r
<1>7. QED
    BY <1>2, <1>3, <1>4, <1>5, <1>6, OneRun

LEMMA NotifyBeginIInv == ASSUME IInv, NEW c \in Run, NotifyBegin(c) PROVE IInv'
<1> DEFINE r == IF bot THEN [run[c] EXCEPT !.at = "next", !.todo = Checked(c)] ELSE Idle
<1>1. run[c] \in RunState /\ RunOK(run[c], told)
    BY RunsOK
<1>2. RunOK(r, told)
  <2>1. RunOK([run[c] EXCEPT !.at = "next", !.todo = Checked(c)], told)
    BY <1>1 DEF RunOK, RunState, Checked
  <2>2. QED
    BY <2>1, FreshRuns
<1>3. /\ run' = [run EXCEPT ![c] = r]
      /\ UNCHANGED <<environment, record, state, bot, history>>
    BY RunsOK DEF NotifyBegin
<1>4. faults' \in 0..MaxFaults
    BY DEF NotifyBegin, IInv, TypeOK
<1> HIDE DEF r
<1>5. QED
    BY <1>2, <1>3, <1>4, RunMoves

\* Recording an outcome that has been told, or that is no alert, keeps a run in order.
LEMMA RecordedOK ==
    ASSUME NEW t, NEW r, RunOK(r, t), r.at \in {"next", "send"},
           NEW a \in Target, r.checks[a] # "none", NEW old \in Outcome \cup {"none"},
           r.checks[a] \in Reported /\ r.checks[a] # old => r.checks[a] \in t[a]
    PROVE  RunOK(Recorded(r, a, old), t)
<1> DEFINE new == Recorded(r, a, old)
<1>1. /\ new \in RunState
      /\ new.at = "next" /\ new.checks = r.checks /\ new.todo = r.todo
      /\ new.inserts \subseteq r.inserts \cup {a}
      /\ \A b \in Target : b # a => new.writes[b] = r.writes[b]
      /\ new.writes[a] = IF r.checks[a] = old THEN "none" ELSE r.checks[a]
    BY DEF RunOK, RunState, Recorded, Target
<1>2. \A b \in Target : b \in new.inserts \/ new.writes[b] # "none" => r.checks[b] # "none"
    BY <1>1 DEF RunOK
<1>3. \A b \in Target : new.writes[b] \in Reported => new.writes[b] \in t[b]
    BY <1>1 DEF RunOK, Reported
<1>4. new.inserts \subseteq Target
    BY <1>1 DEF RunState
<1>5. RunOK(new, t)
  <2> HIDE DEF new
  <2>1. QED
    BY <1>1, <1>2, <1>3, <1>4 DEF RunOK
<1>6. QED
    BY <1>5

LEMMA NotifyReadIInv ==
    ASSUME IInv, NEW c \in Run, NEW a \in Target, NotifyRead(c, a)
    PROVE  IInv'
<1> DEFINE r == [run[c] EXCEPT !.todo = @ \ {a}]
           quiet == Recorded(r, a, state[a])
           loud == [r EXCEPT !.at = "send", !.addr = a, !.old = state[a]]
           new == r.checks[a]
<1>1. run[c] \in RunState /\ RunOK(run[c], told) /\ run[c].at = "next" /\ a \in run[c].todo
    BY RunsOK DEF NotifyRead
<1>2. RunOK(r, told) /\ r.at = "next" /\ r.checks = run[c].checks
    BY <1>1 DEF RunOK, RunState
<1>3. new \in Outcome /\ new # "none" /\ state[a] \in Outcome \cup {"none"}
    BY <1>1, <1>2 DEF RunOK, RunState, IInv, TypeOK
<1>4. ASSUME Message(state[a], new) = "nothing" PROVE RunOK(quiet, told)
  <2>1. new \in Reported /\ new # state[a] => new \in told[a]
    BY <1>3, <1>4, SilentMessage
  <2> HIDE DEF r
  <2>2. QED
    BY <1>2, <1>3, <2>1, RecordedOK
<1>5. RunOK(loud, told)
  <2>1. /\ loud \in RunState /\ loud.checks = r.checks /\ loud.writes = r.writes
        /\ loud.at = "send" /\ loud.addr = a /\ loud.old = state[a]
        /\ loud.todo = r.todo /\ loud.inserts = r.inserts
    BY <1>1, <1>3 DEF RunState
  <2>2. state[a] \in Reported => state[a] \in told[a]
    BY DEF IInv, RecordedAlertWasDelivered, Reported
  <2> HIDE DEF loud, r
  <2>3. QED
    BY <1>2, <1>3, <2>1, <2>2 DEF RunOK
<1>6. /\ run' = [run EXCEPT ![c] = IF Message(state[a], new) = "nothing" THEN quiet ELSE loud]
      /\ UNCHANGED <<environment, record, state, bot, history>>
    BY DEF NotifyRead
<1>7. faults' \in 0..MaxFaults
    BY DEF NotifyRead, IInv, TypeOK
<1> HIDE DEF quiet, loud, new
<1>8. QED
    BY <1>4, <1>5, <1>6, <1>7, RunMoves

LEMMA SendIInv ==
    ASSUME IInv, NEW c \in Run, NEW delivered \in BOOLEAN, NEW answered \in BOOLEAN,
           Send(c, delivered, answered)
    PROVE  IInv'
<1> DEFINE a == run[c].addr
           o == run[c].checks[a]
           yes == Recorded(run[c], a, run[c].old)
           no == [run[c] EXCEPT !.at = "next", !.old = "none", !.addr = Unresolved]
<1>1. /\ run[c] \in RunState /\ RunOK(run[c], told) /\ run[c].at = "send"
      /\ a \in Target /\ o \in Outcome /\ o # "none" /\ run[c].old \in Outcome \cup {"none"}
    BY RunsOK DEF Send, RunOK, RunState
<1>2. /\ told' = IF delivered THEN [told EXCEPT ![a] = @ \cup {o}] ELSE told
      /\ told \in [Target -> SUBSET Outcome]
    BY DEF Send, IInv, TypeOK
<1>3. \A b \in Target : told[b] \subseteq told'[b]
    BY <1>1, <1>2
<1>4. answered => o \in told'[a]
    BY <1>1, <1>2 DEF Send
<1>5. RunOK(run[c], told')
    BY <1>1, <1>3 DEF RunOK, RunState
<1>6. answered => RunOK(yes, told')
    BY <1>1, <1>4, <1>5, RecordedOK
<1>7. RunOK(no, told')
  <2>1. /\ no \in RunState /\ no.at = "next" /\ no.checks = run[c].checks
        /\ no.writes = run[c].writes /\ no.todo = run[c].todo
        /\ no.inserts = run[c].inserts
    BY <1>1 DEF RunState, Target
  <2> HIDE DEF no
  <2>2. QED
    BY <1>5, <2>1 DEF RunOK
<1>8. run' = [run EXCEPT ![c] = IF answered THEN yes ELSE no]
    BY DEF Send
<1>9. OthersOK'
  <2>1. told' \in [Target -> SUBSET Outcome]
    BY <1>1, <1>2
  <2>2. open' \in SUBSET Target
    BY <1>1 DEF Send, IInv, TypeOK
  <2>3. faults' \in 0..MaxFaults
    BY DEF Send, Fault, IInv, TypeOK
  <2>4. UNCHANGED <<world, targets, changes, present, enabled, form, results, switches, state, bot>>
    BY DEF Send, environment, record
  <2>5. QED
    BY <2>1, <2>2, <2>3, <2>4 DEF OthersOK, IInv, TypeOK
<1>10. RecordedAlertWasDelivered'
    BY <1>3 DEF Send, IInv, RecordedAlertWasDelivered
<1> HIDE DEF yes, no
<1>11. QED
    BY <1>3, <1>6, <1>7, <1>8, <1>9, <1>10, OneRun

LEMMA NotifyCommitIInv == ASSUME IInv, NEW c \in Run, NotifyCommit(c) PROVE IInv'
<1>1. run[c] \in RunState /\ RunOK(run[c], told)
    BY RunsOK
<1>2. run' = [run EXCEPT ![c] = Idle] /\ told' = told
    BY DEF NotifyCommit, history
<1>3. state' = [a \in Target |-> IF run[c].writes[a] # "none" THEN run[c].writes[a] ELSE state[a]]
    BY DEF NotifyCommit, Writes
<1>4. OthersOK'
  <2>1. state' \in [Target -> Outcome \cup {"none"}]
    BY <1>1, <1>3 DEF IInv, TypeOK, RunState
  <2>2. UNCHANGED <<world, targets, changes, present, enabled, form, results, switches, bot,
                    faults, told, open>>
    BY DEF NotifyCommit, environment, record, history
  <2>3. QED
    BY <2>1, <2>2 DEF OthersOK, IInv, TypeOK
<1>5. RecordedAlertWasDelivered'
    BY <1>1, <1>2, <1>3 DEF RunOK, IInv, RecordedAlertWasDelivered, Reported
<1>6. QED
    BY <1>2, <1>4, <1>5, FreshRuns, OneRun

LEMMA RunEndsIInv == ASSUME IInv, NEW c \in Run, RunRejected(c) \/ RunFails(c) PROVE IInv'
<1>1. /\ run' = [run EXCEPT ![c] = Idle]
      /\ UNCHANGED <<environment, record, state, bot, history>>
    BY DEF RunRejected, RunFails
<1>2. faults' \in 0..MaxFaults
    BY DEF RunRejected, RunFails, Fault, IInv, TypeOK
<1>3. QED
    BY <1>1, <1>2, FreshRuns, RunMoves

LEMMA StepIInv == IInv /\ [Next]_vars => IInv'
<1> SUFFICES ASSUME IInv, [Next]_vars PROVE IInv'
    OBVIOUS
<1>1. CASE Environment
    BY <1>1, EnvironmentIInv
<1>2. ASSUME NEW c \in Run,
             CronBegin(c) \/ SwitchOn(c) \/ RecheckBegin(c) \/ SelectedBegin(c)
      PROVE  IInv'
    BY <1>2, BeginIInv
<1>3. ASSUME NEW c \in Run, RunStep(c) PROVE IInv'
    BY <1>3, InspectIInv, StoreIInv, NotifyBeginIInv, NotifyReadIInv, SendIInv,
       NotifyCommitIInv, RunEndsIInv DEF RunStep
<1>4. CASE UNCHANGED vars
  <2>1. OthersOK' /\ RecordedAlertWasDelivered' /\ run' = run /\ told' = told
    BY <1>4 DEF vars, OthersOK, IInv, TypeOK, RecordedAlertWasDelivered
  <2>2. QED
    BY <2>1, RunsOK, Assemble
<1>5. QED
    BY <1>1, <1>2, <1>3, <1>4 DEF Next, Run

-----------------------------------------------------------------------------
(* The theorems.                                                           *)

LEMMA Invariance == Spec => []IInv
<1>1. QED
    BY InitIInv, StepIInv, PTL DEF Spec

\* Every variable keeps its type, for all addresses, outcomes, sessions and bounds.
THEOREM TypeCorrect == Spec => []TypeOK
<1>1. IInv => TypeOK
    BY DEF IInv
<1>2. QED
    BY <1>1, Invariance, PTL

\* Whatever runs overlap, fail or lose messages, a failure or reminder is recorded as
\* announced only if the chat has received it.
THEOREM AlertsRecordedAreDelivered == Spec => []RecordedAlertWasDelivered
<1>1. IInv => RecordedAlertWasDelivered
    BY DEF IInv
<1>2. QED
    BY <1>1, Invariance, PTL

\* A recovery is announced only for an address with a delivered failure or reminder.
THEOREM RecoveriesReferToAlerts == Spec => RecoveryRefersToAlert
<1>1. ASSUME IInv, NEW c \in Run, NEW answered \in BOOLEAN, Send(c, TRUE, answered),
             Message(run[c].old, run[c].checks[run[c].addr]) = "recovery"
      PROVE  told[run[c].addr] # {}
  <2>1. /\ run[c] \in RunState /\ RunOK(run[c], told) /\ run[c].at = "send"
    BY <1>1, RunsOK DEF Send
  <2>2. run[c].old \in Reported
    BY <1>1, <2>1, RecoveryMessage DEF RunOK, RunState
  <2>3. QED
    BY <2>1, <2>2 DEF RunOK
<1>2. IInv => \A c \in Run : \A answered \in BOOLEAN :
                 /\ Send(c, TRUE, answered)
                 /\ Message(run[c].old, run[c].checks[run[c].addr]) = "recovery"
                 => told[run[c].addr] # {}
    BY <1>1
<1>3. QED
    BY <1>2, Invariance, PTL DEF RecoveryRefersToAlert

-----------------------------------------------------------------------------
(* Deduplication needs runs that do not overlap: with two of them TLC shows *)
(* an alert that is delivered twice.                                        *)

SoleRun == \A c, d \in Run : c = d

\* While a message is on its way its address keeps the state that was read, or
\* loses it to a user who removes the bot or switches the checks off.
SendsWhatIsStored ==
    \A c \in Run : run[c].at = "send" =>
        /\ state[run[c].addr] \in {run[c].old, "none"}
        /\ run[c].old # run[c].checks[run[c].addr]

\* A message is sent only about an outcome that is not recorded.
LEMMA LoudMessage ==
    ASSUME NEW old \in Outcome \cup {"none"}, NEW new \in Outcome,
           Message(old, new) # "nothing"
    PROVE  old # new
<1>1. CASE Kind = "ssl"
    BY <1>1 DEF Message, SslMessage
<1>2. CASE Kind = "ping"
    BY <1>2 DEF Message, PingMessage, Outcome
<1>3. QED
    BY <1>1, <1>2

LEMMA SoleRunStep ==
    ASSUME SoleRun, IInv, SendsWhatIsStored, [Next]_vars
    PROVE  SendsWhatIsStored'
<1> SUFFICES ASSUME NEW c \in Run, run'[c].at = "send"
             PROVE  /\ state'[run'[c].addr] \in {run'[c].old, "none"}
                    /\ run'[c].old # run'[c].checks[run'[c].addr]
    BY DEF SendsWhatIsStored
<1> DEFINE Goal == /\ state'[run'[c].addr] \in {run'[c].old, "none"}
                   /\ run'[c].old # run'[c].checks[run'[c].addr]
<1>1. run \in [Run -> RunState] /\ run[c] \in RunState /\ RunOK(run[c], told)
    BY RunsOK
<1>2. CASE Environment
  <2>1. run' = run
    BY <1>2 DEF Environment, EndpointChanges, ResolutionChanges, RecordDeleted, BotSaved,
                BotRemoved, FormLoaded, FormDropped, SwitchOff
  <2>2. \A a \in Target : state'[a] \in {state[a], "none"}
    BY <1>2 DEF Environment, EndpointChanges, ResolutionChanges, RecordDeleted, BotSaved,
                BotRemoved, FormLoaded, FormDropped, SwitchOff, record, Nothing
  <2>3. QED
    BY <1>1, <2>1, <2>2 DEF SendsWhatIsStored, RunState
<1>3. ASSUME NEW d \in Run,
             CronBegin(d) \/ SwitchOn(d) \/ RecheckBegin(d) \/ SelectedBegin(d)
      PROVE  Goal
  <2>1. d = c
    BY DEF SoleRun
  <2>2. PICK notify : run' = [run EXCEPT ![c] = [Idle EXCEPT !.at = "inspect",
                                                             !.notify = notify]]
    BY <1>3, <2>1, Zenon DEF CronBegin, SwitchOn, RecheckBegin, SelectedBegin, Enter
  <2>3. QED
    BY <1>1, <2>2 DEF Idle
<1>4. ASSUME NEW d \in Run, RunStep(d) PROVE Goal
  <2>1. d = c
    BY DEF SoleRun
  <2>2. PICK a \in Target : NotifyRead(c, a)
    <3>1. ~Inspect(c) /\ ~NotifyBegin(c)
      BY <1>1 DEF Inspect, NotifyBegin, Idle, RunState
    <3>2. ~Store(c)
      BY <1>1 DEF Store, Idle, RunState
    <3>3. ~NotifyCommit(c) /\ ~RunRejected(c) /\ ~RunFails(c)
      BY <1>1 DEF NotifyCommit, RunRejected, RunFails, Idle
    <3>4. ASSUME NEW delivered \in BOOLEAN, NEW answered \in BOOLEAN,
                 Send(c, delivered, answered)
          PROVE  FALSE
      BY <1>1, <3>4 DEF Send, Recorded, RunState
    <3>5. QED
      BY <1>4, <2>1, <3>1, <3>2, <3>3, <3>4 DEF RunStep
  <2> DEFINE r == [run[c] EXCEPT !.todo = @ \ {a}]
             loud == [r EXCEPT !.at = "send", !.addr = a, !.old = state[a]]
  <2>3. Message(state[a], r.checks[a]) # "nothing" /\ run'[c] = loud /\ state' = state
    BY <1>1, <2>2 DEF NotifyRead, Recorded, RunState
  <2>4. state[a] \in Outcome \cup {"none"} /\ run[c].checks[a] \in Outcome
    BY <1>1, <2>2 DEF NotifyRead, RunOK, RunState, IInv, TypeOK
  <2>5. state[a] # run[c].checks[a]
    BY <1>1, <2>3, <2>4, LoudMessage DEF RunState
  <2>6. QED
    BY <1>1, <2>3, <2>5 DEF RunState
<1>5. CASE UNCHANGED vars
    BY <1>5 DEF vars, SendsWhatIsStored
<1>6. QED
    BY <1>2, <1>3, <1>4, <1>5 DEF Next, Run

\* Where check runs do not overlap, alerts are deduplicated: none is delivered while
\* its outcome is recorded as announced, for every schedule of faults and edits.
THEOREM SoleRunDeduplicates == SoleRun => (Spec => AlertsAreDeduplicated)
<1> SUFFICES ASSUME SoleRun PROVE Spec => AlertsAreDeduplicated
    OBVIOUS
<1>1. Init => SendsWhatIsStored
    BY DEF Init, Idle, SendsWhatIsStored
<1>2. IInv /\ SendsWhatIsStored /\ [Next]_vars => SendsWhatIsStored'
    BY SoleRunStep
<1>3. ASSUME IInv, SendsWhatIsStored, NEW c \in Run, NEW answered \in BOOLEAN,
             Send(c, TRUE, answered),
             run[c].checks[run[c].addr] \in Failure \cup Warning
      PROVE  state[run[c].addr] # run[c].checks[run[c].addr]
    BY <1>3 DEF Send, SendsWhatIsStored
<1>4. IInv /\ SendsWhatIsStored =>
        \A c \in Run : \A answered \in BOOLEAN :
          /\ Send(c, TRUE, answered)
          /\ run[c].checks[run[c].addr] \in Failure \cup Warning
          => state[run[c].addr] # run[c].checks[run[c].addr]
    BY <1>3
<1>5. QED
    BY <1>1, <1>2, <1>4, Invariance, PTL DEF Spec, AlertsAreDeduplicated

-----------------------------------------------------------------------------
(* Which addresses have a state.  A run between its two transactions stands *)
(* on the results it has stored: another run replaces them, and switching   *)
(* the checks off deletes them, while the run goes on to insert its states. *)

SwitchesApart == [][(\E e \in Request : SwitchOff(e)) => \A c \in Run : run[c].at = "idle"]_vars

\* The results that a run has stored are those it is about to record states for; a
\* record that is gone has neither.
StoredIsListed ==
    /\ StateOnlyForListed
    /\ ~present => \A a \in Target : state[a] = "none"
    /\ \A c \in Run : run[c].at \in {"notify", "next", "send"} /\ present =>
         \A a \in Target : run[c].checks[a] # "none" => results[a] # "none"

LEMMA EnvironmentListed ==
    ASSUME IInv, StoredIsListed, Environment,
           (\E e \in Request : SwitchOff(e)) => \A c \in Run : run[c].at = "idle"
    PROVE  StoredIsListed'
<1>1. run' = run
    BY DEF Environment, EndpointChanges, ResolutionChanges, RecordDeleted, BotSaved,
           BotRemoved, FormLoaded, FormDropped, SwitchOff
<1>2. CASE UNCHANGED <<present, results, state>>
    BY <1>1, <1>2 DEF StoredIsListed, StateOnlyForListed
<1>3. CASE BotRemoved
    BY <1>1, <1>3 DEF BotRemoved, record, Nothing, StoredIsListed, StateOnlyForListed
<1>4. CASE RecordDeleted
    BY <1>1, <1>4 DEF RecordDeleted, Nothing, StoredIsListed, StateOnlyForListed
<1>5. CASE \E c \in Request : SwitchOff(c)
    BY <1>1, <1>5 DEF SwitchOff, Nothing, StoredIsListed, StateOnlyForListed
<1>6. QED
    BY <1>2, <1>3, <1>4, <1>5
       DEF Environment, EndpointChanges, ResolutionChanges, BotSaved, FormLoaded, FormDropped, record

\* Of the steps of a run only its two transactions touch results and states.
LEMMA RunStepListed ==
    ASSUME SoleRun, IInv, StoredIsListed, NEW c \in Run, RunStep(c)
    PROVE  StoredIsListed'
<1>1. run \in [Run -> RunState] /\ run[c] \in RunState /\ RunOK(run[c], told)
    BY RunsOK
<1>2. CASE Store(c)
  <2>1. /\ results' = run[c].checks /\ present' = present
        /\ \A a \in Target : state'[a] # "none" => state[a] # "none" /\ run[c].checks[a] # "none"
    BY <1>2 DEF Store, Checked
  <2>2. run'[c].checks = run[c].checks \/ run'[c].at = "idle"
    BY <1>1, <1>2 DEF Store, Idle, RunState
  <2>3. ASSUME NEW d \in Run, run'[d].at \in {"notify", "next", "send"},
               NEW a \in Target, run'[d].checks[a] # "none"
        PROVE  results'[a] # "none"
    BY <2>1, <2>2, <2>3 DEF SoleRun
  <2>4. QED
    BY <2>1, <2>3 DEF StoredIsListed, StateOnlyForListed
<1>3. CASE NotifyCommit(c)
  <2>1. UNCHANGED <<present, results>> /\ run' = [run EXCEPT ![c] = Idle]
    BY <1>3 DEF NotifyCommit, record
  <2>2. ASSUME NEW a \in Target, state'[a] # "none"
        PROVE  state[a] # "none" \/ (present /\ run[c].checks[a] # "none")
    <3>1. state'[a] = IF run[c].writes[a] # "none" THEN run[c].writes[a] ELSE state[a]
      BY <1>3 DEF NotifyCommit, Writes
    <3>2. run[c].writes[a] # "none" => present
      BY <1>3 DEF NotifyCommit, CommitAllowed, Writes
    <3>3. run[c].writes[a] # "none" => run[c].checks[a] # "none"
      BY <1>1 DEF RunOK
    <3>4. QED
      BY <2>2, <3>1, <3>2, <3>3
  <2>3. run[c].at = "next"
    BY <1>3 DEF NotifyCommit
  <2>4. \A d \in Run : run'[d].at = "idle"
    BY <1>1, <2>1 DEF SoleRun, Idle
  <2>5. QED
    BY <2>1, <2>2, <2>3, <2>4 DEF StoredIsListed, StateOnlyForListed
<1>4. ASSUME ~Store(c), ~NotifyCommit(c) PROVE StoredIsListed'
  <2>1. UNCHANGED <<present, results, state>>
    <3>1. ASSUME NEW delivered \in BOOLEAN, NEW answered \in BOOLEAN,
                 Send(c, delivered, answered)
          PROVE  UNCHANGED <<present, results, state>>
      BY <3>1 DEF Send, record
    <3>2. ASSUME NEW a \in Target, NotifyRead(c, a)
          PROVE  UNCHANGED <<present, results, state>>
      BY <3>2 DEF NotifyRead, record
    <3>3. CASE Inspect(c) \/ NotifyBegin(c) \/ RunRejected(c) \/ RunFails(c)
      BY <3>3 DEF Inspect, NotifyBegin, RunRejected, RunFails, record
    <3>4. QED
      BY <1>4, <3>1, <3>2, <3>3 DEF RunStep
  <2>2. \/ run'[c].at \in {"idle", "store"}
        \/ run[c].at \in {"notify", "next", "send"} /\ run'[c].checks = run[c].checks
    <3>1. ASSUME NEW delivered \in BOOLEAN, NEW answered \in BOOLEAN,
                 Send(c, delivered, answered)
          PROVE  run[c].at = "send" /\ run'[c].checks = run[c].checks
      BY <1>1, <3>1 DEF Send, Recorded, RunState
    <3>2. ASSUME NEW a \in Target, NotifyRead(c, a)
          PROVE  run[c].at = "next" /\ run'[c].checks = run[c].checks
      BY <1>1, <3>2 DEF NotifyRead, Recorded, RunState
    <3>3. CASE NotifyBegin(c)
      BY <1>1, <3>3 DEF NotifyBegin, Idle, RunState
    <3>4. CASE Inspect(c)
      BY <1>1, <3>4 DEF Inspect, RunState
    <3>5. CASE RunRejected(c) \/ RunFails(c)
      BY <1>1, <3>5 DEF RunRejected, RunFails, Idle
    <3>6. QED
      BY <1>4, <3>1, <3>2, <3>3, <3>4, <3>5 DEF RunStep
  <2>3. ASSUME NEW d \in Run, run'[d].at \in {"notify", "next", "send"}, present,
               NEW a \in Target, run'[d].checks[a] # "none"
        PROVE  results[a] # "none"
    BY <2>2, <2>3 DEF SoleRun, StoredIsListed
  <2>4. QED
    BY <2>1, <2>3 DEF StoredIsListed, StateOnlyForListed
<1>5. QED
    BY <1>2, <1>3, <1>4

LEMMA StepListed ==
    ASSUME SoleRun, IInv, StoredIsListed, [Next]_vars,
           (\E e \in Request : SwitchOff(e)) => \A c \in Run : run[c].at = "idle"
    PROVE  StoredIsListed'
<1>1. CASE Environment
    BY <1>1, EnvironmentListed
<1>2. ASSUME NEW c \in Run,
             CronBegin(c) \/ SwitchOn(c) \/ RecheckBegin(c) \/ SelectedBegin(c)
      PROVE  StoredIsListed'
  <2>1. UNCHANGED <<present, results, state>>
    BY <1>2 DEF CronBegin, SwitchOn, RecheckBegin, SelectedBegin, record
  <2>2. PICK notify : run' = [run EXCEPT ![c] = [Idle EXCEPT !.at = "inspect",
                                                             !.notify = notify]]
    BY <1>2, Zenon DEF CronBegin, SwitchOn, RecheckBegin, SelectedBegin, Enter
  <2>3. ASSUME NEW d \in Run, run'[d].at \in {"notify", "next", "send"} PROVE d # c
    BY <2>2, <2>3, RunsOK DEF Idle
  <2>4. \A d \in Run : run'[d].at \notin {"notify", "next", "send"}
    BY <2>3 DEF SoleRun
  <2>5. QED
    BY <2>1, <2>4 DEF StoredIsListed, StateOnlyForListed
<1>3. ASSUME NEW c \in Run, RunStep(c) PROVE StoredIsListed'
    BY <1>3, RunStepListed
<1>4. CASE UNCHANGED vars
    BY <1>4 DEF vars, StoredIsListed, StateOnlyForListed
<1>5. QED
    BY <1>1, <1>2, <1>3, <1>4 DEF Next, Run

\* Where check runs do not overlap and no run is under way when the checks are switched
\* off, only the addresses of the stored results have a state: whatever the bot, the
\* record, its name and the messages do meanwhile.
THEOREM SoleRunStatesAreListed ==
    SoleRun => (Spec /\ SwitchesApart => []StateOnlyForListed)
<1> SUFFICES ASSUME SoleRun PROVE Spec /\ SwitchesApart => []StateOnlyForListed
    OBVIOUS
<1>1. Init => StoredIsListed
    BY DEF Init, Idle, Nothing, StoredIsListed, StateOnlyForListed
<1>2. /\ IInv /\ StoredIsListed /\ [Next]_vars
      /\ [(\E e \in Request : SwitchOff(e)) => \A c \in Run : run[c].at = "idle"]_vars
      => StoredIsListed'
  <2>1. CASE UNCHANGED vars
    BY <2>1 DEF vars, StoredIsListed, StateOnlyForListed
  <2>2. QED
    BY <2>1, StepListed
<1>3. StoredIsListed => StateOnlyForListed
    BY DEF StoredIsListed
<1>4. QED
    BY <1>1, <1>2, <1>3, Invariance, PTL DEF Spec, SwitchesApart

-----------------------------------------------------------------------------
(* The refinement: check runs that do not overlap implement the channel.   *)

InFlight == {<<run[c].addr, run[c].checks[run[c].addr]>> : c \in {d \in Run : run[d].at = "send"}}
Received == {m \in Target \X Outcome : m[2] \in told[m[1]]}

LEMMA SoleInFlight ==
    ASSUME SoleRun, NEW c \in Run
    PROVE  /\ run[c].at = "send" => InFlight = {<<run[c].addr, run[c].checks[run[c].addr]>>}
           /\ run[c].at # "send" => InFlight = {}
BY DEF SoleRun, InFlight

\* What is on its way is an outcome of an address.
LEMMA InFlightTyped == ASSUME IInv PROVE InFlight \subseteq Target \X Outcome
<1>1. ASSUME NEW c \in Run, run[c].at = "send"
      PROVE  <<run[c].addr, run[c].checks[run[c].addr]>> \in Target \X Outcome
    BY <1>1, RunsOK DEF RunOK, RunState
<1>2. QED
    BY <1>1 DEF InFlight

LEMMA Stutters ==
    ASSUME UNCHANGED <<state, told>>, InFlight' = InFlight
    PROVE  UNCHANGED Channel!vars
BY DEF Channel!vars, InFlight

\* A transaction forgets states or records healthy ones and those told; what is on its
\* way is not touched, or only forgotten.
LEMMA Records ==
    ASSUME IInv, IInv', told' = told, InFlight' = InFlight,
           \A a \in Target : state'[a] \notin {state[a], "none"} =>
             InFlight = {} /\ state'[a] \in told[a] \cup {"healthy"}
    PROVE  Channel!Record
<1>1. state' \in [Target -> Outcome \cup {"none"}]
    BY DEF IInv, TypeOK
<1>2. ASSUME NEW a \in Target
      PROVE  \/ state'[a] \in {state[a], "none"} \cup {"healthy"}
             \/ <<a, state'[a]>> \in Received
  <2>1. told \in [Target -> SUBSET Outcome]
    BY DEF IInv, TypeOK
  <2>2. QED
    BY <2>1 DEF Received
<1>3. ASSUME NEW a \in Target, state'[a] # state[a] PROVE <<a, state'[a]>> \notin InFlight
  <2>1. CASE state'[a] = "none"
    BY <2>1, InFlightTyped DEF Outcome
  <2>2. CASE InFlight = {}
    BY <2>2
  <2>3. QED
    BY <1>3, <2>1, <2>2
<1>4. InFlight' = InFlight /\ Received' = Received
    BY DEF Received
<1>5. QED
    BY <1>1, <1>2, <1>3, <1>4 DEF Channel!Record, InFlight, Received

LEMMA InitMaps == Init => Channel!Init
BY DEF Init, Idle, Nothing, Channel!Init

\* Steps that touch neither states nor messages.
LEMMA QuietSteps ==
    ASSUME SoleRun, IInv, NEW c \in Run,
           \/ CronBegin(c) \/ SwitchOn(c) \/ RecheckBegin(c) \/ SelectedBegin(c)
           \/ Inspect(c) \/ NotifyBegin(c) \/ RunRejected(c)
    PROVE  UNCHANGED Channel!vars
<1>1. run \in [Run -> RunState] /\ UNCHANGED <<state, told>>
    BY RunsOK, Zenon DEF CronBegin, SwitchOn, RecheckBegin, SelectedBegin, Inspect, NotifyBegin,
                         RunRejected, history
<1>2. run[c].at # "send" /\ run'[c].at # "send"
  <2>1. CASE CronBegin(c) \/ SwitchOn(c) \/ RecheckBegin(c) \/ SelectedBegin(c)
    BY <1>1, <2>1 DEF CronBegin, SwitchOn, RecheckBegin, SelectedBegin, Enter, Idle
  <2>2. CASE Inspect(c) \/ NotifyBegin(c) \/ RunRejected(c)
    BY <1>1, <2>2 DEF Inspect, NotifyBegin, RunRejected, Idle, RunState
  <2>3. QED
    BY <2>1, <2>2
<1>3. InFlight = {} /\ InFlight' = {}
    BY <1>2 DEF SoleRun, InFlight
<1>4. QED
    BY <1>1, <1>3, Stutters

LEMMA NotifyReadMaps ==
    ASSUME SoleRun, IInv, NEW c \in Run, NEW a \in Target, NotifyRead(c, a)
    PROVE  UNCHANGED Channel!vars \/ \E k \in Outcome : Channel!Begin(a, k)
<1> DEFINE r == [run[c] EXCEPT !.todo = @ \ {a}]
           loud == [r EXCEPT !.at = "send", !.addr = a, !.old = state[a]]
           new == run[c].checks[a]
<1>1. /\ run \in [Run -> RunState] /\ run[c] \in RunState /\ run[c].at = "next"
      /\ new \in Outcome /\ state[a] \in Outcome \cup {"none"}
    BY RunsOK DEF NotifyRead, RunOK, RunState, IInv, TypeOK
<1>2. UNCHANGED <<state, told>> /\ r.checks = run[c].checks
    BY <1>1 DEF NotifyRead, history, RunState
<1>3. InFlight = {}
    BY <1>1 DEF SoleRun, InFlight
<1>4. CASE Message(state[a], new) = "nothing"
  <2>1. run'[c].at # "send"
    BY <1>1, <1>2, <1>4 DEF NotifyRead, Recorded, RunState
  <2>2. InFlight' = {}
    BY <2>1 DEF SoleRun, InFlight
  <2>3. QED
    BY <1>2, <1>3, <2>2, Stutters
<1>5. CASE Message(state[a], new) # "nothing"
  <2>1. run'[c] = loud
    BY <1>1, <1>2, <1>5 DEF NotifyRead
  <2>2. run'[c].at = "send" /\ run'[c].addr = a /\ run'[c].checks = run[c].checks
    BY <1>1, <2>1 DEF RunState
  <2>3. InFlight' = {<<a, new>>}
    BY <2>2 DEF SoleRun, InFlight
  <2>4. state[a] # new
    BY <1>1, <1>5, LoudMessage
  <2>5. PICK k \in Outcome : k = new
    BY <1>1
  <2>6. Channel!Begin(a, k)
    BY <1>2, <1>3, <2>3, <2>4, <2>5 DEF Channel!Begin, InFlight
  <2>7. QED
    BY <2>6
<1>6. QED
    BY <1>4, <1>5

LEMMA SendMaps ==
    ASSUME SoleRun, IInv, SendsWhatIsStored, NEW c \in Run,
           NEW delivered \in BOOLEAN, NEW answered \in BOOLEAN, Send(c, delivered, answered)
    PROVE  \E s \in Target, k \in Outcome : Channel!End(s, k, delivered)
<1> DEFINE a == run[c].addr
           o == run[c].checks[a]
<1>1. /\ run \in [Run -> RunState] /\ run[c] \in RunState /\ run[c].at = "send"
      /\ a \in Target /\ o \in Outcome /\ o # "none"
    BY RunsOK DEF Send, RunOK, RunState
<1>2. InFlight = {<<a, o>>}
    BY <1>1 DEF SoleRun, InFlight
<1>3. run'[c].at # "send"
    BY <1>1 DEF Send, Recorded, RunState
<1>4. InFlight' = {}
    BY <1>3 DEF SoleRun, InFlight
<1>5. state[a] # o
    BY <1>1 DEF SendsWhatIsStored
<1>6. /\ told' = IF delivered THEN [told EXCEPT ![a] = @ \cup {o}] ELSE told
      /\ told \in [Target -> SUBSET Outcome] /\ state' = state
    BY DEF Send, IInv, TypeOK
<1>7. Received' = IF delivered THEN Received \cup {<<a, o>>} ELSE Received
  <2>1. CASE delivered
    <3>1. \A m \in Target \X Outcome :
            m[2] \in told'[m[1]] <=> m[2] \in told[m[1]] \/ m = <<a, o>>
      BY <1>1, <1>6, <2>1
    <3>2. QED
      BY <1>1, <2>1, <3>1 DEF Received
  <2>2. CASE ~delivered
    BY <1>6, <2>2 DEF Received
  <2>3. QED
    BY <2>1, <2>2
<1>8. Channel!End(a, o, delivered)
    BY <1>2, <1>4, <1>5, <1>6, <1>7 DEF Channel!End, InFlight, Received
<1>9. QED
    BY <1>1, <1>8

LEMMA RunFailsMaps ==
    ASSUME SoleRun, IInv, NEW c \in Run, RunFails(c)
    PROVE  \/ UNCHANGED Channel!vars
           \/ \E s \in Target, k \in Outcome : Channel!End(s, k, FALSE)
<1>1. run' = [run EXCEPT ![c] = Idle] /\ UNCHANGED <<state, told>>
    BY DEF RunFails, history
<1>2. run \in [Run -> RunState] /\ InFlight' = {} /\ Received' = Received
    BY <1>1, RunsOK DEF SoleRun, InFlight, Idle, Received
<1>3. CASE run[c].at # "send"
    BY <1>1, <1>2, <1>3, SoleInFlight, Stutters
<1>4. CASE run[c].at = "send"
  <2> DEFINE a == run[c].addr
             o == run[c].checks[a]
  <2>1. InFlight = {<<a, o>>}
    BY <1>4, SoleInFlight
  <2>2. a \in Target /\ o \in Outcome
    BY <2>1, InFlightTyped
  <2>3. Channel!End(a, o, FALSE)
    BY <1>1, <1>2, <2>1 DEF Channel!End, InFlight, Received
  <2>4. QED
    BY <2>2, <2>3
<1>5. QED
    BY <1>3, <1>4

LEMMA StepMaps ==
    ASSUME SoleRun, IInv, IInv', SendsWhatIsStored, [Next]_vars
    PROVE  [Channel!Next]_(Channel!vars)
<1>1. CASE Environment
  <2>1. run' = run /\ told' = told
    BY <1>1 DEF Environment, EndpointChanges, ResolutionChanges, RecordDeleted, BotSaved,
                BotRemoved, FormLoaded, FormDropped, SwitchOff, history
  <2>2. \A a \in Target : state'[a] \in {state[a], "none"}
    BY <1>1 DEF Environment, EndpointChanges, ResolutionChanges, RecordDeleted, BotSaved,
                BotRemoved, FormLoaded, FormDropped, SwitchOff, record, Nothing
  <2>3. InFlight' = InFlight
    BY <2>1 DEF InFlight
  <2>4. Channel!Record
    BY <2>1, <2>2, <2>3, Records
  <2>5. QED
    BY <2>4 DEF Channel!Next
<1>2. ASSUME NEW c \in Run,
             \/ CronBegin(c) \/ SwitchOn(c) \/ RecheckBegin(c) \/ SelectedBegin(c)
             \/ Inspect(c) \/ NotifyBegin(c) \/ RunRejected(c)
      PROVE  UNCHANGED Channel!vars
    BY <1>2, QuietSteps
<1>3. ASSUME NEW c \in Run, Store(c) \/ NotifyCommit(c) PROVE Channel!Record
  <2>1. /\ run \in [Run -> RunState] /\ run[c] \in RunState /\ RunOK(run[c], told)
        /\ run[c].at # "send" /\ told' = told
    BY <1>3, RunsOK DEF Store, NotifyCommit, history
  <2>2. run'[c].at # "send"
    BY <1>3, <2>1 DEF Store, NotifyCommit, Idle, RunState
  <2>3. InFlight = {} /\ InFlight' = {}
    BY <2>1, <2>2 DEF SoleRun, InFlight
  <2>4. ASSUME NEW a \in Target
        PROVE  state'[a] \in {state[a], "none", "healthy"} \/ state'[a] \in told[a]
    <3>1. CASE Store(c)
      BY <3>1 DEF Store
    <3>2. CASE NotifyCommit(c)
      <4>1. state'[a] = IF run[c].writes[a] # "none" THEN run[c].writes[a] ELSE state[a]
        BY <3>2 DEF NotifyCommit, Writes
      <4>2. run[c].writes[a] \in Outcome \cup {"none"}
        BY <2>1 DEF RunState
      <4>3. QED
        BY <2>1, <4>1, <4>2 DEF RunOK, Reported, Outcome
    <3>3. QED
      BY <1>3, <3>1, <3>2
  <2>5. QED
    BY <2>1, <2>3, <2>4, Records
<1>4. ASSUME NEW c \in Run, RunStep(c) PROVE Channel!Next \/ UNCHANGED Channel!vars
  <2>1. ASSUME NEW a \in Target, NotifyRead(c, a)
        PROVE  Channel!Next \/ UNCHANGED Channel!vars
    BY <2>1, NotifyReadMaps, Zenon DEF Channel!Next
  <2>2. ASSUME NEW delivered \in BOOLEAN, NEW answered \in BOOLEAN,
               Send(c, delivered, answered)
        PROVE  Channel!Next
    BY <2>2, SendMaps, Zenon DEF Channel!Next
  <2>3. CASE RunFails(c)
    BY <2>3, RunFailsMaps, Zenon DEF Channel!Next
  <2>4. CASE Store(c) \/ NotifyCommit(c)
    BY <1>3, <2>4 DEF Channel!Next
  <2>5. CASE Inspect(c) \/ NotifyBegin(c) \/ RunRejected(c)
    BY <1>2, <2>5
  <2>6. QED
    BY <1>4, <2>1, <2>2, <2>3, <2>4, <2>5, Zenon DEF RunStep
<1>5. CASE UNCHANGED vars
    BY <1>5 DEF vars, Channel!vars
<1>6. QED
    BY <1>1, <1>2, <1>4, <1>5, Zenon DEF Next, Run

\* Where check runs do not overlap, they implement the channel: for all addresses,
\* outcomes and bounds, whatever is lost, fails, is edited or forgotten.
THEOREM SoleRunImplementsChannel == SoleRun => (Spec => ImplementsChannel)
<1> SUFFICES ASSUME SoleRun PROVE Spec => ImplementsChannel
    OBVIOUS
<1>1. Init => SendsWhatIsStored
    BY DEF Init, Idle, SendsWhatIsStored
<1>2. IInv /\ SendsWhatIsStored /\ [Next]_vars => SendsWhatIsStored'
    BY SoleRunStep
<1>3. IInv /\ IInv' /\ SendsWhatIsStored /\ [Next]_vars => [Channel!Next]_(Channel!vars)
    BY StepMaps
<1>4. QED
    BY <1>1, <1>2, <1>3, InitMaps, Invariance, PTL DEF Spec, ImplementsChannel, Channel!Spec

=============================================================================
